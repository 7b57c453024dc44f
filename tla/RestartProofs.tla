---------------------------- MODULE RestartProofs ----------------------------
(***************************************************************************)
(* Proofs about the two components that keep what they decide in one file, *)
(* written in place, and read it again after a restart.                    *)
(*                                                                         *)
(* InspectionSchedule: a schedule is armed exactly while it is enabled,    *)
(* and an acknowledged update survives every crash and failure that does   *)
(* not strike inside a write.                                              *)
(*                                                                         *)
(* GalaxyLauncher: the application is started with the settings the        *)
(* launcher manages in force, from whole files, and a repository's keys    *)
(* are replaced only where they are examples.                              *)
(***************************************************************************)
EXTENDS InspectionSchedule, GalaxyLauncher, FiniteSetTheorems, SequenceTheorems,
        WellFoundedInduction, TLAPS

(* ------------------------------ the schedule --------------------------- *)

\* What Normalize and Ripen return, by cases.
LEMMA NormalizeType ==
  ASSUME NEW s \in Schedule
  PROVE  /\ Normalize(s) \in Schedule
         /\ Armed(Normalize(s))
         /\ Normalize(s).enabled = s.enabled
  BY DEF Normalize, Schedule, NextRun, Armed

LEMMA RipenType ==
  ASSUME NEW s \in Schedule
  PROVE  /\ Ripen(s) \in Schedule
         /\ Ripen(s).enabled = s.enabled
         /\ Armed(s) => Armed(Ripen(s))
<1>1. CASE s.next = "future"
  <2>1. Ripen(s) = [enabled |-> s.enabled, next |-> "due"]
    BY <1>1 DEF Ripen, Schedule
  <2> QED BY <1>1, <2>1 DEF Schedule, NextRun, Armed
<1>2. CASE s.next # "future"
  BY <1>2 DEF Ripen
<1> QED BY <1>1, <1>2

\* What EndRun re-arms.
LEMMA RearmType ==
  ASSUME NEW s \in Schedule
  PROVE  /\ [s EXCEPT !.next = "future"] \in Schedule
         /\ [s EXCEPT !.next = "future"].enabled = s.enabled
         /\ s.enabled => Armed([s EXCEPT !.next = "future"])
<1>1. [s EXCEPT !.next = "future"] = [enabled |-> s.enabled, next |-> "future"]
  BY DEF Schedule
<1> QED BY <1>1 DEF Schedule, NextRun, Armed

\* A schedule taken from an update, whichever of the two rules applies.
LEMMA UpdateType ==
  ASSUME NEW input \in Schedule, schedule \in Schedule, Armed(schedule), Update(input)
  PROVE  schedule' \in Schedule /\ Armed(schedule') /\ schedule'.enabled = input.enabled
<1>1. CASE input.enabled /\ schedule.next # "off" /\ input.next = "off"
  <2>1. schedule' = [enabled |-> TRUE, next |-> schedule.next]
    BY <1>1 DEF Update
  <2> QED BY <1>1, <2>1 DEF Schedule, NextRun, Armed
<1>2. CASE ~(input.enabled /\ schedule.next # "off" /\ input.next = "off")
  <2>1. schedule' = Normalize(input)
    BY <1>2 DEF Update
  <2> QED BY <2>1, NormalizeType
<1> QED BY <1>1, <1>2

\* Every request to replace the schedule is an Update of a schedule.
LEMMA RequestsAreUpdates ==
  ASSUME seen \in NextRun, NEW e \in BOOLEAN, ClientUpdate(e) \/ ImportSchedule(e)
  PROVE  \E input \in Schedule : Update(input)
<1>1. CASE ClientUpdate(e)
  <2>1. [enabled |-> e, next |-> IF e THEN seen ELSE "off"] \in Schedule
    BY DEF Schedule, NextRun
  <2> QED BY <1>1, <2>1 DEF ClientUpdate
<1>2. CASE ImportSchedule(e)
  <2>1. [enabled |-> e, next |-> "off"] \in Schedule
    BY DEF Schedule, NextRun
  <2> QED BY <1>2, <2>1 DEF ImportSchedule
<1> QED BY <1>1, <1>2

-----------------------------------------------------------------------------
(* Types and arming.                                                       *)

\* The run's variables keep their types under the steps of the lifecycle.
RunTypeOK ==
  /\ state \in {"idle", "running", "paused", "stopping",
                "stopped", "completed", "partial", "failed"}
  /\ context \in {"none", "live", "canceled", "deadline"}
  /\ asked \in BOOLEAN
  /\ fate \in {"none", "open", "commit", "canceled", "deadline", "failed"}

LEMMA LifecycleTypes ==
  ASSUME RunTypeOK, LifecycleNext \/ UNCHANGED lifecycle
  PROVE  RunTypeOK'
<1> USE DEF RunTypeOK
<1>1. CASE Start BY <1>1 DEF Start
<1>2. CASE Pause \/ Resume \/ Stop BY <1>2 DEF Pause, Resume, Stop
<1>3. CASE EndContext
  <2>1. context' \in {"deadline", "canceled"}
    BY <1>3 DEF EndContext
  <2> QED BY <1>3, <2>1 DEF EndContext
<1>4. CASE Decide BY <1>4 DEF Decide
<1>5. CASE End
  <2>1. EndState[fate] \in {"completed", "stopped", "partial", "failed"}
    BY <1>5 DEF End, EndState
  <2> QED BY <1>5, <2>1 DEF End
<1>6. CASE UNCHANGED lifecycle BY <1>6 DEF lifecycle
<1> QED BY <1>1, <1>2, <1>3, <1>4, <1>5, <1>6 DEF LifecycleNext

ArmedInv == TypeOK /\ ArmedIffEnabled

LEMMA InitArmed == Init => ArmedInv
<1> SUFFICES ASSUME Init PROVE ArmedInv
  OBVIOUS
<1>1. Default \in Schedule /\ Armed(Default)
  BY DEF Default, Schedule, NextRun, Armed
<1>2. 0 \in 0..MaxSpawned
  BY SpawnAssumption
<1> QED BY <1>1, <1>2 DEF Init, LifecycleInit, ArmedInv, TypeOK, ArmedIffEnabled, NextRun

LEMMA StepArmed == ArmedInv /\ [Next]_vars => ArmedInv'
<1> SUFFICES ASSUME ArmedInv, [Next]_vars PROVE ArmedInv'
  OBVIOUS
<1> USE DEF ArmedInv, ArmedIffEnabled
<1>0. TypeOK /\ RunTypeOK /\ Armed(schedule) /\ Armed(file)
  BY DEF TypeOK, RunTypeOK
<1>1. ASSUME NEW e \in BOOLEAN, ClientUpdate(e) \/ ImportSchedule(e) PROVE ArmedInv'
  <2>1. PICK input \in Schedule : Update(input)
    BY <1>0, <1>1, RequestsAreUpdates DEF TypeOK
  <2>2. schedule' \in Schedule /\ Armed(schedule')
    BY <1>0, <2>1, UpdateType DEF TypeOK
  <2> QED BY <1>0, <2>1, <2>2 DEF Update, runs, TypeOK
<1>2. CASE ClientLooks
  <2>1. seen' \in NextRun
    BY <1>0, <1>2 DEF ClientLooks, TypeOK, Schedule
  <2> QED BY <1>0, <1>2, <2>1 DEF ClientLooks, runs, TypeOK
<1>3. CASE ManualStart
  <2>1. RunTypeOK'
    BY <1>0, <1>3, LifecycleTypes DEF ManualStart, LifecycleNext
  <2> QED BY <1>0, <1>3, <2>1 DEF ManualStart, TypeOK, RunTypeOK
<1>4. CASE Control
  <2>1. RunTypeOK'
    BY <1>0, <1>4, LifecycleTypes DEF Control, LifecycleNext
  <2> QED BY <1>0, <1>4, <2>1 DEF Control, TypeOK, RunTypeOK
<1>5. CASE Truncate
  BY <1>0, <1>5 DEF Truncate, runs, TypeOK, Default, Schedule, NextRun, Armed
<1>6. CASE Saved
  <2>1. acked' \in {"on", "off", "unknown"} /\ trigger' \in BOOLEAN
    BY <1>0, <1>6 DEF Saved, Said, TypeOK
  <2> QED BY <1>0, <1>6, <2>1 DEF Saved, runs, TypeOK
<1>7. CASE SaveFails
  BY <1>0, <1>7 DEF SaveFails, runs, TypeOK
<1>8. CASE MaybeRunDue
  <2>1. spawned' \in 0..MaxSpawned
    BY <1>0, <1>8, SpawnAssumption DEF MaybeRunDue, TypeOK
  <2> QED BY <1>0, <1>8, <2>1 DEF MaybeRunDue, runs, TypeOK
<1>9. CASE Wake
  <2>1. trigger' \in BOOLEAN
    BY <1>0, <1>9 DEF Wake, TypeOK
  <2> QED BY <1>0, <1>9, <2>1 DEF Wake, runs, TypeOK
<1>10. CASE ScheduledStart
  <2>1. RunTypeOK' /\ manual' \in BOOLEAN
    <3>1. RunTypeOK'
      BY <1>0, <1>10, LifecycleTypes DEF ScheduledStart, runs, lifecycle, LifecycleNext
    <3>2. manual' \in BOOLEAN
      BY <1>0, <1>10 DEF ScheduledStart, runs, TypeOK
    <3> QED BY <3>1, <3>2
  <2>2. spawned' \in 0..MaxSpawned
    BY <1>0, <1>10, SpawnAssumption DEF ScheduledStart, TypeOK
  <2> QED BY <1>0, <1>10, <2>1, <2>2 DEF ScheduledStart, TypeOK, RunTypeOK
<1>11. CASE RunSteps
  <2>1. RunTypeOK'
    BY <1>0, <1>11, LifecycleTypes DEF RunSteps, LifecycleNext
  <2> QED BY <1>0, <1>11, <2>1 DEF RunSteps, TypeOK, RunTypeOK
<1>12. CASE EndRun
  <2>1. RunTypeOK'
    BY <1>0, <1>12, LifecycleTypes DEF EndRun, LifecycleNext
  <2>2. schedule' \in Schedule /\ Armed(schedule')
    BY <1>0, <1>12, RearmType DEF EndRun, TypeOK
  <2>3. saving' \in {"none", "truncate", "write"} /\ saver' \in {"update", "rearm"}
    BY <1>0, <1>12 DEF EndRun, TypeOK
  <2> QED BY <1>0, <1>12, <2>1, <2>2, <2>3 DEF EndRun, TypeOK, RunTypeOK
<1>13. CASE Tick
  <2>1. schedule' \in Schedule /\ Armed(schedule') /\ file' \in Schedule /\ Armed(file')
    BY <1>0, <1>13, RipenType DEF Tick, TypeOK
  <2>2. seen' \in NextRun
    BY <1>0, <1>13 DEF Tick, TypeOK, NextRun
  <2> QED BY <1>0, <1>13, <2>1, <2>2 DEF Tick, runs, TypeOK
<1>14. CASE Crash
  <2>1. Default \in Schedule /\ Armed(Default)
    BY DEF Default, Schedule, NextRun, Armed
  <2>2. torn' \in BOOLEAN
    BY <1>0, <1>14 DEF Crash, TypeOK
  <2>3. 0 \in 0..MaxSpawned
    BY SpawnAssumption
  <2> QED BY <1>0, <1>14, <2>1, <2>2, <2>3 DEF Crash, TypeOK
<1>15. CASE Restart
  <2>1. Default \in Schedule /\ Armed(Default)
    BY DEF Default, Schedule, NextRun, Armed
  <2>2. schedule' \in Schedule /\ Armed(schedule')
    BY <1>0, <1>15, <2>1, NormalizeType DEF Restart, TypeOK
  <2> QED BY <1>0, <1>15, <2>2 DEF Restart, runs, TypeOK
<1>16. CASE UNCHANGED vars
  BY <1>0, <1>16 DEF vars, TypeOK
<1> QED BY <1>1, <1>2, <1>3, <1>4, <1>5, <1>6, <1>7, <1>8, <1>9, <1>10, <1>11, <1>12, <1>13,
           <1>14, <1>15, <1>16 DEF Next, Requests, Save

\* An enabled schedule has a next run and a disabled one has none, in memory
\* and in the file.
THEOREM ScheduleArmed == Spec => []ArmedIffEnabled
<1>1. ArmedInv => ArmedIffEnabled
  BY DEF ArmedInv
<1> QED BY <1>1, InitArmed, StepArmed, PTL DEF Spec

-----------------------------------------------------------------------------
(* Acknowledged updates.                                                   *)

\* While the process runs, the file agrees too, unless it is being written;
\* an update that is being saved has not been acknowledged; and nothing is
\* being saved while the process is down.
AckInv ==
  /\ acked # "unknown" /\ ~torn =>
       /\ up => Said(schedule.enabled) = acked
       /\ saving = "write" \/ (parses = "whole" /\ Said(file.enabled) = acked)
  /\ saving # "none" /\ saver = "update" => acked = "unknown"
  /\ ~up => saving = "none"

LEMMA InitAcked == Init => AckInv
BY DEF Init, AckInv

LEMMA StepAcked == ArmedInv /\ AckInv /\ [Next]_vars => AckInv'
<1> SUFFICES ASSUME ArmedInv, AckInv, [Next]_vars PROVE AckInv'
  OBVIOUS
<1>0. TypeOK
  BY DEF ArmedInv
<1> USE DEF AckInv
<1>1. ASSUME NEW e \in BOOLEAN, ClientUpdate(e) \/ ImportSchedule(e) PROVE AckInv'
  BY <1>1 DEF ClientUpdate, ImportSchedule, Update, MutexFree
<1>2. CASE Truncate \/ SaveFails
  BY <1>0, <1>2 DEF Truncate, SaveFails, TypeOK
<1>3. CASE Saved
  BY <1>0, <1>3 DEF Saved, TypeOK
<1>4. CASE ClientLooks \/ ManualStart \/ Control \/ MaybeRunDue \/ Wake \/ ScheduledStart \/ RunSteps
  <2>1. UNCHANGED <<up, schedule, file, parses, saving, saver, acked, torn>>
    BY <1>4 DEF ClientLooks, ManualStart, Control, MaybeRunDue, Wake, ScheduledStart, RunSteps
  <2> QED BY <2>1
<1>5. CASE EndRun
  <2>1. schedule'.enabled = schedule.enabled
    BY <1>0, <1>5, RearmType DEF EndRun, TypeOK
  <2>2. saving' = "truncate" => saver' = "rearm"
    BY <1>5 DEF EndRun, MutexFree
  <2> QED BY <1>5, <2>1, <2>2 DEF EndRun, MutexFree
<1>6. CASE Tick
  <2>1. schedule'.enabled = schedule.enabled /\ file'.enabled = file.enabled
    BY <1>0, <1>6, RipenType DEF Tick, TypeOK
  <2> QED BY <1>6, <2>1 DEF Tick
<1>7. CASE Crash
  BY <1>0, <1>7 DEF Crash, TypeOK
<1>8. CASE Restart
  <2>1. parses = "whole" => schedule'.enabled = file.enabled
    BY <1>0, <1>8, NormalizeType DEF Restart, TypeOK
  <2> QED BY <1>8, <2>1 DEF Restart
<1>9. CASE UNCHANGED vars
  BY <1>9 DEF vars
<1> QED BY <1>1, <1>2, <1>3, <1>4, <1>5, <1>6, <1>7, <1>8, <1>9 DEF Next, Requests, Save

\* An acknowledged update survives every crash, restart, failed save and run
\* that does not interrupt a write of the file.
THEOREM AckedSurvives == Spec => []AckedUnlessTorn
<1>1. AckInv => AckedUnlessTorn
  BY DEF AckInv, AckedUnlessTorn
<1> QED BY <1>1, InitArmed, StepArmed, InitAcked, StepAcked, PTL DEF Spec

(* ------------------------- the repository's file ----------------------- *)

\* Only a launcher about to commit remembers what it read.  That has example
\* keys, and is still what the repository holds if its sha is: every commit
\* takes the next number.
GitInv ==
  /\ git.sha \in Nat
  /\ pc # "commit" => read = NoRead
  /\ pc = "commit" =>
       /\ read.sha \in 1..git.sha
       /\ ReplaceExamples(read.keys) # read.keys
       /\ read.sha = git.sha => read.keys = git.keys

LEMMA InitGit == LauncherInit => GitInv
<1>. SUFFICES ASSUME LauncherInit PROVE GitInv
  OBVIOUS
<1>1. git = NoRead \/ git \in [sha : {1}, keys : GitKeys]
  BY DEF LauncherInit
<1>2. git.sha \in {0, 1}
  BY <1>1 DEF NoRead
<1>. QED  BY <1>2 DEF LauncherInit, GitInv

LEMMA StepGit == GitInv /\ [LauncherNext]_launcherVars => GitInv'
<1>. SUFFICES ASSUME GitInv, [LauncherNext]_launcherVars PROVE GitInv'
  OBVIOUS
<1>. USE DEF GitInv
<1>1. ASSUME UNCHANGED <<git, read>>, pc # "commit", pc' # "commit" PROVE GitInv'
  BY <1>1
<1>2. CASE UNCHANGED <<pc, git, read>>
  BY <1>2
<1>3. CASE Exit /\ UNCHANGED git
  BY <1>3 DEF Exit
<1>4. CASE ReadGit
  <2>1. CASE git.sha = 0 \/ ReplaceExamples(git.keys) = git.keys
    BY <1>4, <2>1 DEF ReadGit
  <2>2. CASE git.sha # 0 /\ ReplaceExamples(git.keys) # git.keys
    BY <1>4, <2>2 DEF ReadGit
  <2>. QED  BY <2>1, <2>2
<1>5. CASE CommitKeys
  <2>1. git'.sha = git.sha + 1 /\ read' = NoRead /\ pc' = "install"
    BY <1>5 DEF CommitKeys
  <2>. QED  BY <2>1
<1>6. CASE OtherCommits
  <2>1. git'.sha = git.sha + 1 /\ UNCHANGED <<pc, read>>
    BY <1>6 DEF OtherCommits
  <2>. QED  BY <2>1
<1>7. CASE Boot
  BY <1>7 DEF Boot
<1>8. CASE WriteConfig \/ Prepared \/ CheckInstalled \/ Download \/ Copied \/ TemplateWritten
            \/ StartBinary
  BY <1>1, <1>8 DEF WriteConfig, Prepared, CheckInstalled, Download, Copied, TemplateWritten,
                    StartBinary
<1>9. CASE CrashInConfig \/ CommitConflicts \/ TemplateMissing \/ LauncherCrash \/ ChildExitSeen
  BY <1>3, <1>9 DEF CrashInConfig, CommitConflicts, TemplateMissing, LauncherCrash, ChildExitSeen
<1>10. CASE ChildExits \/ Receive \/ LookupAnswered \/ ProxyHead \/ ProxyEnds
             \/ UNCHANGED launcherVars
  BY <1>2, <1>10 DEF ChildExits, Receive, LookupAnswered, ProxyHead, ProxyEnds, launcherVars
<1>. QED  BY <1>4, <1>5, <1>6, <1>7, <1>8, <1>9, <1>10 DEF LauncherNext

\* A list is changed by ReplaceExamples only if an example key leads it.
LEMMA ReplacesExamples ==
  ASSUME NEW keys, ReplaceExamples(keys) # keys
  PROVE  Head(keys) = "example"
BY DEF ReplaceExamples

LEMMA StepReplaces ==
  ASSUME GitInv, LauncherNext, git'.keys # git.keys, read.sha > 0, pc' = "install"
  PROVE  git.keys = read.keys /\ Head(git.keys) = "example"
<1>1. pc = "commit"
  BY DEF GitInv, NoRead
<1>2. CASE CommitKeys
  BY <1>1, <1>2, ReplacesExamples DEF GitInv, CommitKeys, Conflict
<1>3. CASE ~CommitKeys
  BY <1>1, <1>3 DEF LauncherNext, Boot, WriteConfig, CrashInConfig, Prepared, ReadGit,
    CommitConflicts, OtherCommits, CheckInstalled, Download, Copied, TemplateWritten,
    TemplateMissing, LauncherCrash, StartBinary, ChildExits, ChildExitSeen, Receive,
    LookupAnswered, ProxyHead, ProxyEnds, Exit
<1>. QED  BY <1>2, <1>3

\* The launcher replaces example keys only, and never keys somebody committed
\* after it read the file (ensureGitStoreAPIKeys).
THEOREM ExamplesReplaced == LauncherSpec => OnlyExamplesReplaced
<1>1. GitInv /\ [LauncherNext]_launcherVars =>
        [git'.keys # git.keys /\ read.sha > 0 /\ pc' = "install"
           => git.keys = read.keys /\ Head(git.keys) = "example"]_launcherVars
  BY StepReplaces
<1>. QED  BY <1>1, InitGit, StepGit, PTL DEF LauncherSpec, OnlyExamplesReplaced

(* ----------------------------- installation ---------------------------- *)

\* A torn binary is being copied, was torn over an earlier installation, or has
\* no template beside it, so that it is not taken for installed; a torn template
\* is being written or was torn by a crash in its write.
InstallInv ==
  /\ binary \in {"absent", "torn", "whole"} /\ template \in {"absent", "torn", "whole"}
  /\ binary = "torn" => pc = "copying" \/ template = "absent" \/ "binary" \in cut
  /\ template = "torn" => pc = "template" \/ "template" \in cut
  /\ pc = "copying" => binary = "torn"
  /\ pc = "template" => binary = "whole"
  /\ pc = "start" => binary # "absent" /\ template # "absent"
  /\ child # "none" => pc = "serving"

LEMMA InitInstall == LauncherInit => InstallInv
BY DEF LauncherInit, InstallInv

LEMMA StepInstall == InstallInv /\ [LauncherNext]_launcherVars => InstallInv'
<1>. SUFFICES ASSUME InstallInv, [LauncherNext]_launcherVars PROVE InstallInv'
  OBVIOUS
<1>. USE DEF InstallInv, files
<1>1. ASSUME UNCHANGED <<binary, template, cut>>, child' = "none" \/ pc' = "serving", pc \notin {"copying", "template"},
             pc' \notin {"copying", "template", "start"}
      PROVE  InstallInv'
  BY <1>1
<1>2. CASE UNCHANGED <<pc, binary, template, cut>> /\ (child' # "none" => child # "none")
  BY <1>2
<1>3. CASE Boot
  BY <1>1, <1>3 DEF Boot
<1>4. CASE WriteConfig \/ Prepared \/ ReadGit \/ CommitKeys \/ StartBinary
  BY <1>1, <1>4 DEF WriteConfig, Prepared, ReadGit, CommitKeys, StartBinary
<1>5. CASE CrashInConfig \/ CommitConflicts
  BY <1>1, <1>5 DEF CrashInConfig, CommitConflicts, Exit
<1>6. CASE CheckInstalled
  BY <1>6 DEF CheckInstalled, Installed
<1>7. CASE Download
  BY <1>7 DEF Download
<1>8. CASE Copied
  BY <1>8 DEF Copied
<1>9. CASE TemplateWritten
  BY <1>9 DEF TemplateWritten
<1>10. CASE TemplateMissing
  BY <1>10 DEF TemplateMissing, Exit
<1>11. CASE LauncherCrash
  <2>1. pc' = "stopped" /\ child' = "none" /\ UNCHANGED <<binary, template>>
    BY <1>11 DEF LauncherCrash, Exit
  <2>2. cut \subseteq cut'
    BY <1>11 DEF LauncherCrash
  <2>3. pc = "copying" /\ template # "absent" => "binary" \in cut'
    BY <1>11 DEF LauncherCrash, Installed
  <2>4. pc = "template" => "template" \in cut'
    BY <1>11 DEF LauncherCrash
  <2>. QED  BY <2>1, <2>2, <2>3, <2>4
<1>12. CASE ChildExitSeen
  <2>1. pc = "serving" /\ pc' = "stopped" /\ child' = "none" /\ UNCHANGED <<binary, template, cut>>
    BY <1>12 DEF ChildExitSeen, Exit
  <2>. QED  BY <2>1
<1>13. CASE OtherCommits \/ ChildExits \/ Receive \/ LookupAnswered \/ ProxyHead \/ ProxyEnds
             \/ UNCHANGED launcherVars
  BY <1>2, <1>13 DEF OtherCommits, ChildExits, Receive, LookupAnswered, ProxyHead, ProxyEnds,
                     launcherVars, files
<1>. QED  BY <1>3, <1>4, <1>5, <1>6, <1>7, <1>8, <1>9, <1>10, <1>11, <1>12, <1>13
          DEF LauncherNext

\* The binary the launcher starts is whole unless a forced download was cut short
\* over an earlier installation: one that was cut short the first time is copied
\* again. Its template is whole unless a crash came in the write of it, which
\* ensureBinary takes for an installed one.
THEOREM WholeFilesStarted == LauncherSpec => []StartsWholeFiles
<1>1. InstallInv => StartsWholeFiles
  BY DEF InstallInv, StartsWholeFiles
<1>. QED  BY <1>1, InitInstall, StepInstall, PTL DEF LauncherSpec

(* ----------------------------- files of lines -------------------------- *)

\* Lines: strings, the launcher's own named because the provers do not know that
\* a literal is in STRING.
Line == STRING \cup {Port, AuthDir, Usage, KeysHeader, "api-keys: []", Remote, NewKey, PanelPro, Blank}
               \cup Allows
Doc == Seq(Line)

LEMMA LeastOf ==
  ASSUME NEW S \in SUBSET Nat, S # {}
  PROVE  Min(S) \in S /\ \A x \in S : Min(S) <= x
<1> DEFINE R == OpToRel(<, Nat)
<1>1. IsWellFoundedOn(R, Nat)
  BY NatLessThanWellFounded
<1>2. \A x, y \in Nat : x < y => <<x, y>> \in R
  BY DEF OpToRel
<1> HIDE DEF R
<1>3. PICK m \in S : \A x \in S : ~(<<x, m>> \in R)
  BY <1>1, WFMin
<1>4. \A x \in S : m <= x
  <2>1. ASSUME NEW x \in S PROVE m <= x
    <3>1. x \in Nat /\ m \in Nat
      OBVIOUS
    <3>2. ~(x < m)
      BY <1>2, <1>3, <3>1, Zenon
    <3>. QED  BY <3>1, <3>2
  <2>. QED  BY <2>1
<1>5. \E y \in S : \A x \in S : y <= x
  BY <1>4
<1>. QED  BY <1>5 DEF Min

LEMMA GreatestOf ==
  ASSUME NEW n \in Nat, NEW S \in SUBSET (0..n), S # {}
  PROVE  Max(S) \in S /\ \A x \in S : x <= Max(S)
<1> DEFINE T == {n - x : x \in S}
<1>1. T \in SUBSET Nat /\ T # {}
  OBVIOUS
<1>2. Min(T) \in T /\ \A y \in T : Min(T) <= y
  BY <1>1, LeastOf
<1> HIDE DEF T
<1>3. PICK m \in S : Min(T) = n - m
  BY <1>2 DEF T
<1>4. \A x \in S : x <= m
  <2>1. ASSUME NEW x \in S PROVE x <= m
    <3>1. n - x \in T
      BY DEF T
    <3>. QED  BY <1>2, <1>3, <3>1
  <2>. QED  BY <2>1
<1>5. \E y \in S : \A x \in S : x <= y
  BY <1>4
<1>. QED  BY <1>5 DEF Max

\* The first line of S, or 0 if there is none.
LEMMA IndexInIs ==
  ASSUME NEW doc \in Doc, NEW S
  PROVE  /\ IndexIn(doc, S) \in 0..Len(doc)
         /\ IndexIn(doc, S) = 0 => \A i \in DOMAIN doc : doc[i] \notin S
         /\ IndexIn(doc, S) # 0 => /\ doc[IndexIn(doc, S)] \in S
                                   /\ \A i \in 1..IndexIn(doc, S) - 1 : doc[i] \notin S
<1> DEFINE I == {i \in 1..Len(doc) : doc[i] \in S}
<1>1. Len(doc) \in Nat /\ DOMAIN doc = 1..Len(doc)
  BY DEF Doc
<1>2. IndexIn(doc, S) = IF I # {} THEN Min(I) ELSE 0
  BY DEF IndexIn, SelectInSeq
<1>3. CASE I = {}
  BY <1>1, <1>2, <1>3
<1>4. CASE I # {}
  <2>1. I \in SUBSET Nat
    BY <1>1
  <2>2. Min(I) \in I /\ \A x \in I : Min(I) <= x
    BY <1>4, <2>1, LeastOf
  <2>3. IndexIn(doc, S) \in I /\ \A x \in I : IndexIn(doc, S) <= x
    BY <1>2, <1>4, <2>2, Zenon
  <2>. QED  BY <1>1, <2>3
<1>. QED  BY <1>3, <1>4

\* The end of a section: the lines before it are the section's, its own is not.
LEMMA EndOfIs ==
  ASSUME NEW doc \in Doc, NEW start \in 0..Len(doc), NEW S
  PROVE  /\ EndOf(doc, start, S) \in start + 1..Len(doc) + 1
         /\ \A i \in start + 1..EndOf(doc, start, S) - 1 : doc[i] \in S
         /\ EndOf(doc, start, S) <= Len(doc) => doc[EndOf(doc, start, S)] \notin S
<1> DEFINE I == {i \in (start + 1)..(Len(doc) + 1) : i > Len(doc) \/ doc[i] \notin S}
<1>1. Len(doc) \in Nat
  BY DEF Doc
<1>2. EndOf(doc, start, S) = Min(I)
  BY DEF EndOf
<1>3. I \in SUBSET Nat /\ Len(doc) + 1 \in I
  BY <1>1
<1>4. Min(I) \in I /\ \A x \in I : Min(I) <= x
  BY <1>3, LeastOf
<1>5. EndOf(doc, start, S) \in I /\ \A x \in I : EndOf(doc, start, S) <= x
  BY <1>2, <1>4, Zenon
<1>. QED  BY <1>1, <1>5

\* The last line of S of a range of lines, or 0 if there is none.
LEMMA LastInIs ==
  ASSUME NEW doc \in Doc, NEW S, NEW from \in Nat, NEW to \in Nat
  PROVE  /\ LastIn(doc, S, from, to) \in 0..Len(doc)
         /\ LastIn(doc, S, from, to) = 0 =>
              \A i \in from..to : i \in DOMAIN doc => doc[i] \notin S
         /\ LastIn(doc, S, from, to) # 0 =>
              /\ LastIn(doc, S, from, to) \in from..to
              /\ doc[LastIn(doc, S, from, to)] \in S
              /\ \A i \in LastIn(doc, S, from, to) + 1..to : i \in DOMAIN doc => doc[i] \notin S
<1> DEFINE I == {i \in from..to : i \in DOMAIN doc /\ doc[i] \in S}
<1>1. Len(doc) \in Nat /\ DOMAIN doc = 1..Len(doc)
  BY DEF Doc
<1>2. LastIn(doc, S, from, to) = IF I = {} THEN 0 ELSE Max(I)
  BY DEF LastIn
<1>3. CASE I = {}
  BY <1>1, <1>2, <1>3
<1>4. CASE I # {}
  <2>1. I \in SUBSET (0..Len(doc))
    BY <1>1
  <2>2. Max(I) \in I /\ \A x \in I : x <= Max(I)
    BY <1>1, <1>4, <2>1, GreatestOf
  <2>3. LastIn(doc, S, from, to) \in I /\ \A x \in I : x <= LastIn(doc, S, from, to)
    BY <1>2, <1>4, <2>2, Zenon
  <2>. QED  BY <1>1, <2>3
<1>. QED  BY <1>3, <1>4

(* Every edit is a splice: lines a to b - 1 of a file give way to n others.      *)
Splice(old, new, a, b, n) ==
  /\ a \in 1..Len(old) + 1 /\ b \in a..Len(old) + 1 /\ n \in Nat
  /\ new \in Doc /\ Len(new) = Len(old) - (b - a) + n
  /\ \A j \in 1..a - 1 : new[j] = old[j]
  /\ \A j \in b..Len(old) : new[j - (b - a) + n] = old[j]

LEMMA DocIs ==
  ASSUME NEW doc \in Doc
  PROVE  Len(doc) \in Nat /\ DOMAIN doc = 1..Len(doc) /\ \A i \in 1..Len(doc) : doc[i] \in Line
BY DEF Doc

LEMMA SliceIs ==
  ASSUME NEW doc \in Doc, NEW from \in 1..Len(doc) + 1, NEW to \in from - 1..Len(doc)
  PROVE  /\ SubSeq(doc, from, to) \in Doc
         /\ Len(SubSeq(doc, from, to)) = to - from + 1
         /\ \A i \in 1..to - from + 1 : SubSeq(doc, from, to)[i] = doc[from + i - 1]
<1>1. from \in Int /\ to \in Int /\ Len(doc) \in Nat /\ \A i \in from..to : doc[i] \in Line
  BY DocIs
<1>2. SubSeq(doc, from, to) \in Seq(Line)
  BY <1>1, SubSeqProperties
<1>3. Len(SubSeq(doc, from, to)) = to - from + 1
  BY <1>1, SubSeqProperties
<1>4. \A i \in 1..to - from + 1 : SubSeq(doc, from, to)[i] = doc[from + i - 1]
  BY <1>1, SubSeqProperties
<1>. QED  BY <1>2, <1>3, <1>4 DEF Doc

Joined(s, t) == s \o t

LEMMA JoinIs ==
  ASSUME NEW s \in Doc, NEW t \in Doc
  PROVE  /\ Joined(s, t) \in Doc /\ Len(Joined(s, t)) = Len(s) + Len(t)
         /\ \A i \in 1..Len(s) : Joined(s, t)[i] = s[i]
         /\ \A i \in 1..Len(t) : Joined(s, t)[Len(s) + i] = t[i]
<1>1. Len(s) \in Nat /\ Len(t) \in Nat
  BY DocIs
<1>2. /\ s \o t \in Doc /\ Len(s \o t) = Len(s) + Len(t)
      /\ \A i \in 1..Len(s) + Len(t) : (s \o t)[i] = IF i <= Len(s) THEN s[i] ELSE t[i - Len(s)]
  BY ConcatProperties DEF Doc
<1>. QED  BY <1>1, <1>2 DEF Joined

\* A block put between the first lines of a file and its last ones
Cut(doc, a, b, block) == Joined(Joined(SubSeq(doc, 1, a - 1), block), SubSeq(doc, b, Len(doc)))

LEMMA CutIs ==
  ASSUME NEW doc \in Doc, NEW block \in Doc,
         NEW a \in 1..Len(doc) + 1, NEW b \in a..Len(doc) + 1
  PROVE  /\ Splice(doc, Cut(doc, a, b, block), a, b, Len(block))
         /\ \A j \in 1..Len(block) : Cut(doc, a, b, block)[a - 1 + j] = block[j]
<1> DEFINE s == SubSeq(doc, 1, a - 1)
           t == SubSeq(doc, b, Len(doc))
           u == Joined(s, block)
           new == Cut(doc, a, b, block)
<1>0. new = Joined(u, t)
  BY DEF Cut
<1>a. u = Joined(s, block)
  OBVIOUS
<1> HIDE DEF u, new
<1>1. Len(doc) \in Nat /\ Len(block) \in Nat
  BY DocIs
<1>2. /\ s \in Doc /\ Len(s) = a - 1
      /\ \A i \in 1..a - 1 : s[i] = doc[i]
  BY <1>1, SliceIs
<1>3. /\ t \in Doc /\ Len(t) = Len(doc) - b + 1
      /\ \A i \in 1..Len(doc) - b + 1 : t[i] = doc[b + i - 1]
  BY <1>1, SliceIs
<1> HIDE DEF s, t
<1>4. /\ u \in Doc /\ Len(u) = Len(s) + Len(block)
      /\ \A i \in 1..Len(s) : u[i] = s[i]
      /\ \A i \in 1..Len(block) : u[Len(s) + i] = block[i]
  BY <1>a, <1>2, JoinIs
<1>5. u \in Doc /\ t \in Doc
  BY <1>3, <1>4
<1>6. /\ new \in Doc /\ Len(new) = Len(u) + Len(t)
      /\ \A i \in 1..Len(u) : new[i] = u[i]
      /\ \A i \in 1..Len(t) : new[Len(u) + i] = t[i]
  BY <1>0, <1>5, JoinIs
<1>7. \A j \in 1..a - 1 : new[j] = doc[j]
  BY <1>1, <1>2, <1>4, <1>6
<1>8. \A j \in 1..Len(block) : new[a - 1 + j] = block[j]
  BY <1>1, <1>2, <1>4, <1>6
<1>9. ASSUME NEW j \in b..Len(doc) PROVE new[j - (b - a) + Len(block)] = doc[j]
  <2> DEFINE i == j - b + 1
  <2>1. i \in 1..Len(t) /\ b + i - 1 = j /\ Len(u) + i = j - (b - a) + Len(block)
    BY <1>1, <1>2, <1>3, <1>4
  <2> HIDE DEF i
  <2>. QED  BY <1>3, <1>6, <2>1
<1>10. Len(new) = Len(doc) - (b - a) + Len(block)
  BY <1>1, <1>2, <1>3, <1>4, <1>6
<1>11. Splice(doc, new, a, b, Len(block))
  BY <1>1, <1>6, <1>7, <1>9, <1>10 DEF Splice
<1>. QED  BY <1>8, <1>11 DEF new

\* The lines behind one of them make way for a block.
Ending(doc, k, block) == Joined(SubSeq(doc, 1, k), block)

LEMMA EndingIs ==
  ASSUME NEW doc \in Doc, NEW block \in Doc, NEW k \in 0..Len(doc)
  PROVE  /\ Splice(doc, Ending(doc, k, block), k + 1, Len(doc) + 1, Len(block))
         /\ \A j \in 1..Len(block) : Ending(doc, k, block)[k + j] = block[j]
<1> DEFINE s == SubSeq(doc, 1, k)
           new == Ending(doc, k, block)
<1>1. Len(doc) \in Nat /\ Len(block) \in Nat
  BY DocIs
<1>2. /\ s \in Doc /\ Len(s) = k
      /\ \A i \in 1..k : s[i] = doc[i]
  BY <1>1, SliceIs
<1>3. new = Joined(s, block)
  BY DEF Ending
<1> HIDE DEF s, new
<1>4. /\ new \in Doc /\ Len(new) = Len(s) + Len(block)
      /\ \A i \in 1..Len(s) : new[i] = s[i]
      /\ \A i \in 1..Len(block) : new[Len(s) + i] = block[i]
  BY <1>2, <1>3, JoinIs
<1>5. Splice(doc, new, k + 1, Len(doc) + 1, Len(block))
  BY <1>1, <1>2, <1>4 DEF Splice
<1>. QED  BY <1>2, <1>4, <1>5 DEF new

\* One line is replaced; one is put on top.
Replaced(doc, k, line) == [doc EXCEPT ![k] = line]

LEMMA ReplacedIs ==
  ASSUME NEW doc \in Doc, NEW k \in 1..Len(doc), NEW line \in Line
  PROVE  Splice(doc, Replaced(doc, k, line), k, k + 1, 1) /\ Replaced(doc, k, line)[k] = line
<1> DEFINE new == [doc EXCEPT ![k] = line]
<1>1. Len(doc) \in Nat /\ DOMAIN doc = 1..Len(doc)
  BY DocIs
<1>2. new \in Doc
  BY <1>1, ExceptSeq DEF Doc
<1>3. Len(new) = Len(doc) /\ new[k] = line /\ \A j \in 1..Len(doc) : j # k => new[j] = doc[j]
  BY <1>1, ExceptSeq DEF Doc
<1> HIDE DEF new
<1>4. Splice(doc, new, k, k + 1, 1)
  BY <1>1, <1>2, <1>3 DEF Splice
<1>. QED  BY <1>3, <1>4 DEF new, Replaced

LEMMA OnTopIs ==
  ASSUME NEW doc \in Doc, NEW line \in Line
  PROVE  Splice(doc, Joined(<<line>>, doc), 1, 1, 1) /\ Joined(<<line>>, doc)[1] = line
<1> DEFINE s == <<line>>
           new == Joined(s, doc)
<1>1. Len(doc) \in Nat
  BY DocIs
<1>2. s \in Doc /\ Len(s) = 1 /\ s[1] = line /\ new = Joined(s, doc)
  BY DEF Doc
<1> HIDE DEF s, new
<1>a. s \in Doc /\ new = Joined(s, doc)
  BY <1>2
<1>b. /\ new \in Doc /\ Len(new) = Len(s) + Len(doc)
      /\ \A i \in 1..Len(s) : new[i] = s[i]
      /\ \A i \in 1..Len(doc) : new[Len(s) + i] = doc[i]
  BY <1>a, JoinIs
<1>3. /\ new \in Doc /\ Len(new) = 1 + Len(doc) /\ new[1] = line
      /\ \A i \in 1..Len(doc) : new[1 + i] = doc[i]
  BY <1>1, <1>2, <1>b
<1>4. Splice(doc, new, 1, 1, 1)
  BY <1>1, <1>3 DEF Splice
<1>. QED  BY <1>3, <1>4 DEF new, s

(* What a splice keeps *)

\* Of the lines of S the first is this one.
FirstIs(doc, S, line) ==
  \E i \in 1..Len(doc) : doc[i] = line /\ line \in S /\ \A j \in 1..i - 1 : doc[j] \notin S

LEMMA FirstByIndex ==
  ASSUME NEW doc \in Doc, NEW S, NEW line, FirstIs(doc, S, line)
  PROVE  IndexIn(doc, S) \in 1..Len(doc) /\ doc[IndexIn(doc, S)] = line
<1>1. PICK i \in 1..Len(doc) : doc[i] = line /\ line \in S /\ \A j \in 1..i - 1 : doc[j] \notin S
  BY DEF FirstIs
<1>2. Len(doc) \in Nat /\ DOMAIN doc = 1..Len(doc)
  BY DocIs
<1>3. /\ IndexIn(doc, S) \in 0..Len(doc)
      /\ IndexIn(doc, S) = 0 => \A k \in DOMAIN doc : doc[k] \notin S
      /\ IndexIn(doc, S) # 0 => /\ doc[IndexIn(doc, S)] \in S
                                /\ \A k \in 1..IndexIn(doc, S) - 1 : doc[k] \notin S
  BY IndexInIs
<1>4. IndexIn(doc, S) = i
  BY <1>1, <1>2, <1>3
<1>. QED  BY <1>1, <1>4

\* A splice that neither removes nor brings lines of S keeps the first of them.
LEMMA SpliceKeepsFirst ==
  ASSUME NEW old \in Doc, NEW new, NEW a, NEW b, NEW n, Splice(old, new, a, b, n),
         NEW S, NEW line, FirstIs(old, S, line),
         \A j \in a..b - 1 : old[j] \notin S, \A j \in a..a + n - 1 : new[j] \notin S
  PROVE  FirstIs(new, S, line)
<1>1. PICK i \in 1..Len(old) : old[i] = line /\ line \in S /\ \A j \in 1..i - 1 : old[j] \notin S
  BY DEF FirstIs
<1>2. /\ Len(old) \in Nat /\ a \in 1..Len(old) + 1 /\ b \in a..Len(old) + 1 /\ n \in Nat
      /\ Len(new) = Len(old) - (b - a) + n
      /\ \A j \in 1..a - 1 : new[j] = old[j]
      /\ \A j \in b..Len(old) : new[j - (b - a) + n] = old[j]
  BY DocIs DEF Splice
<1>3. CASE i < a
  <2>1. i \in 1..Len(new) /\ new[i] = line /\ \A j \in 1..i - 1 : new[j] \notin S
    BY <1>1, <1>2, <1>3
  <2>. QED  BY <1>1, <2>1 DEF FirstIs
<1>4. CASE i >= b
  <2> DEFINE k == i - (b - a) + n
  <2>1. k \in 1..Len(new) /\ new[k] = line
    BY <1>1, <1>2, <1>4
  <2>2. ASSUME NEW j \in 1..k - 1 PROVE new[j] \notin S
    <3>1. CASE j < a
      <4>1. j \in 1..a - 1 /\ j \in 1..i - 1
        BY <1>1, <1>2, <1>4, <3>1
      <4>2. new[j] = old[j]
        BY <1>2, <4>1
      <4>. QED  BY <1>1, <4>1, <4>2
    <3>2. CASE a <= j /\ j <= a + n - 1
      BY <1>2, <3>2
    <3>3. CASE j >= a + n
      <4> DEFINE m == j + (b - a) - n
      <4>1. m \in b..Len(old) /\ m \in 1..i - 1 /\ j = m - (b - a) + n
        BY <1>2, <3>3
      <4> HIDE DEF m
      <4>2. new[j] = old[m]
        BY <1>2, <4>1
      <4>. QED  BY <1>1, <4>1, <4>2
    <3>. QED  BY <1>2, <3>1, <3>2, <3>3
  <2> HIDE DEF k
  <2>. QED  BY <1>1, <2>1, <2>2 DEF FirstIs
<1>. QED  BY <1>1, <1>2, <1>3, <1>4

\* The two lines, one below the other
PairIn(doc, one, two) == \E i \in 1..Len(doc) - 1 : doc[i] = one /\ doc[i + 1] = two

\* A splice that meets no such pair keeps those there are.
LEMMA SpliceKeepsPair ==
  ASSUME NEW old \in Doc, NEW new, NEW a, NEW b, NEW n, Splice(old, new, a, b, n),
         NEW one, NEW two, PairIn(old, one, two),
         \A j \in a..b - 1 : old[j] # one,
         \A j \in a..b : 1 < j /\ j <= Len(old) => ~(old[j - 1] = one /\ old[j] = two)
  PROVE  PairIn(new, one, two)
<1>1. PICK i \in 1..Len(old) - 1 : old[i] = one /\ old[i + 1] = two
  BY DEF PairIn
<1>2. /\ Len(old) \in Nat /\ a \in 1..Len(old) + 1 /\ b \in a..Len(old) + 1 /\ n \in Nat
      /\ Len(new) = Len(old) - (b - a) + n
      /\ \A j \in 1..a - 1 : new[j] = old[j]
      /\ \A j \in b..Len(old) : new[j - (b - a) + n] = old[j]
  BY DocIs DEF Splice
<1>3. CASE i + 1 < a
  <2>1. i \in 1..Len(new) - 1 /\ new[i] = one /\ new[i + 1] = two
    BY <1>1, <1>2, <1>3
  <2>. QED  BY <2>1 DEF PairIn
<1>4. CASE i >= b
  <2> DEFINE k == i - (b - a) + n
  <2>1. k \in 1..Len(new) - 1 /\ new[k] = one
    <3>1. i \in b..Len(old) /\ k \in 1..Len(new) - 1
      BY <1>1, <1>2, <1>4
    <3>2. new[k] = old[i]
      BY <1>2, <3>1
    <3>. QED  BY <1>1, <3>1, <3>2
  <2>2. i + 1 \in b..Len(old) /\ (i + 1) - (b - a) + n = k + 1
    BY <1>1, <1>2, <1>4
  <2> HIDE DEF k
  <2>3. new[k + 1] = two
    BY <1>1, <1>2, <2>2
  <2>. QED  BY <2>1, <2>3 DEF PairIn
<1>5. i + 1 < a \/ i >= b
  <2>1. i \notin a..b - 1
    BY <1>1
  <2>2. i + 1 \notin a..b
    <3>1. 1 < i + 1 /\ i + 1 <= Len(old) /\ (i + 1) - 1 = i
      BY <1>2
    <3>. QED  BY <1>1, <3>1
  <2>. QED  BY <1>2, <2>1, <2>2
<1>. QED  BY <1>3, <1>4, <1>5

(* ------------------------------- the edits ----------------------------- *)

\* Lines the edits of the keys and of the panel's section remove or bring
SectionLines == Indented \cup KeysHeaders \cup Items \cup {Blank, Remote, AuthDir}

LEMMA LineFacts ==
  /\ Port \in Ports /\ Usage \in Usages /\ KeysHeader \in KeysHeaders
  /\ NewKey \in Indented /\ PanelPro \in Panels
  /\ Allow(TRUE) \in Allows /\ Allow(FALSE) \in Allows
  /\ Panels \subseteq Indented /\ Allows \subseteq Indented
  /\ \A l \in SectionLines : l \notin Ports /\ l \notin Usages
  /\ \A l \in Usages \cup {AuthDir} : l \notin Ports
  /\ \A l \in Panels \cup Allows \cup {Blank} : l # KeysHeader /\ l # NewKey /\ l # Remote
  /\ \A l \in Panels : l \notin Allows
  /\ \A l \in Panels \cup Allows : l # Blank
  /\ KeysHeader \notin Indented \cup {Blank, Remote}
  /\ Port # Blank /\ NewKey # Blank /\ Remote \notin Indented /\ Remote # Blank /\ Remote # KeysHeader
  /\ {Port, AuthDir, Usage, KeysHeader, Remote, NewKey, PanelPro, Blank} \subseteq Line
  /\ Allows \cup {"api-keys: []"} \subseteq Line
<1>. USE DEF Port, Ports, Usage, Usages, KeysHeader, KeysHeaders, NewKey, Indented, PanelPro, Panels,
    Allow, Allows, SectionLines, Items, Blank, Remote, AuthDir
<1>1. Port \in Ports /\ Usage \in Usages /\ KeysHeader \in KeysHeaders
  OBVIOUS
<1>2. NewKey \in Indented /\ PanelPro \in Panels
  OBVIOUS
<1>3. Allow(TRUE) \in Allows /\ Allow(FALSE) \in Allows
  OBVIOUS
<1>4. Panels \subseteq Indented /\ Allows \subseteq Indented
  OBVIOUS
<1>5. \A l \in SectionLines : l \notin Ports /\ l \notin Usages
  OBVIOUS
<1>6. \A l \in Usages \cup {AuthDir} : l \notin Ports
  OBVIOUS
<1>7. \A l \in Panels \cup Allows \cup {Blank} : l # KeysHeader /\ l # NewKey /\ l # Remote
  OBVIOUS
<1>8. \A l \in Panels : l \notin Allows
  OBVIOUS
<1>9. \A l \in Panels \cup Allows : l # Blank
  OBVIOUS
<1>10. Port # Blank /\ NewKey # Blank /\ Remote \notin Indented /\ Remote # Blank /\ Remote # KeysHeader
  OBVIOUS
<1>11. {Port, AuthDir, Usage, KeysHeader, Remote, NewKey, PanelPro, Blank} \subseteq Line
  BY DEF Line
<1>12. Allows \cup {"api-keys: []"} \subseteq Line
  BY DEF Line
<1>13. KeysHeader \notin Indented \cup {Blank, Remote}
  OBVIOUS
<1>. QED  BY <1>1, <1>2, <1>3, <1>4, <1>5, <1>6, <1>7, <1>8, <1>9, <1>10, <1>11, <1>12, <1>13

\* upsertTopLevelScalar as a splice: the first line of S, or nothing, gives way.
LEMMA UpsertScalarSplices ==
  ASSUME NEW doc \in Doc, NEW S, NEW line \in Line
  PROVE  \E a \in 1..Len(doc) + 1, b \in Int :
           /\ Splice(doc, UpsertScalar(doc, S, line), a, b, 1)
           /\ UpsertScalar(doc, S, line)[a] = line
           /\ \A j \in a..b - 1 : doc[j] \in S
           /\ \A j \in 1..a - 1 : doc[j] \notin S
<1> DEFINE i == IndexIn(doc, S)
           new == UpsertScalar(doc, S, line)
<1>1. Len(doc) \in Nat /\ DOMAIN doc = 1..Len(doc)
  BY DocIs
<1>2. /\ i \in 0..Len(doc)
      /\ i = 0 => \A k \in DOMAIN doc : doc[k] \notin S
      /\ i # 0 => doc[i] \in S /\ \A k \in 1..i - 1 : doc[k] \notin S
  BY IndexInIs
<1>3. new = IF i = 0 THEN Joined(<<line>>, doc) ELSE Replaced(doc, i, line)
  BY DEF UpsertScalar, Joined, Replaced
<1> HIDE DEF i, new
<1>4. CASE i = 0
  <2>1. Splice(doc, new, 1, 1, 1) /\ new[1] = line
    BY <1>3, <1>4, OnTopIs
  <2>2. 1 \in 1..Len(doc) + 1 /\ 1 \in Int
    BY <1>1
  <2>. QED  BY <2>1, <2>2 DEF new
<1>5. CASE i # 0
  <2>1. i \in 1..Len(doc) /\ i + 1 \in Int /\ \A j \in i..(i + 1) - 1 : j = i
    BY <1>1, <1>2, <1>5
  <2>2. new = Replaced(doc, i, line)
    BY <1>3, <1>5
  <2>3. Splice(doc, new, i, i + 1, 1) /\ new[i] = line
    BY <2>1, <2>2, ReplacedIs
  <2>4. i \in 1..Len(doc) + 1
    BY <1>1, <2>1
  <2>. QED  BY <1>2, <1>5, <2>1, <2>3, <2>4 DEF new
<1>. QED  BY <1>4, <1>5

LEMMA UpsertScalarFirst ==
  ASSUME NEW doc \in Doc, NEW S, NEW line \in Line, line \in S
  PROVE  /\ UpsertScalar(doc, S, line) \in Doc
         /\ FirstIs(UpsertScalar(doc, S, line), S, line)
<1> DEFINE new == UpsertScalar(doc, S, line)
<1>1. PICK a \in 1..Len(doc) + 1, b \in Int :
        /\ Splice(doc, new, a, b, 1)
        /\ new[a] = line
        /\ \A j \in a..b - 1 : doc[j] \in S
        /\ \A j \in 1..a - 1 : doc[j] \notin S
  BY UpsertScalarSplices
<1> HIDE DEF new
<1>2. /\ Len(doc) \in Nat /\ b \in a..Len(doc) + 1
      /\ new \in Doc /\ Len(new) = Len(doc) - (b - a) + 1
      /\ \A j \in 1..a - 1 : new[j] = doc[j]
  BY <1>1, DocIs DEF Splice
<1>3. a \in 1..Len(new) /\ \A j \in 1..a - 1 : new[j] \notin S
  BY <1>1, <1>2
<1>4. FirstIs(new, S, line)
  BY <1>1, <1>3 DEF FirstIs
<1>. QED  BY <1>2, <1>4 DEF new

LEMMA UpsertScalarKeeps ==
  ASSUME NEW doc \in Doc, NEW S, NEW line \in Line, line \in S,
         NEW T, NEW first, FirstIs(doc, T, first), \A l \in S : l \notin T
  PROVE  FirstIs(UpsertScalar(doc, S, line), T, first)
<1> DEFINE new == UpsertScalar(doc, S, line)
<1>1. PICK a \in 1..Len(doc) + 1, b \in Int :
        /\ Splice(doc, new, a, b, 1)
        /\ new[a] = line
        /\ \A j \in a..b - 1 : doc[j] \in S
        /\ \A j \in 1..a - 1 : doc[j] \notin S
  BY UpsertScalarSplices
<1> HIDE DEF new
<1>2. Len(doc) \in Nat
  BY DocIs
<1>3. \A j \in a..b - 1 : doc[j] \notin T
  BY <1>1
<1>4. \A j \in a..a + 1 - 1 : new[j] \notin T
  BY <1>1, <1>2
<1>5. FirstIs(new, T, first)
  BY <1>1, <1>3, <1>4, SpliceKeepsFirst
<1>. QED  BY <1>5 DEF new

\* upsertTopLevelList as a splice: a section of keys, or the end of the file,
\* gives way to the new section.
LEMMA UpsertKeysSplices ==
  ASSUME NEW doc \in Doc, doc # <<>>
  PROVE  \E a \in 1..Len(doc) + 1, b \in Int, n \in 2..3 :
           /\ Splice(doc, UpsertKeys(doc), a, b, n)
           /\ UpsertKeys(doc)[a] = KeysHeader /\ UpsertKeys(doc)[a + 1] = NewKey
           /\ \A j \in a..a + n - 1 : UpsertKeys(doc)[j] \in SectionLines
           /\ \A j \in a..b - 1 : doc[j] \in SectionLines
<1> DEFINE block == <<KeysHeader, NewKey>>
           newline == <<Blank>>
           tail == Joined(block, newline)
           start == IndexIn(doc, KeysHeaders)
           end == EndOf(doc, start, Indented \cup Items \cup {Blank})
           new == UpsertKeys(doc)
<1>1. Len(doc) \in Nat /\ DOMAIN doc = 1..Len(doc) /\ Len(doc) # 0
  BY DocIs, EmptySeq DEF Doc
<1>a. KeysHeader \in Line /\ NewKey \in Line /\ Blank \in Line
  BY LineFacts
<1>b. /\ block \in Doc /\ Len(block) = 2 /\ block[1] = KeysHeader /\ block[2] = NewKey
      /\ newline \in Doc /\ Len(newline) = 1 /\ newline[1] = Blank
  BY <1>a DEF Doc
<1>2. tail \in Doc /\ Len(tail) = 3 /\ tail[1] = KeysHeader /\ tail[2] = NewKey /\ tail[3] = Blank
  <2> HIDE DEF block, newline
  <2>1. /\ tail \in Doc /\ Len(tail) = Len(block) + Len(newline)
        /\ \A i \in 1..Len(block) : tail[i] = block[i]
        /\ \A i \in 1..Len(newline) : tail[Len(block) + i] = newline[i]
    BY <1>b, JoinIs
  <2> HIDE DEF tail
  <2>. QED  BY <1>b, <2>1
<1>3. {KeysHeader, NewKey, Blank} \subseteq SectionLines
  BY LineFacts DEF SectionLines
<1>4. /\ start \in 0..Len(doc)
      /\ start # 0 => doc[start] \in KeysHeaders
  BY IndexInIs
<1>5. CASE start = 0
  <2> DEFINE k == IF EndsWithNewline(doc) THEN Len(doc) - 1 ELSE Len(doc)
             s == SubSeq(doc, 1, k)
  <2>1. k \in 0..Len(doc) /\ \A j \in k + 1..Len(doc) : doc[j] = Blank
    BY <1>1 DEF EndsWithNewline, Last
  <2>2. s = IF EndsWithNewline(doc) THEN Front(doc) ELSE doc
    BY SubSeqFull DEF Front, Doc
  <2>3. new = (s \o block) \o <<Blank>>
    BY <1>5, <2>2 DEF UpsertKeys
  <2>4. s \in Doc
    BY <1>1, <2>1, SliceIs
  <2>6. (s \o block) \o newline = s \o (block \o newline)
    BY <1>b, <2>4, ConcatAssociative DEF Doc
  <2>7. new = Ending(doc, k, tail)
    BY <2>3, <2>6 DEF Ending, Joined
  <2> HIDE DEF k, s, new, tail, block, newline
  <2>a. tail \in Doc
    BY <1>2
  <2>b. /\ Splice(doc, new, k + 1, Len(doc) + 1, Len(tail))
        /\ \A j \in 1..Len(tail) : new[k + j] = tail[j]
    BY <2>a, <2>1, <2>7, EndingIs
  <2>8. /\ Splice(doc, new, k + 1, Len(doc) + 1, 3)
        /\ \A j \in 1..3 : new[k + j] = tail[j]
    BY <1>2, <2>b
  <2>9. new[k + 1] = KeysHeader /\ new[k + 2] = NewKey /\ new[k + 3] = Blank
    BY <1>2, <2>8
  <2>10. k + 1 \in 1..Len(doc) + 1 /\ Len(doc) + 1 \in Int /\ (k + 1) + 1 = k + 2
    BY <1>1, <2>1
  <2>11. ASSUME NEW j \in k + 1..(k + 1) + 3 - 1 PROVE new[j] \in SectionLines
    <3>1. j = k + 1 \/ j = k + 2 \/ j = k + 3
      BY <2>1
    <3>. QED  BY <1>3, <2>9, <3>1
  <2>12. \A j \in k + 1..(Len(doc) + 1) - 1 : doc[j] \in SectionLines
    BY <1>1, <1>3, <2>1
  <2>13. 3 \in 2..3 /\ new[(k + 1) + 1] = NewKey
    BY <2>9, <2>10
  <2>. QED  BY <2>8, <2>9, <2>10, <2>11, <2>12, <2>13 DEF new
<1>6. CASE start # 0
  <2>1. new = Cut(doc, start, end, block)
    BY <1>6 DEF UpsertKeys, Cut, Joined
  <2>2. /\ end \in start + 1..Len(doc) + 1
        /\ \A i \in start + 1..end - 1 : doc[i] \in Indented \cup Items \cup {Blank}
    BY <1>4, EndOfIs
  <2> HIDE DEF start, end, new, block
  <2>3. start \in 1..Len(doc) + 1 /\ end \in start..Len(doc) + 1 /\ end \in Int
    BY <1>1, <1>4, <1>6, <2>2
  <2>a. block \in Doc
    BY <1>b
  <2>b. /\ Splice(doc, new, start, end, Len(block))
        /\ \A j \in 1..Len(block) : new[start - 1 + j] = block[j]
    BY <2>1, <2>3, <2>a, CutIs
  <2>4. /\ Splice(doc, new, start, end, 2)
        /\ \A j \in 1..2 : new[start - 1 + j] = block[j]
    BY <1>b, <2>b
  <2>5. new[start] = KeysHeader /\ new[start + 1] = NewKey
    <3>1. start - 1 + 1 = start /\ start - 1 + 2 = start + 1
      BY <2>3
    <3>2. new[start - 1 + 1] = block[1] /\ new[start - 1 + 2] = block[2]
      BY <2>4
    <3>. QED  BY <1>b, <3>1, <3>2
  <2>6. ASSUME NEW j \in start..start + 2 - 1 PROVE new[j] \in SectionLines
    <3>1. j = start \/ j = start + 1
      BY <2>3
    <3>. QED  BY <1>3, <2>5, <3>1
  <2>7. ASSUME NEW j \in start..end - 1 PROVE doc[j] \in SectionLines
    <3>1. j = start \/ j \in start + 1..end - 1
      BY <2>3
    <3>. QED  BY <1>4, <1>6, <2>2, <3>1 DEF SectionLines
  <2>8. 2 \in 2..3
    OBVIOUS
  <2>. QED  BY <2>3, <2>4, <2>5, <2>6, <2>7, <2>8 DEF new
<1>. QED  BY <1>5, <1>6

LEMMA UpsertKeysKeeps ==
  ASSUME NEW doc \in Doc, doc # <<>>,
         FirstIs(doc, Ports, Port), FirstIs(doc, Usages, Usage)
  PROVE  /\ UpsertKeys(doc) \in Doc
         /\ FirstIs(UpsertKeys(doc), Ports, Port) /\ FirstIs(UpsertKeys(doc), Usages, Usage)
         /\ PairIn(UpsertKeys(doc), KeysHeader, NewKey)
<1> DEFINE new == UpsertKeys(doc)
<1>1. PICK a \in 1..Len(doc) + 1, b \in Int, n \in 2..3 :
        /\ Splice(doc, new, a, b, n)
        /\ new[a] = KeysHeader /\ new[a + 1] = NewKey
        /\ \A j \in a..a + n - 1 : new[j] \in SectionLines
        /\ \A j \in a..b - 1 : doc[j] \in SectionLines
  BY UpsertKeysSplices
<1> HIDE DEF new
<1>2. /\ Len(doc) \in Nat /\ b \in a..Len(doc) + 1
      /\ new \in Doc /\ Len(new) = Len(doc) - (b - a) + n
  BY <1>1, DocIs DEF Splice
<1>3. a \in 1..Len(new) - 1
  BY <1>2
<1>4. PairIn(new, KeysHeader, NewKey)
  BY <1>1, <1>3 DEF PairIn
<1>5. \A l \in SectionLines : l \notin Ports /\ l \notin Usages
  BY LineFacts
<1>6. FirstIs(new, Ports, Port)
  BY <1>1, <1>5, SpliceKeepsFirst
<1>7. FirstIs(new, Usages, Usage)
  BY <1>1, <1>5, SpliceKeepsFirst
<1>. QED  BY <1>2, <1>4, <1>6, <1>7 DEF new

\* The edits of the panel's section: what they remove and bring concerns neither
\* the ports, nor the statistics, nor the keys.
PanelSplice(old, new) ==
  \E a \in 1..Len(old) + 1, b \in Int, n \in Nat :
    /\ Splice(old, new, a, b, n)
    /\ \A j \in a..b - 1 : old[j] \in Indented \cup {Blank}
    /\ \A j \in a..a + n - 1 : new[j] \in SectionLines
    /\ \A j \in a..b : 1 < j /\ j <= Len(old) => ~(old[j - 1] = KeysHeader /\ old[j] = NewKey)

LEMMA PanelSpliceKeeps ==
  ASSUME NEW old \in Doc, NEW new, PanelSplice(old, new),
         FirstIs(old, Ports, Port), FirstIs(old, Usages, Usage)
  PROVE  /\ new \in Doc
         /\ FirstIs(new, Ports, Port) /\ FirstIs(new, Usages, Usage)
         /\ PairIn(old, KeysHeader, NewKey) => PairIn(new, KeysHeader, NewKey)
<1>1. PICK a \in 1..Len(old) + 1, b \in Int, n \in Nat :
        /\ Splice(old, new, a, b, n)
        /\ \A j \in a..b - 1 : old[j] \in Indented \cup {Blank}
        /\ \A j \in a..a + n - 1 : new[j] \in SectionLines
        /\ \A j \in a..b : 1 < j /\ j <= Len(old) => ~(old[j - 1] = KeysHeader /\ old[j] = NewKey)
  BY DEF PanelSplice
<1>2. \A j \in a..b - 1 : old[j] \in SectionLines
  BY <1>1, LineFacts DEF SectionLines
<1>3. \A l \in SectionLines : l \notin Ports /\ l \notin Usages
  BY LineFacts
<1>4. FirstIs(new, Ports, Port)
  BY <1>1, <1>2, <1>3, SpliceKeepsFirst
<1>5. FirstIs(new, Usages, Usage)
  BY <1>1, <1>2, <1>3, SpliceKeepsFirst
<1>6. ASSUME PairIn(old, KeysHeader, NewKey) PROVE PairIn(new, KeysHeader, NewKey)
  <2>1. \A j \in a..b - 1 : old[j] # KeysHeader
    BY <1>1, LineFacts
  <2>. QED  BY <1>1, <1>6, <2>1, SpliceKeepsPair
<1>7. new \in Doc
  BY <1>1 DEF Splice
<1>. QED  BY <1>4, <1>5, <1>6, <1>7

\* The panel's line in the section of its header
PanelAt(doc, i, j) ==
  /\ i \in 1..Len(doc) /\ j \in i + 1..Len(doc)
  /\ doc[i] = Remote /\ doc[j] = PanelPro
  /\ \A k \in i + 1..j : doc[k] \in Indented \cup {Blank}

PanelIn(doc) == \E i, j \in 1..Len(doc) : PanelAt(doc, i, j)

\* upsertRemoteManagement without a section: it comes behind the last line.
LEMMA RemoteAppended ==
  ASSUME NEW doc \in Doc, NEW setAllow, NEW allow \in BOOLEAN,
         \E i \in 1..Len(doc) : doc[i] # Blank, IndexIn(doc, {Remote}) = 0
  PROVE  PanelSplice(doc, UpsertRemote(doc, setAllow, allow))
         /\ PanelIn(UpsertRemote(doc, setAllow, allow))
<1> DEFINE block == <<Remote, Allow(allow), PanelPro, Blank>>
           lines == {doc[i] : i \in DOMAIN doc} \ {Blank}
           kept == LastIn(doc, lines, 1, Len(doc))
           new == UpsertRemote(doc, setAllow, allow)
<1>1. Len(doc) \in Nat /\ DOMAIN doc = 1..Len(doc)
  BY DocIs
<1>a. Remote \in Line /\ Allow(allow) \in Line /\ PanelPro \in Line /\ Blank \in Line
  <2>1. Remote \in Line /\ PanelPro \in Line /\ Blank \in Line
    BY LineFacts
  <2>2. Allow(allow) \in Allows /\ Allows \subseteq Line
    BY LineFacts
  <2>. QED  BY <2>1, <2>2
<1>2. /\ block \in Doc /\ Len(block) = 4
      /\ block[1] = Remote /\ block[2] = Allow(allow) /\ block[3] = PanelPro /\ block[4] = Blank
  BY <1>a DEF Doc
<1>3. /\ kept \in 0..Len(doc)
      /\ kept = 0 => \A i \in 1..Len(doc) : i \in DOMAIN doc => doc[i] \notin lines
      /\ kept # 0 => \A i \in kept + 1..Len(doc) : i \in DOMAIN doc => doc[i] \notin lines
  BY <1>1, LastInIs
<1>4. \A i \in 1..Len(doc) : doc[i] # Blank => doc[i] \in lines
  BY <1>1
<1>5. kept # 0 /\ \A i \in kept + 1..Len(doc) : doc[i] = Blank
  <2> HIDE DEF kept, lines
  <2>1. PICK i \in 1..Len(doc) : doc[i] \in lines
    BY <1>4
  <2>2. kept # 0
    BY <1>1, <1>3, <2>1
  <2>3. ASSUME NEW k \in kept + 1..Len(doc) PROVE doc[k] = Blank
    <3>1. k \in 1..Len(doc)
      BY <1>3
    <3>. QED  BY <1>1, <1>3, <1>4, <2>2, <3>1
  <2>. QED  BY <2>2, <2>3
<1>6. new = Ending(doc, kept, block)
  BY <1>5 DEF UpsertRemote, TrimEnd, Ending, Joined
<1> HIDE DEF kept, new, block, lines
<1>7. block \in Doc /\ kept \in 0..Len(doc)
  BY <1>2, <1>3
<1>b. /\ Splice(doc, new, kept + 1, Len(doc) + 1, Len(block))
      /\ \A j \in 1..Len(block) : new[kept + j] = block[j]
  BY <1>6, <1>7, EndingIs
<1>8. /\ Splice(doc, new, kept + 1, Len(doc) + 1, 4)
      /\ \A j \in 1..4 : new[kept + j] = block[j]
  BY <1>2, <1>b
<1>9. /\ new[kept + 1] = Remote /\ new[kept + 2] = Allow(allow)
      /\ new[kept + 3] = PanelPro /\ new[kept + 4] = Blank
  BY <1>2, <1>8
<1>10. /\ Allow(allow) \in Indented /\ PanelPro \in Indented
       /\ {Remote, Allow(allow), PanelPro, Blank} \subseteq SectionLines
  <2>1. Allow(allow) \in Allows /\ PanelPro \in Panels /\ Panels \subseteq Indented /\ Allows \subseteq Indented
    BY LineFacts
  <2>. QED  BY <2>1 DEF SectionLines
<1>11. PanelSplice(doc, new)
  <2>1. ASSUME NEW j \in kept + 1..(kept + 1) + 4 - 1 PROVE new[j] \in SectionLines
    <3>1. j \in {kept + 1, kept + 2, kept + 3, kept + 4}
      BY <1>3
    <3>. QED  BY <1>9, <1>10, <3>1
  <2>2. \A j \in kept + 1..(Len(doc) + 1) - 1 : doc[j] \in Indented \cup {Blank}
    BY <1>1, <1>5
  <2>3. \A j \in kept + 1..Len(doc) + 1 : j <= Len(doc) => doc[j] # NewKey
    <3>1. NewKey # Blank
      BY LineFacts
    <3>. QED  BY <1>1, <1>3, <1>5, <3>1
  <2>4. kept + 1 \in 1..Len(doc) + 1 /\ Len(doc) + 1 \in Int /\ 4 \in Nat
    BY <1>1, <1>3
  <2>5. \A j \in kept + 1..Len(doc) + 1 :
          1 < j /\ j <= Len(doc) => ~(doc[j - 1] = KeysHeader /\ doc[j] = NewKey)
    BY <2>3
  <2>. QED  BY <1>8, <2>1, <2>2, <2>4, <2>5 DEF PanelSplice
<1>12. PanelIn(new)
  <2>1. Len(new) = Len(doc) - ((Len(doc) + 1) - (kept + 1)) + 4
    BY <1>8 DEF Splice
  <2>2. kept + 1 \in 1..Len(new) /\ kept + 3 \in 1..Len(new) /\ kept + 3 \in (kept + 1) + 1..Len(new)
    BY <1>1, <1>3, <2>1
  <2>3. ASSUME NEW k \in (kept + 1) + 1..kept + 3 PROVE new[k] \in Indented \cup {Blank}
    <3>1. k \in {kept + 2, kept + 3}
      BY <1>3
    <3>. QED  BY <1>9, <1>10, <3>1
  <2>. QED  BY <1>9, <2>2, <2>3 DEF PanelIn, PanelAt
<1>. QED  BY <1>11, <1>12 DEF new

\* The lines below a header of the panel's section, up to the end of it
Section(doc, start, end) ==
  /\ start \in 1..Len(doc) /\ end \in start + 1..Len(doc) + 1
  /\ doc[start] = Remote
  /\ \A k \in start + 1..end - 1 : doc[k] \in Indented \cup {Blank}

\* Whatever line of the section is replaced by one of its kind, ...
LEMMA LineReplaced ==
  ASSUME NEW doc \in Doc, NEW start, NEW end, Section(doc, start, end),
         NEW k \in start + 1..end - 1, NEW line \in Line, line \in Indented
  PROVE  /\ PanelSplice(doc, Replaced(doc, k, line))
         /\ Section(Replaced(doc, k, line), start, end)
         /\ Len(Replaced(doc, k, line)) = Len(doc) /\ Replaced(doc, k, line)[k] = line
<1> DEFINE new == Replaced(doc, k, line)
<1>1. /\ Len(doc) \in Nat /\ start \in 1..Len(doc) /\ end \in start + 1..Len(doc) + 1
      /\ doc[start] = Remote
      /\ \A m \in start + 1..end - 1 : doc[m] \in Indented \cup {Blank}
  BY DocIs DEF Section
<1>2. k \in 1..Len(doc)
  BY <1>1
<1>3. Splice(doc, new, k, k + 1, 1) /\ new[k] = line
  BY <1>2, ReplacedIs
<1> HIDE DEF new
<1>4. Len(new) = Len(doc) /\ \A m \in 1..Len(doc) : m # k => new[m] = doc[m]
  <2>1. /\ Len(new) = Len(doc) - ((k + 1) - k) + 1
        /\ \A m \in 1..k - 1 : new[m] = doc[m]
        /\ \A m \in k + 1..Len(doc) : new[m - ((k + 1) - k) + 1] = doc[m]
    BY <1>3 DEF Splice
  <2>2. ASSUME NEW m \in k + 1..Len(doc) PROVE new[m] = doc[m]
    <3>1. new[m - ((k + 1) - k) + 1] = doc[m]
      BY <2>1
    <3>2. m - ((k + 1) - k) + 1 = m
      BY <1>1, <1>2
    <3>. QED  BY <3>1, <3>2
  <2>3. Len(new) = Len(doc)
    BY <1>1, <1>2, <2>1
  <2>. QED  BY <1>1, <1>2, <2>1, <2>2, <2>3
<1>5. PanelSplice(doc, new)
  <2>1. k \in 1..Len(doc) + 1 /\ k + 1 \in Int /\ 1 \in Nat
    BY <1>2
  <2>2. \A m \in k..(k + 1) - 1 : doc[m] \in Indented \cup {Blank}
    BY <1>1
  <2>3. \A m \in k..k + 1 - 1 : new[m] \in SectionLines
    BY <1>2, <1>3 DEF SectionLines
  <2>4. doc[k - 1] # KeysHeader /\ doc[k] # KeysHeader
    <3>1. k - 1 = start \/ k - 1 \in start + 1..end - 1
      BY <1>1
    <3>. QED  BY <1>1, <3>1, LineFacts
  <2>5. \A m \in k..k + 1 : doc[m - 1] # KeysHeader
    <3>1. ASSUME NEW m \in k..k + 1 PROVE m - 1 = k - 1 \/ m - 1 = k
      BY <1>2
    <3>. QED  BY <2>4, <3>1
  <2>. QED  BY <1>3, <2>1, <2>2, <2>3, <2>5 DEF PanelSplice
<1>6. Section(new, start, end)
  <2>1. new[start] = Remote
    BY <1>1, <1>4
  <2>2. ASSUME NEW m \in start + 1..end - 1 PROVE new[m] \in Indented \cup {Blank}
    <3>1. m \in 1..Len(doc)
      BY <1>1
    <3>. QED  BY <1>1, <1>3, <1>4, <3>1
  <2>. QED  BY <1>1, <1>4, <2>1, <2>2 DEF Section
<1>. QED  BY <1>3, <1>4, <1>5, <1>6 DEF new

\* ... and wherever one is put into it, the section stays one.
LEMMA LinePut ==
  ASSUME NEW doc \in Doc, NEW start, NEW end, Section(doc, start, end),
         NEW k \in start + 1..end, NEW line \in Line, line \in Indented
  PROVE  /\ PanelSplice(doc, Cut(doc, k, k, <<line>>))
         /\ Section(Cut(doc, k, k, <<line>>), start, end + 1)
         /\ Len(Cut(doc, k, k, <<line>>)) = Len(doc) + 1 /\ Cut(doc, k, k, <<line>>)[k] = line
<1> DEFINE block == <<line>>
           new == Cut(doc, k, k, block)
<1>1. /\ Len(doc) \in Nat /\ start \in 1..Len(doc) /\ end \in start + 1..Len(doc) + 1
      /\ doc[start] = Remote
      /\ \A m \in start + 1..end - 1 : doc[m] \in Indented \cup {Blank}
  BY DocIs DEF Section
<1>2. k \in 1..Len(doc) + 1 /\ k \in k..Len(doc) + 1 /\ k \in Int
  BY <1>1
<1>3. block \in Doc /\ Len(block) = 1 /\ block[1] = line
  BY DEF Doc
<1>a. new = Cut(doc, k, k, block) /\ block \in Doc
  BY <1>3
<1> HIDE DEF block, new
<1>b. /\ Splice(doc, new, k, k, Len(block))
      /\ \A m \in 1..Len(block) : new[k - 1 + m] = block[m]
  BY <1>2, <1>a, CutIs
<1>c. k - 1 + 1 = k /\ new[k - 1 + 1] = line
  BY <1>2, <1>3, <1>b
<1>4. Splice(doc, new, k, k, 1) /\ new[k] = line
  BY <1>3, <1>b, <1>c
<1>5. /\ Len(new) = Len(doc) + 1
      /\ \A m \in 1..k - 1 : new[m] = doc[m]
      /\ \A m \in k..Len(doc) : new[m + 1] = doc[m]
  <2>1. /\ Len(new) = Len(doc) - (k - k) + 1
        /\ \A m \in 1..k - 1 : new[m] = doc[m]
        /\ \A m \in k..Len(doc) : new[m - (k - k) + 1] = doc[m]
    BY <1>4 DEF Splice
  <2>2. \A m \in k..Len(doc) : m - (k - k) + 1 = m + 1
    BY <1>2
  <2>3. \A m \in k..Len(doc) : new[m + 1] = doc[m]
    BY <2>1, <2>2
  <2>4. Len(doc) - (k - k) + 1 = Len(doc) + 1
    BY <1>1, <1>2
  <2>. QED  BY <2>1, <2>3, <2>4
<1>6. PanelSplice(doc, new)
  <2>1. \A m \in k..k - 1 : doc[m] \in Indented \cup {Blank}
    BY <1>2
  <2>2. \A m \in k..k + 1 - 1 : new[m] \in SectionLines
    BY <1>2, <1>4 DEF SectionLines
  <2>3. doc[k - 1] # KeysHeader
    <3>1. k - 1 = start \/ k - 1 \in start + 1..end - 1
      BY <1>1
    <3>. QED  BY <1>1, <3>1, LineFacts
  <2>4. \A m \in k..k : doc[m - 1] # KeysHeader
    <3>1. \A m \in k..k : m = k
      BY <1>2
    <3>. QED  BY <2>3, <3>1
  <2>5. 1 \in Nat
    OBVIOUS
  <2>. QED  BY <1>2, <1>4, <2>1, <2>2, <2>4, <2>5 DEF PanelSplice
<1>7. Section(new, start, end + 1)
  <2>1. new[start] = Remote /\ start \in 1..Len(new) /\ end + 1 \in start + 1..Len(new) + 1
    BY <1>1, <1>5
  <2>2. ASSUME NEW m \in start + 1..(end + 1) - 1 PROVE new[m] \in Indented \cup {Blank}
    <3>1. CASE m = k
      BY <1>4, <3>1
    <3>2. CASE m < k
      <4>1. m \in 1..k - 1 /\ m \in start + 1..end - 1
        BY <1>1, <3>2
      <4>. QED  BY <1>1, <1>5, <4>1
    <3>3. CASE m > k
      <4> DEFINE p == m - 1
      <4>1. p \in k..Len(doc) /\ p \in start + 1..end - 1 /\ m = p + 1
        BY <1>1, <3>3
      <4> HIDE DEF p
      <4>2. new[m] = doc[p]
        BY <1>5, <4>1
      <4>. QED  BY <1>1, <4>1, <4>2
    <3>. QED  BY <1>1, <3>1, <3>2, <3>3
  <2>. QED  BY <2>1, <2>2 DEF Section
<1>. QED  BY <1>4, <1>5, <1>6, <1>7 DEF new, block

LEMMA SectionHasPanel ==
  ASSUME NEW doc \in Doc, NEW start, NEW end, Section(doc, start, end),
         NEW j \in start + 1..end - 1, doc[j] = PanelPro
  PROVE  PanelIn(doc)
<1>1. /\ Len(doc) \in Nat /\ start \in 1..Len(doc) /\ end \in start + 1..Len(doc) + 1
      /\ doc[start] = Remote
      /\ \A m \in start + 1..end - 1 : doc[m] \in Indented \cup {Blank}
  BY DocIs DEF Section
<1>2. j \in start + 1..Len(doc) /\ j \in 1..Len(doc) /\ \A m \in start + 1..j : m \in start + 1..end - 1
  BY <1>1
<1>3. PanelAt(doc, start, j)
  BY <1>1, <1>2 DEF PanelAt
<1>. QED  BY <1>1, <1>2, <1>3 DEF PanelIn

\* What the edits of ensureConfig leave: the launcher's port and statistics in
\* force, the panel's line below its header, and the keys if there are any.
Managed(doc, keys) ==
  /\ doc \in Doc
  /\ FirstIs(doc, Ports, Port)
  /\ FirstIs(doc, Usages, Usage)
  /\ PanelIn(doc)
  /\ keys => PairIn(doc, KeysHeader, NewKey)

\* The panel's line is written where it was found before the other line was put,
\* which may be another line of the section by then: the section has one anyhow.
LEMMA RemoteManaged ==
  ASSUME NEW doc \in Doc, NEW keys, NEW setAllow \in BOOLEAN, NEW allow \in BOOLEAN,
         FirstIs(doc, Ports, Port), FirstIs(doc, Usages, Usage),
         keys => PairIn(doc, KeysHeader, NewKey)
  PROVE  Managed(UpsertRemote(doc, setAllow, allow), keys)
<1> DEFINE start == IndexIn(doc, {Remote})
           end == EndOf(doc, start, Indented \cup {Blank})
           allowAt == LastIn(doc, Allows, start + 1, end - 1)
           panelAt == LastIn(doc, Panels, start + 1, end - 1)
           allowed == IF ~setAllow THEN doc
                      ELSE IF allowAt > 0 THEN Replaced(doc, allowAt, Allow(allow))
                      ELSE Cut(doc, start + 1, start + 1, <<Allow(allow)>>)
           shift == Len(allowed) - Len(doc)
           new == UpsertRemote(doc, setAllow, allow)
<1>1. Len(doc) \in Nat
  BY DocIs
<1>2. start \in 0..Len(doc) /\ (start # 0 => doc[start] = Remote)
  <2>1. start \in 0..Len(doc) /\ (start # 0 => doc[start] \in {Remote})
    BY IndexInIs
  <2>. QED  BY <2>1
<1>3. CASE start = 0
  <2>1. PICK i \in 1..Len(doc) : doc[i] = Port
    BY DEF FirstIs
  <2>2. Port # Blank
    BY LineFacts
  <2>3. PanelSplice(doc, new) /\ PanelIn(new)
    BY <1>3, <2>1, <2>2, RemoteAppended
  <2> HIDE DEF new
  <2>4. Managed(new, keys)
    BY <2>3, PanelSpliceKeeps DEF Managed
  <2>. QED  BY <2>4 DEF new
<1>4. CASE start # 0
  <2>1. start \in 1..Len(doc) /\ doc[start] = Remote
    BY <1>1, <1>2, <1>4
  <2>2. new = IF panelAt > 0 THEN Replaced(allowed, panelAt, PanelPro)
              ELSE Cut(allowed, end + shift, end + shift, <<PanelPro>>)
    BY <1>4 DEF UpsertRemote, Replaced, Cut, Joined, InsertAt
  <2>3. Section(doc, start, end)
    <3> HIDE DEF start
    <3>1. start \in 0..Len(doc)
      BY <1>2
    <3>. QED  BY <2>1, <3>1, EndOfIs DEF Section
  <2>4. end \in Int /\ start + 1 \in Nat /\ end - 1 \in Nat
    <3> HIDE DEF start, end
    <3>. QED  BY <1>1, <2>1, <2>3 DEF Section
  <2>5. /\ allowAt > 0 => allowAt \in start + 1..end - 1
        /\ panelAt \in 0..Len(doc) /\ (panelAt > 0 => panelAt \in start + 1..end - 1)
    <3> HIDE DEF start, end
    <3>1. /\ allowAt \in 0..Len(doc) /\ (allowAt # 0 => allowAt \in start + 1..end - 1)
          /\ panelAt \in 0..Len(doc) /\ (panelAt # 0 => panelAt \in start + 1..end - 1)
      BY <2>4, LastInIs
    <3>. QED  BY <1>1, <3>1
  <2>6. /\ Allow(allow) \in Line /\ Allow(allow) \in Indented
        /\ PanelPro \in Line /\ PanelPro \in Indented
    <3>1. Allow(allow) \in Allows
      BY LineFacts
    <3>. QED  BY <3>1, LineFacts
  <2> HIDE DEF start, end, allowAt, panelAt, new
  <2>7. /\ allowed \in Doc /\ FirstIs(allowed, Ports, Port) /\ FirstIs(allowed, Usages, Usage)
        /\ keys => PairIn(allowed, KeysHeader, NewKey)
        /\ Section(allowed, start, end + shift) /\ shift \in {0, 1}
    <3>1. CASE ~setAllow
      <4>1. allowed = doc
        BY <3>1
      <4> HIDE DEF allowed
      <4>2. shift = 0 /\ end + shift = end
        BY <1>1, <2>4, <4>1
      <4>. QED  BY <2>3, <4>1, <4>2
    <3>2. CASE setAllow /\ allowAt > 0
      <4>1. allowed = Replaced(doc, allowAt, Allow(allow))
        BY <3>2
      <4> HIDE DEF allowed
      <4>2. PanelSplice(doc, allowed) /\ Section(allowed, start, end) /\ Len(allowed) = Len(doc)
        BY <2>3, <2>5, <2>6, <3>2, <4>1, LineReplaced
      <4>3. shift = 0 /\ end + shift = end
        BY <1>1, <2>4, <4>2
      <4>. QED  BY <4>2, <4>3, PanelSpliceKeeps
    <3>3. CASE setAllow /\ ~(allowAt > 0)
      <4>1. allowed = Cut(doc, start + 1, start + 1, <<Allow(allow)>>)
        BY <3>3
      <4>2. start + 1 \in start + 1..end
        BY <1>1, <2>3 DEF Section
      <4> HIDE DEF allowed
      <4>3. PanelSplice(doc, allowed) /\ Section(allowed, start, end + 1) /\ Len(allowed) = Len(doc) + 1
        BY <2>3, <2>6, <4>1, <4>2, LinePut
      <4>4. shift = 1
        BY <1>1, <4>3
      <4>. QED  BY <4>3, <4>4, PanelSpliceKeeps
    <3>. QED  BY <3>1, <3>2, <3>3
  <2> HIDE DEF allowed, shift
  <2>8. PanelSplice(allowed, new) /\ PanelIn(new)
    <3>1. CASE panelAt > 0
      <4>1. panelAt \in start + 1..(end + shift) - 1
        BY <2>4, <2>5, <2>7, <3>1
      <4>2. new = Replaced(allowed, panelAt, PanelPro)
        BY <2>2, <3>1
      <4>3. PanelSplice(allowed, new) /\ Section(new, start, end + shift) /\ new[panelAt] = PanelPro
        BY <2>6, <2>7, <4>1, <4>2, LineReplaced
      <4>4. new \in Doc
        BY <4>3 DEF PanelSplice, Splice
      <4>. QED  BY <4>1, <4>3, <4>4, SectionHasPanel
    <3>2. CASE ~(panelAt > 0)
      <4> DEFINE k == end + shift
      <4>1. k \in start + 1..k /\ k \in start + 1..(k + 1) - 1
        BY <1>1, <2>1, <2>4, <2>7 DEF Section
      <4>2. new = Cut(allowed, k, k, <<PanelPro>>) /\ Section(allowed, start, k)
        BY <2>2, <2>7, <3>2
      <4> HIDE DEF k
      <4>3. PanelSplice(allowed, new) /\ Section(new, start, k + 1) /\ new[k] = PanelPro
        BY <2>6, <2>7, <4>1, <4>2, LinePut
      <4>4. new \in Doc
        BY <4>3 DEF PanelSplice, Splice
      <4>. QED  BY <4>1, <4>3, <4>4, SectionHasPanel
    <3>. QED  BY <3>1, <3>2
  <2>9. Managed(new, keys)
    BY <2>7, <2>8, PanelSpliceKeeps DEF Managed
  <2>. QED  BY <2>9 DEF new
<1>. QED  BY <1>3, <1>4

\* Whatever file it starts from, ensureConfig leaves a managed one.
LEMMA EditedManaged ==
  ASSUME NEW doc \in Doc, NEW e \in AnyEnv
  PROVE  Managed(Edited(doc, e), e.keys)
<1> DEFINE ported == UpsertScalar(doc, Ports, Port)
           authed == IF IndexIn(ported, {AuthDir}) > 0 THEN ported
                     ELSE UpsertScalar(ported, {AuthDir}, AuthDir)
           counted == UpsertScalar(authed, Usages, Usage)
           keyed == IF e.keys THEN UpsertKeys(counted) ELSE counted
           remote == UpsertRemote(keyed, e.allow = "on", AllowRemote(e))
           new == Edited(doc, e)
<1>1. /\ Port \in Line /\ AuthDir \in Line /\ Usage \in Line /\ Blank \in Line
      /\ Port \in Ports /\ Usage \in Usages
      /\ \A l \in {AuthDir} : l \notin Ports
      /\ \A l \in Usages : l \notin Ports
  BY LineFacts
<1>2. e.keys \in BOOLEAN /\ (e.allow = "on") \in BOOLEAN /\ AllowRemote(e) \in BOOLEAN
  BY DEF AllowRemote, AnyEnv
<1>3. new = IF EndsWithNewline(remote) THEN remote ELSE Append(remote, Blank)
  BY DEF Edited
<1> HIDE DEF new
<1>4. ported \in Doc /\ FirstIs(ported, Ports, Port)
  BY <1>1, UpsertScalarFirst
<1> HIDE DEF ported
<1>5. authed \in Doc /\ FirstIs(authed, Ports, Port)
  <2>1. CASE IndexIn(ported, {AuthDir}) > 0
    BY <1>4, <2>1
  <2>2. CASE ~(IndexIn(ported, {AuthDir}) > 0)
    <3>1. authed = UpsertScalar(ported, {AuthDir}, AuthDir) /\ AuthDir \in {AuthDir}
      BY <2>2
    <3> HIDE DEF authed
    <3>2. authed \in Doc
      BY <1>1, <1>4, <3>1, UpsertScalarFirst
    <3>3. FirstIs(authed, Ports, Port)
      BY <1>1, <1>4, <3>1, UpsertScalarKeeps
    <3>. QED  BY <3>2, <3>3
  <2>. QED  BY <2>1, <2>2
<1> HIDE DEF authed
<1>6. counted \in Doc /\ FirstIs(counted, Usages, Usage)
  BY <1>1, <1>5, UpsertScalarFirst
<1>7. FirstIs(counted, Ports, Port)
  BY <1>1, <1>5, UpsertScalarKeeps
<1> HIDE DEF counted
<1>8. counted # <<>>
  <2>1. PICK i \in 1..Len(counted) : counted[i] = Port
    BY <1>7 DEF FirstIs
  <2>. QED  BY <2>1
<1>9. /\ keyed \in Doc /\ FirstIs(keyed, Ports, Port) /\ FirstIs(keyed, Usages, Usage)
      /\ e.keys => PairIn(keyed, KeysHeader, NewKey)
  <2>1. CASE e.keys
    BY <1>6, <1>7, <1>8, <2>1, UpsertKeysKeeps
  <2>2. CASE ~e.keys
    BY <1>6, <1>7, <2>2
  <2>. QED  BY <2>1, <2>2
<1> HIDE DEF keyed
<1>10. Managed(remote, e.keys)
  BY <1>2, <1>9, RemoteManaged
<1> HIDE DEF remote
<1>11. CASE EndsWithNewline(remote)
  BY <1>3, <1>10, <1>11 DEF new
<1>12. CASE ~EndsWithNewline(remote)
  <2>1. remote \in Doc /\ new = Append(remote, Blank)
    BY <1>3, <1>10, <1>12 DEF Managed
  <2>2. Len(remote) \in Nat
    BY <2>1, DocIs
  <2>3. /\ new \in Doc /\ Len(new) = Len(remote) + 1
        /\ \A i \in 1..Len(remote) : new[i] = remote[i]
        /\ new[Len(remote) + 1] = Blank
    BY <1>1, <2>1, AppendProperties DEF Doc
  <2>4. Splice(remote, new, Len(remote) + 1, Len(remote) + 1, 1)
    BY <2>2, <2>3 DEF Splice
  <2>5. PanelSplice(remote, new)
    <3>1. Len(remote) + 1 \in 1..Len(remote) + 1 /\ Len(remote) + 1 \in Int /\ 1 \in Nat
      BY <2>2
    <3>2. \A j \in Len(remote) + 1..(Len(remote) + 1) - 1 : remote[j] \in Indented \cup {Blank}
      BY <2>2
    <3>3. \A j \in Len(remote) + 1..Len(remote) + 1 + 1 - 1 : new[j] \in SectionLines
      BY <2>2, <2>3 DEF SectionLines
    <3>4. \A j \in Len(remote) + 1..Len(remote) + 1 : ~(j <= Len(remote))
      BY <2>2
    <3>. QED  BY <2>4, <3>1, <3>2, <3>3, <3>4 DEF PanelSplice
  <2>6. /\ FirstIs(new, Ports, Port) /\ FirstIs(new, Usages, Usage)
        /\ e.keys => PairIn(new, KeysHeader, NewKey)
    BY <1>10, <2>1, <2>5, PanelSpliceKeeps DEF Managed
  <2>7. PanelIn(new)
    <3>1. PICK i, j \in 1..Len(remote) : PanelAt(remote, i, j)
      BY <1>10 DEF Managed, PanelIn
    <3>2. PanelAt(new, i, j)
      BY <2>2, <2>3, <3>1 DEF PanelAt
    <3>3. i \in 1..Len(new) /\ j \in 1..Len(new)
      BY <2>2, <2>3
    <3>. QED  BY <3>2, <3>3 DEF PanelIn
  <2>. QED  BY <2>3, <2>6, <2>7 DEF Managed, new
<1>. QED  BY <1>11, <1>12

LEMMA GeneratedDoc ==
  ASSUME NEW e \in AnyEnv
  PROVE  Generated(e.keys, AllowRemote(e)) \in Doc
<1> DEFINE top == <<Port, AuthDir>>
           keys == IF e.keys THEN <<KeysHeader, NewKey>> ELSE <<"api-keys: []">>
           rest == <<Remote, Allow(AllowRemote(e)), PanelPro, Usage, Blank>>
<1>1. Port \in Line /\ AuthDir \in Line /\ KeysHeader \in Line /\ NewKey \in Line /\ Remote \in Line
      /\ PanelPro \in Line /\ Usage \in Line /\ Blank \in Line /\ "api-keys: []" \in Line
  BY LineFacts
<1>2. Allow(AllowRemote(e)) \in Line
  <2>1. AllowRemote(e) \in BOOLEAN
    BY DEF AllowRemote
  <2>2. Allow(AllowRemote(e)) \in Allows
    BY <2>1, LineFacts
  <2>. QED  BY <2>2, LineFacts
<1>3. top \in Doc
  <2>1. Port \in Line /\ AuthDir \in Line
    BY <1>1
  <2>. QED  BY <2>1 DEF Doc
<1>4. keys \in Doc
  <2>1. KeysHeader \in Line /\ NewKey \in Line
    BY <1>1
  <2>2. <<KeysHeader, NewKey>> \in Doc
    BY <2>1 DEF Doc
  <2>3. ASSUME NEW line \in Line PROVE <<line>> \in Doc
    BY DEF Doc
  <2>4. <<"api-keys: []">> \in Doc
    BY <1>1, <2>3
  <2>. QED  BY <2>2, <2>4
<1>5. rest \in Doc
  <2>1. Remote \in Line /\ PanelPro \in Line /\ Usage \in Line /\ Blank \in Line
    BY <1>1
  <2>. QED  BY <1>2, <2>1 DEF Doc
<1>6. Generated(e.keys, AllowRemote(e)) = Joined(Joined(top, keys), rest)
  BY DEF Generated, Joined
<1> HIDE DEF top, keys, rest
<1>7. Joined(top, keys) \in Doc
  BY <1>3, <1>4, JoinIs
<1>. QED  BY <1>5, <1>6, <1>7, JoinIs

(* --------------------------- the managed settings ---------------------- *)

\* Past the configuration a managed file lies on disk, and the ports were found
\* to differ; before it any file may: an old one, a torn one or none.
ConfigInv ==
  /\ env \in AnyEnv
  /\ config \in Doc
  /\ pc # "stopped" => ~PortsClash(env)
  /\ env.store = "file" /\ pc \notin {"stopped", "config"} => Managed(config, env.keys)

LEMMA InitConfig == LauncherInit => ConfigInv
<1>. SUFFICES ASSUME LauncherInit PROVE ConfigInv
  OBVIOUS
<1>1. env \in AnyEnv /\ pc = "stopped"
  BY EnvAssumption DEF LauncherInit
<1>2. config \in Docs \cup {<<>>}
  BY DEF LauncherInit
<1>3. config \in Seq(STRING)
  BY <1>2, DocAssumption, EmptySeq
<1>4. config \in Doc
  <2>1. STRING \subseteq Line
    BY DEF Line
  <2>. QED  BY <1>3, <2>1, SeqMonotonic DEF Doc
<1>. QED  BY <1>1, <1>4 DEF ConfigInv

LEMMA NewConfigManaged ==
  ASSUME env \in AnyEnv, config \in Doc
  PROVE  Managed(NewConfig, env.keys)
<1>1. env.given \in Docs \cup {<<>>}
  BY DEF AnyEnv
<1>2. env.given \in Doc
  <2>1. env.given \in Seq(STRING)
    BY <1>1, DocAssumption, EmptySeq
  <2>2. STRING \subseteq Line
    BY DEF Line
  <2>. QED  BY <2>1, <2>2, SeqMonotonic DEF Doc
<1>3. Source(config) \in Doc
  BY <1>2, GeneratedDoc DEF Source
<1>. QED  BY <1>3, EditedManaged DEF NewConfig

LEMMA StepConfig == ConfigInv /\ [LauncherNext]_launcherVars => ConfigInv'
<1>. SUFFICES ASSUME ConfigInv, [LauncherNext]_launcherVars PROVE ConfigInv'
  OBVIOUS
<1>1. ASSUME UNCHANGED <<env, config>>, pc' = "stopped" \/ pc \notin {"stopped", "config"}
      PROVE  ConfigInv'
  BY <1>1 DEF ConfigInv, PortsClash, RuntimePorts, DefaultInternal
<1>2. CASE UNCHANGED <<env, config, pc>>
  BY <1>2 DEF ConfigInv, PortsClash, RuntimePorts, DefaultInternal
<1>3. CASE Boot
  <2>1. PICK f \in BOOLEAN : env' = [env EXCEPT !.force = f]
    BY <1>3 DEF Boot
  <2>2. env' \in AnyEnv /\ env'.store = env.store /\ env'.keys = env.keys /\ env'.route = env.route
        /\ env'.public = env.public /\ env'.internal = env.internal
    BY <2>1 DEF ConfigInv, AnyEnv
  <2>3. PortsClash(env') = PortsClash(env)
    BY <2>2 DEF PortsClash, RuntimePorts, DefaultInternal
  <2>4. pc' = (IF PortsClash(env) THEN "stopped" ELSE IF env.store = "git" THEN "prepared" ELSE "config")
        /\ config' = config
    BY <1>3 DEF Boot, files
  <2>. QED  BY <2>2, <2>3, <2>4 DEF ConfigInv, PortsClash
<1>4. CASE WriteConfig
  <2>1. /\ pc = "config" /\ config' = NewConfig /\ env' = env
    BY <1>4 DEF WriteConfig
  <2>2. Managed(NewConfig, env.keys)
    BY NewConfigManaged DEF ConfigInv
  <2>3. ~PortsClash(env')
    BY <2>1 DEF ConfigInv
  <2>. QED  BY <2>1, <2>2, <2>3 DEF ConfigInv, Managed
<1>5. CASE CrashInConfig
  <2>1. PICK n \in 0..Len(NewConfig) - 1 : config' = IF n = 0 THEN <<Blank>> ELSE SubSeq(NewConfig, 1, n)
    BY <1>5 DEF CrashInConfig
  <2>2. pc' = "stopped" /\ env' = env
    BY <1>5 DEF CrashInConfig, Exit
  <2>3. NewConfig \in Doc
    BY NewConfigManaged DEF ConfigInv, Managed
  <2>4. config' \in Doc
    <3>1. CASE n = 0
      <4>1. Blank \in Line
        BY LineFacts
      <4>2. <<Blank>> \in Doc
        BY <4>1 DEF Doc
      <4>. QED  BY <2>1, <3>1, <4>2
    <3>2. CASE n # 0
      <4>1. n \in 0..Len(NewConfig) /\ 1 \in 1..Len(NewConfig) + 1 /\ n \in 1 - 1..Len(NewConfig)
        BY <2>3, DocIs
      <4>2. SubSeq(NewConfig, 1, n) \in Doc
        BY <2>3, <4>1, SliceIs
      <4>. QED  BY <2>1, <3>2, <4>2
    <3>. QED  BY <3>1, <3>2
  <2>. QED  BY <2>2, <2>4 DEF ConfigInv
<1>6. CASE Prepared \/ ReadGit \/ CommitKeys \/ CheckInstalled \/ Download \/ Copied
            \/ TemplateWritten \/ StartBinary
  BY <1>1, <1>6 DEF Prepared, ReadGit, CommitKeys, CheckInstalled, Download, Copied,
                    TemplateWritten, StartBinary, files
<1>7. CASE CommitConflicts \/ TemplateMissing \/ LauncherCrash \/ ChildExitSeen
  BY <1>1, <1>7 DEF CommitConflicts, TemplateMissing, LauncherCrash, ChildExitSeen, Exit, files
<1>8. CASE OtherCommits \/ ChildExits \/ Receive \/ LookupAnswered \/ ProxyHead \/ ProxyEnds
            \/ UNCHANGED launcherVars
  BY <1>2, <1>8 DEF OtherCommits, ChildExits, Receive, LookupAnswered, ProxyHead, ProxyEnds,
                    launcherVars, files
<1>. QED  BY <1>3, <1>4, <1>5, <1>6, <1>7, <1>8 DEF LauncherNext

\* The running application finds the ports apart and a managed file.
LEMMA ManagedServes ==
  ASSUME ConfigInv, InstallInv
  PROVE  ManagedSettings
<1>. SUFFICES ASSUME child = "up" PROVE ManagedSettings
  BY DEF ManagedSettings
<1>1. pc = "serving" /\ env \in AnyEnv /\ ~PortsClash(env) /\ config \in Doc
  BY DEF InstallInv, ConfigInv
<1>2. RuntimePorts(env).app \in 1..MaxPort
  BY <1>1, PortAssumption DEF AnyEnv, RuntimePorts, DefaultInternal
<1>3. env.route # "off" => RuntimePorts(env).app # env.public
  BY <1>1 DEF PortsClash
<1>4. ASSUME env.store = "file"
      PROVE  /\ Cardinality({i \in DOMAIN config : config[i] \in Ports}) > 0
             /\ config[IndexIn(config, Ports)] = Port
             /\ config[IndexIn(config, Usages)] = Usage
             /\ \E i, j \in DOMAIN config :
                  i < j /\ config[i] = Remote /\ config[j] = PanelPro /\ j < EndOf(config, i, Indented \cup {Blank})
             /\ env.keys => \E i \in 1..Len(config) - 1 :
                              config[i] = KeysHeader /\ config[i + 1] = NewKey
  <2>1. /\ FirstIs(config, Ports, Port) /\ FirstIs(config, Usages, Usage) /\ PanelIn(config)
        /\ env.keys => PairIn(config, KeysHeader, NewKey)
    BY <1>1, <1>4 DEF ConfigInv, Managed
  <2>2. Len(config) \in Nat /\ DOMAIN config = 1..Len(config)
    BY <1>1, DocIs
  <2>3. config[IndexIn(config, Ports)] = Port /\ config[IndexIn(config, Usages)] = Usage
    BY <1>1, <2>1, FirstByIndex
  <2>4. Cardinality({i \in DOMAIN config : config[i] \in Ports}) > 0
    <3> DEFINE I == {i \in DOMAIN config : config[i] \in Ports}
    <3>1. I \in SUBSET (1..Len(config))
      BY <2>2
    <3>2. IsFiniteSet(1..Len(config))
      BY <2>2, FS_Interval
    <3>3. IsFiniteSet(I)
      BY <3>1, <3>2, FS_Subset
    <3>4. I # {}
      BY <2>1, <2>2 DEF FirstIs
    <3> HIDE DEF I
    <3>5. Cardinality(I) \in Nat /\ Cardinality(I) # 0
      BY <3>3, <3>4, FS_CardinalityType, FS_EmptySet
    <3>6. Cardinality(I) > 0
      BY <3>5
    <3>. QED  BY <3>6 DEF I
  <2>5. \E i, j \in DOMAIN config :
          i < j /\ config[i] = Remote /\ config[j] = PanelPro /\ j < EndOf(config, i, Indented \cup {Blank})
    <3>1. PICK i, j \in 1..Len(config) : PanelAt(config, i, j)
      BY <2>1 DEF PanelIn
    <3> DEFINE end == EndOf(config, i, Indented \cup {Blank})
    <3>2. /\ j \in i + 1..Len(config) /\ config[i] = Remote /\ config[j] = PanelPro
          /\ \A k \in i + 1..j : config[k] \in Indented \cup {Blank}
      BY <3>1 DEF PanelAt
    <3>3. i \in 0..Len(config)
      BY <2>2
    <3>4. /\ end \in i + 1..Len(config) + 1
          /\ end <= Len(config) => config[end] \notin Indented \cup {Blank}
      BY <1>1, <3>3, EndOfIs
    <3> HIDE DEF end
    <3>5. i < j /\ j < end
      BY <2>2, <3>2, <3>4
    <3>. QED  BY <2>2, <3>2, <3>5 DEF end
  <2>. QED  BY <2>1, <2>3, <2>4, <2>5 DEF PairIn
<1>. QED  BY <1>2, <1>3, <1>4 DEF ManagedSettings

\* The running application finds the settings the launcher manages in force,
\* whatever file it found and wherever an earlier boot died (ensureConfig,
\* runtimePorts).
THEOREM SettingsManaged == LauncherSpec => []ManagedSettings
<1>. QED  BY InitConfig, StepConfig, InitInstall, StepInstall, ManagedServes, PTL DEF LauncherSpec
=============================================================================
