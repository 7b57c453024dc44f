-------------------------- MODULE InspectionSchedule --------------------------
(***************************************************************************)
(* The backend inspection schedule: its copy in memory, its copy in a      *)
(* file, the loop that starts due runs, and the runs themselves as         *)
(* RunLifecycle promises them. Clients replace the schedule, imports       *)
(* restore it, a scheduled run re-arms it when it ends, a save may fail,   *)
(* and the process may crash between any two steps, also while it writes.  *)
(*                                                                         *)
(* Time is abstracted to whether an armed time has come: Tick lets the     *)
(* interval pass for every time armed so far. Settings are left out.       *)
(***************************************************************************)
EXTENDS RunLifecycle, Integers

CONSTANT MaxSpawned   \* bound: startRun goroutines the loop has spawned and that wait

ASSUME SpawnAssumption == MaxSpawned \in Nat \ {0}

VARIABLES
  up,        \* the process runs
  schedule,  \* s.schedule
  file,      \* what the schedule file says, when it parses
  parses,    \* the schedule file: absent, torn (not valid JSON) or whole
  saving,    \* saveLocked in progress: none, at the truncation, at the write
  saver,     \* who saves: update or the end of a scheduled run
  trigger,   \* s.trigger holds a token
  loop,      \* where loop() is
  spawned,   \* startRun(false) goroutines that wait for the mutex
  manual,    \* the run was started by hand
  seen,      \* nextRunAt in the copy of the schedule a client holds
  acked,     \* history: what the last acknowledged update said, on or off, or unknown
  torn       \* history: a crash or an error struck between truncation and write

runs == <<state, context, asked, fate, manual>>
vars == <<state, context, asked, fate, up, schedule, file, parses, saving, saver, trigger,
          loop, spawned, manual, seen, acked, torn>>

NextRun  == {"off", "future", "due"}
Schedule == [enabled : BOOLEAN, next : NextRun]
Default  == [enabled |-> FALSE, next |-> "off"]
Said(enabled) == IF enabled THEN "on" ELSE "off"

\* Mutant of Normalize: an enabled schedule without a next run is left so.
Normalize_NoArm(s) ==
  [enabled |-> s.enabled, next |-> IF s.enabled THEN s.next ELSE "off"]

\* normalizeAccountInspectionSchedule, of the two fields kept here.
Normalize(s) ==
  [enabled |-> s.enabled,
   next    |-> IF ~s.enabled THEN "off" ELSE IF s.next = "off" THEN "future" ELSE s.next]

MutexFree == up /\ saving = "none"

Init ==
  /\ LifecycleInit
  /\ up = TRUE /\ schedule = Default /\ file = Default /\ parses = "absent"
  /\ saving = "none" /\ saver = "update"
  /\ trigger = FALSE /\ loop = "check" /\ spawned = 0 /\ manual = FALSE
  /\ seen = "off" /\ acked = "unknown" /\ torn = FALSE

-----------------------------------------------------------------------------
(* Replacing and saving the schedule.                                      *)

\* Mutant of Update: acknowledged before the save has returned.
Update_AckFirst(input) ==
  /\ MutexFree
  /\ schedule' = IF input.enabled /\ schedule.next # "off" /\ input.next = "off"
                 THEN [enabled |-> TRUE, next |-> schedule.next]
                 ELSE Normalize(input)
  /\ saving' = "truncate" /\ saver' = "update"
  /\ acked' = Said(input.enabled)
  /\ UNCHANGED <<runs, up, file, parses, trigger, loop, spawned, seen, torn>>

\* update: a request without a time keeps the time already armed.
Update(input) ==
  /\ MutexFree
  /\ schedule' = IF input.enabled /\ schedule.next # "off" /\ input.next = "off"
                 THEN [enabled |-> TRUE, next |-> schedule.next]
                 ELSE Normalize(input)
  /\ saving' = "truncate" /\ saver' = "update"
  /\ acked' = "unknown"
  /\ UNCHANGED <<runs, up, file, parses, trigger, loop, spawned, seen, torn>>

\* The settings dialog sends back the next run it has last seen.
ClientUpdate(enabled) == Update([enabled |-> enabled, next |-> IF enabled THEN seen ELSE "off"])

\* importSchedule clears NextRunAt.
ImportSchedule(enabled) == Update([enabled |-> enabled, next |-> "off"])

\* os.WriteFile opens with O_TRUNC, then writes.
Truncate ==
  /\ up /\ saving = "truncate"
  /\ saving' = "write" /\ file' = Default /\ parses' = "torn"
  /\ UNCHANGED <<runs, up, schedule, saver, trigger, loop, spawned, seen, acked, torn>>

\* The write returns: update sends a trigger and answers.
Saved ==
  /\ up /\ saving = "write"
  /\ saving' = "none" /\ file' = schedule /\ parses' = "whole"
  /\ IF saver = "update" THEN trigger' = TRUE /\ acked' = Said(schedule.enabled)
                         ELSE UNCHANGED <<trigger, acked>>
  /\ UNCHANGED <<runs, up, schedule, saver, loop, spawned, seen, torn>>

\* MkdirAll, open or write fails: update reports it, a finished run logs it,
\* and the schedule in memory stays replaced.
SaveFails ==
  /\ up /\ saving # "none"
  /\ saving' = "none"
  /\ torn' = (torn \/ saving = "write")
  /\ acked' = IF saver = "update" THEN "unknown" ELSE acked
  /\ UNCHANGED <<runs, up, schedule, file, parses, saver, trigger, loop, spawned, seen>>

\* A client fetches the schedule, or a status message brings it.
ClientLooks ==
  /\ MutexFree
  /\ seen' = schedule.next
  /\ UNCHANGED <<runs, up, schedule, file, parses, saving, saver, trigger, loop, spawned, acked, torn>>

-----------------------------------------------------------------------------
(* The loop and the runs.                                                  *)

\* maybeRunDue: it looks under the mutex, and starts the run without it.
MaybeRunDue ==
  /\ loop = "check" /\ MutexFree
  /\ loop' = "wait"
  /\ IF schedule.enabled /\ ~Active /\ schedule.next = "due"
     THEN spawned < MaxSpawned /\ spawned' = spawned + 1
     ELSE UNCHANGED spawned
  /\ UNCHANGED <<runs, up, schedule, file, parses, saving, saver, trigger, seen, acked, torn>>

\* The 30-second ticker, or the trigger.
Wake ==
  /\ loop = "wait" /\ up
  /\ loop' = "check"
  /\ trigger' \in {trigger, FALSE}
  /\ UNCHANGED <<runs, up, schedule, file, parses, saving, saver, spawned, seen, acked, torn>>

\* startRun(false): rejected when a run is active. The schedule is not looked at again.
ScheduledStart ==
  /\ spawned > 0 /\ MutexFree
  /\ spawned' = spawned - 1
  /\ \/ Active /\ UNCHANGED runs
     \/ Start /\ manual' = FALSE
  /\ UNCHANGED <<up, schedule, file, parses, saving, saver, trigger, loop, seen, acked, torn>>

ManualStart ==
  /\ MutexFree
  /\ Start /\ manual' = TRUE
  /\ UNCHANGED <<up, schedule, file, parses, saving, saver, trigger, loop, spawned, seen, acked, torn>>

Control ==
  /\ MutexFree
  /\ Pause \/ Resume \/ Stop
  /\ UNCHANGED <<up, schedule, file, parses, saving, saver, trigger, loop, spawned, manual,
                 seen, acked, torn>>

RunSteps ==
  /\ up
  /\ EndContext \/ Decide
  /\ UNCHANGED <<up, schedule, file, parses, saving, saver, trigger, loop, spawned, manual,
                 seen, acked, torn>>

\* Mutant of EndRun: whether the schedule is still enabled is not looked at.
EndRun_RearmsAlways ==
  /\ MutexFree
  /\ End
  /\ IF ~manual
     THEN schedule' = [schedule EXCEPT !.next = "future"] /\ saving' = "truncate" /\ saver' = "rearm"
     ELSE UNCHANGED <<schedule, saving, saver>>
  /\ UNCHANGED <<up, file, parses, trigger, loop, spawned, manual, seen, acked, torn>>

\* The last critical section of run() re-arms the schedule as it is by then.
EndRun ==
  /\ MutexFree
  /\ End
  /\ IF schedule.enabled /\ ~manual
     THEN schedule' = [schedule EXCEPT !.next = "future"] /\ saving' = "truncate" /\ saver' = "rearm"
     ELSE UNCHANGED <<schedule, saving, saver>>
  /\ UNCHANGED <<up, file, parses, trigger, loop, spawned, manual, seen, acked, torn>>

-----------------------------------------------------------------------------
(* Time, crashes and restarts.                                             *)

Ripen(s) == IF s.next = "future" THEN [s EXCEPT !.next = "due"] ELSE s

Tick ==
  /\ schedule' = Ripen(schedule)
  /\ file' = Ripen(file)
  /\ seen' = IF seen = "future" THEN "due" ELSE seen
  /\ UNCHANGED <<runs, up, parses, saving, saver, trigger, loop, spawned, acked, torn>>

Crash ==
  /\ up
  /\ up' = FALSE
  /\ torn' = (torn \/ saving = "write")
  /\ saving' = "none" /\ trigger' = FALSE /\ spawned' = 0 /\ loop' = "check"
  /\ state' = "idle" /\ context' = "none" /\ asked' = FALSE /\ fate' = "none"
  /\ manual' = FALSE /\ schedule' = Default
  /\ UNCHANGED <<file, parses, saver, seen, acked>>

\* load: a file that is missing or does not parse leaves the defaults.
Restart ==
  /\ ~up
  /\ up' = TRUE
  /\ schedule' = IF parses = "whole" THEN Normalize(file) ELSE Default
  /\ UNCHANGED <<runs, file, parses, saving, saver, trigger, loop, spawned, seen, acked, torn>>

Requests == (\E e \in BOOLEAN : ClientUpdate(e) \/ ImportSchedule(e))
            \/ ClientLooks \/ ManualStart \/ Control
Save == Truncate \/ Saved \/ SaveFails

Next == Requests \/ Save \/ MaybeRunDue \/ Wake \/ ScheduledStart \/ RunSteps
        \/ EndRun \/ Tick \/ Crash \/ Restart

Spec == Init /\ [][Next]_vars

(***************************************************************************)
(* Goroutines that can run do run, and the mutex, whose waiters a Go       *)
(* runtime serves first once they starve, is granted to each of them.      *)
(* Time passes, and a run ends by itself or by its deadline.               *)
(***************************************************************************)
Fairness ==
  /\ WF_vars(Save) /\ WF_vars(Wake) /\ WF_vars(RunSteps) /\ WF_vars(Tick)
  /\ SF_vars(MaybeRunDue) /\ SF_vars(ScheduledStart) /\ SF_vars(EndRun)

FairSpec == Spec /\ Fairness

-----------------------------------------------------------------------------
(* Properties.                                                             *)

\* The type invariant of the schedule and of the run it starts.
TypeOK ==
  /\ state \in {"idle", "running", "paused", "stopping",
                "stopped", "completed", "partial", "failed"}
  /\ context \in {"none", "live", "canceled", "deadline"}
  /\ asked \in BOOLEAN
  /\ fate \in {"none", "open", "commit", "canceled", "deadline", "failed"}
  /\ up \in BOOLEAN /\ schedule \in Schedule
  /\ file \in Schedule /\ parses \in {"absent", "torn", "whole"}
  /\ saving \in {"none", "truncate", "write"} /\ saver \in {"update", "rearm"}
  /\ trigger \in BOOLEAN /\ loop \in {"check", "wait"} /\ spawned \in 0..MaxSpawned
  /\ manual \in BOOLEAN /\ seen \in NextRun
  /\ acked \in {"on", "off", "unknown"} /\ torn \in BOOLEAN

\* An enabled schedule always has a next run and a disabled one never does,
\* in memory and in the file, whatever updates, imports, run ends, failed
\* saves and restarts come in between.
Armed(s) == s.enabled <=> s.next # "off"
ArmedIffEnabled == Armed(schedule) /\ Armed(file)

\* Unless a crash or an error struck inside a write, what the last
\* acknowledged update said about Enabled is in effect while the process
\* runs, and in the file while it does not.
AckedUnlessTorn ==
  acked # "unknown" /\ ~torn =>
    IF up THEN Said(schedule.enabled) = acked
    ELSE parses = "whole" /\ Said(file.enabled) = acked

\* A process that stays up with its schedule enabled inspects again and
\* again: neither updates nor imports, manual runs, stops, failed saves or
\* rejected starts can starve it.
EnabledKeepsInspecting == <>[](up /\ schedule.enabled) => []<>Active
=============================================================================
