------------------------------ MODULE AutoActions ------------------------------
(***************************************************************************)
(* Repeated inspection runs and the automatic actions they take: results   *)
(* are decided from the accounts as they were listed, confirmations are    *)
(* counted across runs, workers execute actions concurrently while clients *)
(* toggle the same accounts, an execution may fail, and the process may    *)
(* restart, which forgets the confirmations.                               *)
(***************************************************************************)
EXTENDS InspectionDecisions

CONSTANTS
  Accounts,          \* the accounts
  FileOf,            \* the auth file of each account: files may hold several
  AnswersTo,         \* bound: what its provider may answer for each account
  Starts,            \* bound: the auth files there are at first, the provider of each
                     \* account and the settings a client has asked for
  MaxConfirmations   \* the code's cap on the confirmations required

\* The settings as a client's JSON gives them.
RawSettings == [quotaDisable : BOOLEAN, recovery : BOOLEAN, deep : BOOLEAN,
                invalid : STRING, requestError : STRING, confirmations : Int]

ASSUME AccountAssumption ==
  /\ \A a \in Accounts : /\ AnswersTo[a] # {}
                         /\ AnswersTo[a] \subseteq {x \in Answer : x.quota # << >>}
  /\ \A s \in Starts : s.files \subseteq {FileOf[a] : a \in Accounts} /\ s.raw \in RawSettings
  /\ MaxConfirmations \in Nat \ {0}

VARIABLES
  settings,    \* s.schedule.Settings, fixed after Init
  provider,    \* of each account, fixed after Init
  present,     \* the auth files that exist
  disabled,    \* Auth.Disabled of each account
  counts,      \* s.autoActionConfirmations
  todo,        \* accounts of the run whose result no worker has looked at yet
  acting,      \* the action a worker is executing on each account, or "none"
  result,      \* results[index]
  executed,    \* accounts whose result says Executed
  deleted,     \* deletedFiles of the run
  given,       \* history: the answer behind each result
  since,       \* history: inspections that called for an action since one called for none
               \* or an action was taken
  lastAuto,    \* history: the latest automatic action on each account and its answer
  deletions    \* history: how often the run has tried to delete each file

run     == <<todo, acting, result, executed, deleted, given, deletions>>
vars    == <<settings, provider, present, disabled, counts, todo, acting, result, executed,
             deleted, given, since, lastAuto, deletions>>

Files      == {FileOf[a] : a \in Accounts}
Existing   == {a \in Accounts : FileOf[a] \in present}
AutoAction == {"disable", "enable", "delete"}
NoCounts   == [k \in AutoAction \X Category |-> 0]
Answers    == UNION {AnswersTo[a] : a \in Accounts}
AnyProvider == {start.provider : start \in Starts}
NoAnswer   == CHOOSE x \in Answers : TRUE
Idle       == todo = {} /\ \A a \in Accounts : acting[a] = "none"

NormalizeAutoAction(action) == IF action \in {"disable", "delete"} THEN action ELSE "none"

NormalizeConfirmations(n) ==
  IF n <= 0 THEN 1 ELSE IF n > MaxConfirmations THEN MaxConfirmations ELSE n

Normalize(raw) ==
  [raw EXCEPT !.invalid = NormalizeAutoAction(@), !.requestError = NormalizeAutoAction(@),
              !.confirmations = NormalizeConfirmations(@)]

Settings == [quotaDisable : BOOLEAN, recovery : BOOLEAN, deep : BOOLEAN,
             invalid : {"none", "disable", "delete"}, requestError : {"none", "disable", "delete"},
             confirmations : 1..MaxConfirmations]

Init ==
  /\ \E start \in Starts :
       settings = Normalize(start.raw) /\ present = start.files /\ provider = start.provider
  /\ disabled = [a \in Accounts |-> FALSE]
  /\ counts = [a \in Accounts |-> NoCounts]
  /\ todo = {} /\ acting = [a \in Accounts |-> "none"]
  /\ result = [a \in Accounts |-> Decided("keep", FALSE, 0, FALSE)]
  /\ executed = {} /\ deleted = {}
  /\ given = [a \in Accounts |-> NoAnswer]
  /\ since = [a \in Accounts |-> 0]
  /\ lastAuto = [a \in Accounts |-> [action |-> "none", under |-> NoAnswer]]
  /\ deletions = [f \in Files |-> 0]

-----------------------------------------------------------------------------
(* A run: probe, then act.                                                 *)

\* Only an antigravity account has several quota URLs and a deep probe.
Fits(a, x) ==
  /\ x \in AnswersTo[a]
  /\ provider[a] = "antigravity" \/ (Len(x.quota) = 1 /\ x.deep = << >>)

\* The probes of a run that nothing stopped: sampled accounts that exist get
\* a result, from the disabled flag they were listed with.
Probe(sample, answer) ==
  /\ Idle
  /\ \A a \in sample : Fits(a, answer[a])
  /\ todo' = sample
  /\ given' = [a \in Accounts |-> IF a \in sample THEN answer[a] ELSE NoAnswer]
  /\ result' = [a \in Accounts |->
       IF a \in sample THEN Inspect(provider[a], answer[a], settings.deep, disabled[a])
       ELSE Decided("keep", FALSE, 0, FALSE)]
  /\ executed' = {} /\ deleted' = {} /\ deletions' = [f \in Files |-> 0]
  /\ UNCHANGED <<settings, provider, present, disabled, counts, acting, since, lastAuto>>

Min2(m, n) == IF m < n THEN m ELSE n

\* confirmAutoAction; the count saturates at the largest number ever required.
Confirm(a, wanted, yes) ==
  LET key   == <<wanted, CategoryOf(result[a], wanted)>>
      count == Min2(counts[a][key] + 1, MaxConfirmations)
  IN  IF settings.confirmations <= 1
      THEN yes /\ UNCHANGED counts
      ELSE counts' = [counts EXCEPT ![a][key] = count] /\ yes = (count >= settings.confirmations)

\* Mutant of MarkDeleted: the check and the mark of a file are not one step.
MarkDeleted_NotAtomic(a) ==
  IF FileOf[a] \in deleted THEN UNCHANGED <<acting, deleted, deletions>>
  ELSE /\ acting' = [acting EXCEPT ![a] = "delete"]
       /\ deletions' = [deletions EXCEPT ![FileOf[a]] = @ + 1]
       /\ UNCHANGED deleted

\* The first worker that gets to a file marks it, before it deletes it.
MarkDeleted(a) ==
  IF FileOf[a] \in deleted THEN UNCHANGED <<acting, deleted, deletions>>
  ELSE /\ acting' = [acting EXCEPT ![a] = "delete"]
       /\ deletions' = [deletions EXCEPT ![FileOf[a]] = @ + 1]
       /\ deleted' = deleted \cup {FileOf[a]}

\* applyAutomaticActions, the part of one worker before executeAction.
Decide(a) ==
  LET wanted == AutoActionFor(result[a], settings)
  IN
  /\ a \in todo
  /\ todo' = todo \ {a}
  /\ since' = [since EXCEPT ![a] = IF wanted = "none" THEN 0 ELSE Min2(@ + 1, MaxConfirmations)]
  /\ IF wanted = "none"
     THEN counts' = [counts EXCEPT ![a] = NoCounts] /\ UNCHANGED <<acting, deleted, deletions>>
     ELSE \E yes \in BOOLEAN :
            /\ Confirm(a, wanted, yes)
            /\ IF ~yes THEN UNCHANGED <<acting, deleted, deletions>>
               ELSE IF wanted = "delete" THEN MarkDeleted(a)
               ELSE /\ acting' = [acting EXCEPT ![a] = wanted]
                    /\ UNCHANGED <<deleted, deletions>>
  /\ UNCHANGED <<settings, provider, present, disabled, result, executed, given, lastAuto>>

\* executeAction failed: only the result says so, and the count stays.
ExecuteFails(a) ==
  /\ acting[a] # "none"
  /\ acting' = [acting EXCEPT ![a] = "none"]
  /\ UNCHANGED <<settings, provider, present, disabled, counts, todo, result, executed,
                 deleted, given, since, lastAuto, deletions>>

\* Mutant of Execute: a success leaves the confirmations standing.
Execute_KeepsCounts(a) ==
  /\ acting[a] # "none" /\ a \in Existing
  /\ acting' = [acting EXCEPT ![a] = "none"]
  /\ executed' = executed \cup {a}
  /\ result' = [result EXCEPT ![a].action = acting[a]]
  /\ since' = [since EXCEPT ![a] = 0]
  /\ lastAuto' = [lastAuto EXCEPT ![a] = [action |-> acting[a], under |-> given[a]]]
  /\ IF acting[a] = "delete"
     THEN present' = present \ {FileOf[a]} /\ UNCHANGED disabled
     ELSE disabled' = [disabled EXCEPT ![a] = (acting[a] = "disable")] /\ UNCHANGED present
  /\ UNCHANGED <<settings, provider, counts, todo, deleted, given, deletions>>

\* executeAction succeeded: the store changes, the result tells it, and the
\* confirmations of the account are cleared.
Execute(a) ==
  /\ acting[a] # "none" /\ a \in Existing
  /\ acting' = [acting EXCEPT ![a] = "none"]
  /\ executed' = executed \cup {a}
  /\ result' = [result EXCEPT ![a].action = acting[a],
                  ![a].disabled = IF acting[a] = "delete" THEN @ ELSE acting[a] = "disable"]
  /\ counts' = [counts EXCEPT ![a] = NoCounts]
  /\ since' = [since EXCEPT ![a] = 0]
  /\ lastAuto' = [lastAuto EXCEPT ![a] = [action |-> acting[a], under |-> given[a]]]
  /\ IF acting[a] = "delete"
     THEN present' = present \ {FileOf[a]} /\ UNCHANGED disabled
     ELSE disabled' = [disabled EXCEPT ![a] = (acting[a] = "disable")] /\ UNCHANGED present
  /\ UNCHANGED <<settings, provider, todo, deleted, given, deletions>>

\* A client enables or disables an account.
Toggle(a) ==
  /\ a \in Existing
  /\ disabled' = [disabled EXCEPT ![a] = ~@]
  /\ lastAuto' = [lastAuto EXCEPT ![a] = [action |-> "none", under |-> NoAnswer]]
  /\ UNCHANGED <<settings, provider, present, counts, run, since>>

\* Confirmations and the run live in memory only.
Restart ==
  /\ counts' = [a \in Accounts |-> NoCounts]
  /\ todo' = {} /\ acting' = [a \in Accounts |-> "none"]
  /\ executed' = {} /\ deleted' = {} /\ deletions' = [f \in Files |-> 0]
  /\ result' = [a \in Accounts |-> Decided("keep", FALSE, 0, FALSE)]
  /\ given' = [a \in Accounts |-> NoAnswer]
  /\ UNCHANGED <<settings, provider, present, disabled, since, lastAuto>>

ProbeSome ==
  \E sample \in SUBSET Existing :
    \E answer \in [sample -> UNION {AnswersTo[a] : a \in sample}] : Probe(sample, answer)

Next ==
  \/ ProbeSome
  \/ \E a \in Accounts : Decide(a) \/ Execute(a) \/ ExecuteFails(a) \/ Toggle(a)
  \/ Restart

Spec == Init /\ [][Next]_vars

-----------------------------------------------------------------------------
(* Properties.                                                             *)

\* The type invariant: settings are the normalized ones and every decision
\* is one the rest of the code knows.
TypeOK ==
  /\ settings \in Settings
  /\ provider \in AnyProvider
  /\ present \subseteq Files /\ disabled \in [Accounts -> BOOLEAN]
  /\ counts \in [Accounts -> [AutoAction \X Category -> 0..MaxConfirmations]]
  /\ todo \subseteq Accounts /\ acting \in [Accounts -> AutoAction \cup {"none"}]
  /\ result \in [Accounts -> Result]
  /\ executed \subseteq Accounts /\ deleted \subseteq Files
  /\ given \in [Accounts -> Answers]
  /\ since \in [Accounts -> 0..MaxConfirmations]
  /\ lastAuto \in [Accounts -> [action : AutoAction \cup {"none"}, under : Answers]]
  /\ deletions \in [Files -> Nat]

\* While a provider keeps giving the same answer, an account is not disabled
\* and enabled in turns: whatever the provider, its quota URLs, the deep
\* probe and the settings, one automatic action never undoes the last one
\* unless the answer, or a client, has changed the account in between.
NoFlipFlop ==
  \A a \in Accounts :
    acting[a] \in {"disable", "enable"} /\ lastAuto[a].action \in {"disable", "enable"}
      => acting[a] = lastAuto[a].action \/ given[a] # lastAuto[a].under

\* What the responses of an answer x say on their own, without the inspectors.
IsDenied(r)    == IsAccountErrorStatus(r.status)
IsExhausted(r) == r.status = 402 \/ r.body \in {"over", "exhausted"}

Heard(x) == \E i \in DOMAIN x.quota : IsSuccess(x.quota[i].status) /\ Parses(x.quota[i].body)
Deep(x)  == IF settings.deep THEN x.deep ELSE << >>

\* An account error where there is no quota data, or of a deep probe.
Denies(x) ==
  /\ ~x.refreshFails
  /\ IF Heard(x) THEN \E i \in DOMAIN Deep(x) : IsDenied(Deep(x)[i])
                 ELSE \E i \in DOMAIN x.quota : IsDenied(x.quota[i])

\* The refresh failed, or nothing came of the quota URLs, or of the deep probe.
Fails(p, x) ==
  \/ x.refreshFails \/ p \notin {"antigravity", "claude", "codex", "kimi", "xai"}
  \/ IF Heard(x) THEN Deep(x) # << >> /\ \A i \in DOMAIN Deep(x) : Classify(Deep(x)[i]) = "transient"
                 ELSE ~\E i \in DOMAIN x.quota : IsDenied(x.quota[i])

Exhausts(x) ==
  \/ \E i \in DOMAIN x.quota : IsExhausted(x.quota[i])
  \/ \E i \in DOMAIN Deep(x) : IsExhausted(Deep(x)[i])

\* A quota request that was answered with no exhausted quota, and a deep probe that
\* generated content, if there was one.
Recovers(x) ==
  /\ ~x.refreshFails
  /\ \E i \in DOMAIN x.quota : IsSuccess(x.quota[i].status) /\ ~IsExhausted(x.quota[i])
  /\ Deep(x) # << >> => \E i \in DOMAIN Deep(x) : Classify(Deep(x)[i]) = "success"

\* An automatic action is one that the settings ask for in answer to what the provider
\* said: only an account that was listed enabled is disabled, because it was denied,
\* failed or is out of quota and the setting of that very case says so; only one listed
\* disabled is enabled, after a good answer; and none is deleted unless it was denied, or
\* failed, and the setting of that very case says delete, and never for its quota.
ActionsFollowState ==
  \A a \in Accounts :
    LET listed == result[a].disabled
        asked(action) == \/ settings.invalid = action /\ Denies(given[a])
                         \/ settings.requestError = action /\ Fails(provider[a], given[a])
    IN  /\ acting[a] = "disable" => /\ ~listed
                                    /\ IF result[a].quota
                                       THEN settings.quotaDisable /\ Exhausts(given[a])
                                       ELSE asked("disable")
        /\ acting[a] = "enable"  => listed /\ settings.recovery /\ Recovers(given[a])
        /\ acting[a] = "delete"  => ~result[a].quota /\ asked("delete")

\* Accounts that share an auth file never make a run delete it twice.
FileDeletedOnce == \A f \in Files : deletions[f] <= 1

\* An action is taken only after as many inspections as the settings require
\* have called for one since the last inspection that called for none, and
\* since the last action taken, whatever failed or restarted in between.
ConfirmedSinceClear ==
  \A a \in Accounts : acting[a] # "none" => since[a] >= settings.confirmations
=============================================================================
