---------------------------- MODULE InspectionRun ----------------------------
(***************************************************************************)
(* One backend account-inspection run at a time: the goroutine of run(),   *)
(* its worker pool, the pause condition variable, the per-run context with *)
(* its 30-minute deadline, the provider and refresh limiters, and the      *)
(* start, pause, resume and stop requests that reach them from the HTTP    *)
(* handlers and from the schedule loop.                                    *)
(*                                                                         *)
(* A step is one critical section of the scheduler's mutex, of the cursor  *)
(* or of the progress mutex, one channel operation, or the return of one   *)
(* outside call. What a probe decides, an error included, is abstracted to *)
(* "done"; a result that only says the context ended is "cancelled".       *)
(***************************************************************************)
EXTENDS Integers, FiniteSets

CONSTANTS
  NumWorkers,    \* settings.Workers
  MaxAccounts,   \* bound: accounts a run may probe
  AccountsIn,    \* bound: and how many each run may
  MaxRuns,       \* bound: runs started in one life of the process
  Providers,     \* accountInspectionSupportedProviders
  ProviderOf,    \* provider of the account in each position of the probe list
  ProviderCap,   \* accountInspectionMaxProviderConcurrency
  RefreshCap     \* accountInspectionMaxRefreshConcurrency

Workers  == 1..NumWorkers
Accounts == 1..MaxAccounts
Runs     == 1..MaxRuns
NoRun    == 0

ASSUME SizesAssumption ==
  /\ NumWorkers \in Nat \ {0}
  /\ MaxAccounts \in Nat
  /\ MaxRuns \in Nat \ {0}
  /\ ProviderCap \in Nat \ {0}
  /\ RefreshCap \in Nat \ {0}

ASSUME ProviderAssumption == ProviderOf \in [Accounts -> Providers]

ASSUME BoundAssumption == AccountsIn \in [Runs -> 0..MaxAccounts]

VARIABLES
  state,       \* s.status.State
  run,         \* number of the latest run
  cancel,      \* s.cancel: the run whose context it ends, or NoRun
  ctx,         \* what each run's context says: ctx.Err()
  cancelling,  \* runs with a cancel() call on its way, outside the mutex
  watching,    \* runs whose "<-ctx.Done(); Broadcast" goroutine still waits
  phase,       \* where the goroutine of run() is
  total,       \* len(accounts) of the run
  cursor,      \* shared cursor of the worker pool
  outcome,     \* results[index]: what became of each account
  runErr,      \* the first error recorded by setRunErr
  pc,          \* where each worker goroutine is
  at,          \* the account each worker has claimed
  slots,       \* provider limiters: the workers that hold a slot
  refreshers,  \* refresh limiter: the workers that hold a slot
  progress,    \* s.status.Progress
  report,      \* s.status.Results, by account
  stopAsked,   \* history: runs that were asked to stop while they ran
  begun        \* history: accounts each worker began since the run was held

control == <<state, run, cancel, ctx, cancelling, watching>>
worker  == <<pc, at, slots, refreshers>>
history == <<stopAsked, begun>>
vars    == <<state, run, cancel, ctx, cancelling, watching, phase, total, cursor,
             outcome, runErr, pc, at, slots, refreshers, progress, report,
             stopAsked, begun>>

RunState == {"idle", "running", "paused", "stopping",
             "stopped", "completed", "partial", "failed"}
Outcome  == {"none", "done", "cancelled"}
RunError == {"none", "canceled", "deadline", "failed"}
WorkerPc == {"off", "gate", "asleep", "claim", "limiter", "begin", "refreshGate",
             "refreshing", "probing", "release", "settle", "exit"}

Progress == [total : Nat, completed : Nat, inFlight : Int, pending : Nat]

NoOutcome    == [i \in Accounts |-> "none"]
NothingBegun == [w \in Workers |-> 0]

ProgressOf(t, c, f) ==
  [total |-> t, completed |-> c, inFlight |-> f,
   pending |-> IF t >= c + f THEN t - (c + f) ELSE 0]

IsRunning == state \in {"running", "paused", "stopping"}
CtxEnded  == run # NoRun /\ ctx[run] # "live"
Reported(res) == {i \in Accounts : res[i] # "none"}

Init ==
  /\ state = "idle" /\ run = NoRun /\ cancel = NoRun
  /\ ctx = [r \in Runs |-> "unborn"]
  /\ cancelling = {} /\ watching = {}
  /\ phase = "none" /\ total = 0 /\ cursor = 0
  /\ outcome = NoOutcome /\ runErr = "none"
  /\ pc = [w \in Workers |-> "off"] /\ at = [w \in Workers |-> 0]
  /\ slots = [p \in Providers |-> {}] /\ refreshers = {}
  /\ progress = ProgressOf(0, 0, 0) /\ report = NoOutcome
  /\ stopAsked = {} /\ begun = NothingBegun

-----------------------------------------------------------------------------
(* Requests from the handlers and the schedule loop.                       *)

\* s.pause.Broadcast(): every waiter re-checks the loop of waitIfPaused.
Broadcast ==
  pc' = [w \in Workers |-> IF pc[w] = "asleep" THEN "gate" ELSE pc[w]]

\* A request that finds a run active is rejected and changes nothing.
StartRun ==
  /\ ~IsRunning
  /\ run < MaxRuns
  /\ run' = run + 1
  /\ cancel' = run + 1
  /\ state' = "running"
  /\ ctx' = [ctx EXCEPT ![run + 1] = "live"]
  /\ watching' = watching \cup {run + 1}
  /\ phase' = "listing"
  /\ total' = 0 /\ cursor' = 0
  /\ outcome' = NoOutcome /\ report' = NoOutcome /\ runErr' = "none"
  /\ pc' = [w \in Workers |-> "off"]
  /\ progress' = ProgressOf(0, 0, 0)
  /\ begun' = NothingBegun
  /\ UNCHANGED <<cancelling, at, slots, refreshers, stopAsked>>

\* Mutant of PauseRun: a run that is already stopping can still be paused.
PauseRun_EvenStopping ==
  /\ IsRunning
  /\ state' = "paused"
  /\ begun' = NothingBegun
  /\ UNCHANGED <<run, cancel, ctx, cancelling, watching, phase, total, cursor,
                 outcome, runErr, worker, progress, report, stopAsked>>

PauseRun ==
  /\ IsRunning /\ state # "stopping"
  /\ state' = "paused"
  /\ begun' = IF state = "paused" THEN begun ELSE NothingBegun
  /\ UNCHANGED <<run, cancel, ctx, cancelling, watching, phase, total, cursor,
                 outcome, runErr, worker, progress, report, stopAsked>>

ResumeRun ==
  /\ state = "paused"
  /\ state' = "running"
  /\ Broadcast
  /\ begun' = NothingBegun
  /\ UNCHANGED <<run, cancel, ctx, cancelling, watching, phase, total, cursor,
                 outcome, runErr, at, slots, refreshers, progress, report, stopAsked>>

\* Mutant of StopRun: the state changes but the context is never cancelled.
StopRun_NoCancel ==
  /\ IF IsRunning
     THEN state' = "stopping" /\ Broadcast /\ stopAsked' = stopAsked \cup {run}
     ELSE UNCHANGED <<state, pc, stopAsked>>
  /\ UNCHANGED <<run, cancel, ctx, cancelling, watching, phase, total, cursor, outcome,
                 runErr, at, slots, refreshers, progress, report, begun>>

\* The cancel function is read under the mutex and called after it is released.
StopRun ==
  /\ IF IsRunning
     THEN state' = "stopping" /\ Broadcast /\ stopAsked' = stopAsked \cup {run}
     ELSE UNCHANGED <<state, pc, stopAsked>>
  /\ cancelling' = IF cancel = NoRun THEN cancelling ELSE cancelling \cup {cancel}
  /\ UNCHANGED <<run, cancel, ctx, watching, phase, total, cursor, outcome, runErr,
                 at, slots, refreshers, progress, report, begun>>

-----------------------------------------------------------------------------
(* The context of a run.                                                   *)

EndCtx(r, err) ==
  /\ ctx' = [ctx EXCEPT ![r] = IF @ = "live" THEN err ELSE @]
  /\ begun' = IF r = run /\ ctx[r] = "live" THEN NothingBegun ELSE begun

\* Mutant of CallCancel: the late cancel() ends whichever run is current.
CallCancel_Current(r) ==
  /\ r \in cancelling
  /\ cancelling' = cancelling \ {r}
  /\ EndCtx(run, "canceled")
  /\ UNCHANGED <<state, run, cancel, watching, phase, total, cursor, outcome, runErr,
                 worker, progress, report, stopAsked>>

CallCancel(r) ==
  /\ r \in cancelling
  /\ cancelling' = cancelling \ {r}
  /\ EndCtx(r, "canceled")
  /\ UNCHANGED <<state, run, cancel, watching, phase, total, cursor, outcome, runErr,
                 worker, progress, report, stopAsked>>

\* accountInspectionMaxRunDuration has elapsed since the run started.
Deadline(r) ==
  /\ ctx[r] = "live"
  /\ EndCtx(r, "deadline")
  /\ UNCHANGED <<state, run, cancel, cancelling, watching, phase, total, cursor,
                 outcome, runErr, worker, progress, report, stopAsked>>

\* Mutant of Watcher: no Broadcast when the context ends.
Watcher_Silent(r) ==
  /\ r \in watching
  /\ ctx[r] # "live"
  /\ watching' = watching \ {r}
  /\ UNCHANGED <<state, run, cancel, ctx, cancelling, phase, total, cursor, outcome,
                 runErr, worker, progress, report, history>>

Watcher(r) ==
  /\ r \in watching
  /\ ctx[r] # "live"
  /\ watching' = watching \ {r}
  /\ Broadcast
  /\ UNCHANGED <<state, run, cancel, ctx, cancelling, phase, total, cursor, outcome,
                 runErr, at, slots, refreshers, progress, report, history>>

-----------------------------------------------------------------------------
(* The goroutine of run().                                                 *)

\* s.auths() failed: the run ends without probing.
ListFails ==
  /\ phase = "listing"
  /\ phase' = "finishing"
  /\ runErr' = "failed"
  /\ UNCHANGED <<control, total, cursor, outcome, worker, progress, report, history>>

\* The filtered, sampled list has n accounts; min(workers, n) goroutines start.
ListAccounts(n) ==
  /\ phase = "listing" /\ n <= AccountsIn[run]
  /\ phase' = "probing"
  /\ total' = n
  /\ progress' = ProgressOf(n, 0, 0)
  /\ pc' = [w \in Workers |-> IF w <= n THEN "gate" ELSE "off"]
  /\ UNCHANGED <<control, cursor, outcome, runErr, at, slots, refreshers, report, history>>

\* Mutant of JoinWorkers: the last workers are not waited for.
JoinWorkers_NoWait ==
  /\ phase = "probing"
  /\ cursor >= total
  /\ runErr' = IF runErr = "none" /\ CtxEnded THEN ctx[run] ELSE runErr
  /\ phase' = IF runErr' = "none" THEN "acting" ELSE "finishing"
  /\ UNCHANGED <<control, total, cursor, outcome, worker, progress, report, history>>

\* wg.Wait() returned: give up on an error, else commit to automatic actions.
JoinWorkers ==
  /\ phase = "probing"
  /\ \A w \in Workers : pc[w] \in {"off", "exit"}
  /\ runErr' = IF runErr = "none" /\ CtxEnded THEN ctx[run] ELSE runErr
  /\ phase' = IF runErr' = "none" THEN "acting" ELSE "finishing"
  /\ UNCHANGED <<control, total, cursor, outcome, worker, progress, report, history>>

\* applyAutomaticActions returned; it looks at neither pause nor stop.
ActionsDone ==
  /\ phase = "acting"
  /\ phase' = "finishing"
  /\ UNCHANGED <<control, total, cursor, outcome, runErr, worker, progress, report, history>>

TerminalState(err) ==
  CASE err = "none"     -> "completed"
    [] err = "canceled" -> "stopped"
    [] err = "deadline" -> "partial"
    [] OTHER            -> "failed"

\* Mutant of Finish: every run publishes its total as completed.
Finish_CountsTotal ==
  /\ phase = "finishing"
  /\ phase' = "none"
  /\ state' = TerminalState(runErr)
  /\ report' = outcome
  /\ progress' = [total |-> total, completed |-> total, inFlight |-> 0, pending |-> 0]
  /\ cancel' = NoRun
  /\ cancelling' = cancelling \cup {run}
  /\ UNCHANGED <<run, ctx, watching, total, cursor, outcome, runErr, worker, history>>

\* The last critical section of run(); its deferred cancel() is still to come.
Finish ==
  LET found == Cardinality(Reported(outcome))
      done  == IF runErr = "none" THEN total
               ELSE IF progress.completed > found THEN found ELSE progress.completed
  IN
  /\ phase = "finishing"
  /\ phase' = "none"
  /\ state' = TerminalState(runErr)
  /\ report' = outcome
  /\ progress' = [total |-> progress.total, completed |-> done, inFlight |-> 0, pending |-> 0]
  /\ cancel' = NoRun
  /\ cancelling' = cancelling \cup {run}
  /\ UNCHANGED <<run, ctx, watching, total, cursor, outcome, runErr, worker, history>>

-----------------------------------------------------------------------------
(* The worker goroutines of runAccountInspectionWorkers.                   *)

Goto(w, from, to) == pc[w] = from /\ pc' = [pc EXCEPT ![w] = to]

\* beforeNext returned false or run returned false: the worker leaves, and
\* setRunErr keeps the first error only.
LeaveOnCtx(w, from) ==
  /\ Goto(w, from, "exit")
  /\ CtxEnded
  /\ runErr' = IF runErr = "none" THEN ctx[run] ELSE runErr

\* Mutant of WaitIfPaused: only the context is looked at.
WaitIfPaused_NoPause(w) ==
  /\ \/ LeaveOnCtx(w, "gate")
     \/ ~CtxEnded /\ Goto(w, "gate", "claim") /\ UNCHANGED runErr
  /\ UNCHANGED <<control, phase, total, cursor, outcome, at, slots, refreshers,
                 progress, report, history>>

WaitIfPaused(w) ==
  /\ \/ LeaveOnCtx(w, "gate")
     \/ ~CtxEnded /\ state = "paused" /\ Goto(w, "gate", "asleep") /\ UNCHANGED runErr
     \/ ~CtxEnded /\ state # "paused" /\ Goto(w, "gate", "claim") /\ UNCHANGED runErr
  /\ UNCHANGED <<control, phase, total, cursor, outcome, at, slots, refreshers,
                 progress, report, history>>

Claim(w) ==
  /\ cursor' = cursor + 1
  /\ \/ cursor >= total /\ Goto(w, "claim", "exit") /\ UNCHANGED at
     \/ cursor < total /\ Goto(w, "claim", "limiter") /\ at' = [at EXCEPT ![w] = cursor + 1]
  /\ UNCHANGED <<control, phase, total, outcome, runErr, slots, refreshers,
                 progress, report, history>>

\* select: with a free slot and an ended context both ready, either may win.
EnterProvider(w) ==
  /\ \/ /\ Goto(w, "limiter", "begin")
        /\ Cardinality(slots[ProviderOf[at[w]]]) < ProviderCap
        /\ slots' = [slots EXCEPT ![ProviderOf[at[w]]] = @ \cup {w}]
        /\ begun' = IF state = "paused" \/ CtxEnded
                    THEN [begun EXCEPT ![w] = @ + 1] ELSE begun
        /\ UNCHANGED runErr
     \/ LeaveOnCtx(w, "limiter") /\ UNCHANGED <<slots, begun>>
  /\ UNCHANGED <<control, phase, total, cursor, outcome, at, refreshers, progress,
                 report, stopAsked>>

BeginProbe(w) ==
  /\ Goto(w, "begin", "refreshGate")
  /\ progress' = ProgressOf(total, progress.completed, progress.inFlight + 1)
  /\ UNCHANGED <<control, phase, total, cursor, outcome, runErr, at, slots,
                 refreshers, report, history>>

\* An account without an auth index gets an error result at once.
RefuseAccount(w) ==
  /\ Goto(w, "refreshGate", "release")
  /\ outcome' = [outcome EXCEPT ![at[w]] = "done"]
  /\ UNCHANGED <<control, phase, total, cursor, runErr, at, slots, refreshers,
                 progress, report, history>>

EnterRefresh(w) ==
  /\ \/ /\ Goto(w, "refreshGate", "refreshing")
        /\ Cardinality(refreshers) < RefreshCap
        /\ refreshers' = refreshers \cup {w}
        /\ UNCHANGED outcome
     \/ /\ Goto(w, "refreshGate", "release")
        /\ CtxEnded
        /\ outcome' = [outcome EXCEPT ![at[w]] = "cancelled"]
        /\ UNCHANGED refreshers
  /\ UNCHANGED <<control, phase, total, cursor, runErr, at, slots, progress, report, history>>

\* RefreshIfDueForInspection returned: refreshed or not due, failed, or cut short.
RefreshReturns(w) ==
  /\ refreshers' = refreshers \ {w}
  /\ \/ Goto(w, "refreshing", "probing") /\ UNCHANGED outcome
     \/ /\ Goto(w, "refreshing", "release")
        /\ outcome' = [outcome EXCEPT ![at[w]] = "done"]
     \/ /\ Goto(w, "refreshing", "release")
        /\ CtxEnded
        /\ outcome' = [outcome EXCEPT ![at[w]] = "cancelled"]
  /\ UNCHANGED <<control, phase, total, cursor, runErr, at, slots, progress, report, history>>

\* The provider probe returned a decision, an error, or the context's error.
ProbeReturns(w) ==
  /\ Goto(w, "probing", "release")
  /\ \/ outcome' = [outcome EXCEPT ![at[w]] = "done"]
     \/ CtxEnded /\ outcome' = [outcome EXCEPT ![at[w]] = "cancelled"]
  /\ UNCHANGED <<control, phase, total, cursor, runErr, at, slots, refreshers,
                 progress, report, history>>

LeaveProvider(w) ==
  /\ Goto(w, "release", "settle")
  /\ slots' = [slots EXCEPT ![ProviderOf[at[w]]] = @ \ {w}]
  /\ UNCHANGED <<control, phase, total, cursor, outcome, runErr, at, refreshers,
                 progress, report, history>>

Settle(w) ==
  /\ Goto(w, "settle", "gate")
  /\ progress' = ProgressOf(total, progress.completed + 1, progress.inFlight - 1)
  /\ UNCHANGED <<control, phase, total, cursor, outcome, runErr, at, slots,
                 refreshers, report, history>>

-----------------------------------------------------------------------------
Request == StartRun \/ PauseRun \/ ResumeRun \/ StopRun
Runner  == ListFails \/ (\E n \in 0..MaxAccounts : ListAccounts(n))
           \/ JoinWorkers \/ ActionsDone \/ Finish
Inspect(w) == BeginProbe(w) \/ RefuseAccount(w) \/ EnterRefresh(w)
              \/ ProbeReturns(w) \/ LeaveProvider(w) \/ Settle(w)
Work(w) == WaitIfPaused(w) \/ Claim(w) \/ EnterProvider(w) \/ Inspect(w)

Next ==
  \/ Request
  \/ \E r \in Runs : CallCancel(r) \/ Deadline(r) \/ Watcher(r)
  \/ Runner
  \/ \E w \in Workers : Work(w) \/ RefreshReturns(w)

Spec == Init /\ [][Next]_vars

(***************************************************************************)
(* Goroutines that can run do run; HTTP probes carry a client timeout, so  *)
(* they return. An upstream token refresh has no timeout of its own: it is *)
(* only sure to return once the context it was given has ended. Requests   *)
(* are never owed.                                                         *)
(***************************************************************************)
Fairness ==
  /\ WF_vars(Runner)
  /\ \A r \in Runs : WF_vars(CallCancel(r)) /\ WF_vars(Watcher(r))
  /\ \A w \in Workers : WF_vars(Work(w)) /\ WF_vars(CtxEnded /\ RefreshReturns(w))

FairSpec == Spec /\ Fairness

\* The deadline of a context passes; StopEndsRun does without.
DeadlinePasses == \A r \in Runs : WF_vars(Deadline(r))

-----------------------------------------------------------------------------
(* Properties.                                                             *)

\* The type invariant of the run.
TypeOK ==
  /\ state \in RunState
  /\ run \in Runs \cup {NoRun} /\ cancel \in Runs \cup {NoRun}
  /\ ctx \in [Runs -> {"unborn", "live", "canceled", "deadline"}]
  /\ cancelling \subseteq Runs /\ watching \subseteq Runs
  /\ phase \in {"none", "listing", "probing", "acting", "finishing"}
  /\ total \in 0..MaxAccounts /\ cursor \in Nat
  /\ outcome \in [Accounts -> Outcome] /\ report \in [Accounts -> Outcome]
  /\ runErr \in RunError
  /\ pc \in [Workers -> WorkerPc] /\ at \in [Workers -> Nat]
  /\ slots \in [Providers -> SUBSET Workers] /\ refreshers \subseteq Workers
  /\ progress \in Progress
  /\ stopAsked \subseteq Runs /\ begun \in [Workers -> Nat]

\* Automatic actions (which disable and delete accounts) start only on a
\* whole run: every account has a result and none of them is the trace of a
\* cancelled context. Stop, deadline and pause may strike at any moment.
ActionsSeeWholeRun ==
  phase = "acting" =>
    \A i \in 1..total : outcome[i] = "done"

\* A run ends as stopped only if it was itself asked to stop: a cancel() held
\* by a stop request, or deferred by an earlier run, never ends a later one.
StoppedOnlyOnRequest == state = "stopped" => run \in stopAsked

\* A held run (paused, or with its context ended) lets every worker begin at
\* most the one account it was about to begin.
HeldRunBeginsNoMore == \A w \in Workers : begun[w] <= 1

\* The published progress agrees with the work: what is in flight is what
\* the workers are at, what is completed has a result, and when the run is
\* over the count is the number of results published.
ProgressMatchesWork ==
  /\ phase = "probing" =>
       /\ progress.inFlight =
            Cardinality({w \in Workers : pc[w] \in
              {"refreshGate", "refreshing", "probing", "release", "settle"}})
       /\ progress.completed + Cardinality({w \in Workers : pc[w] \in {"release", "settle"}})
            = Cardinality(Reported(outcome))
       /\ progress.completed + progress.inFlight + progress.pending = total
  /\ phase = "none" => progress.completed = Cardinality(Reported(report))

\* The run implements the lifecycle the rest of the system relies on: its end
\* state tells the cause, and it commits to automatic actions only while its
\* context is live.
Lifecycle == INSTANCE RunLifecycle WITH
  context <- IF run = NoRun THEN "none" ELSE ctx[run],
  asked   <- run \in stopAsked,
  fate    <- IF phase = "none" THEN "none"
             ELSE IF runErr # "none" THEN runErr
             ELSE IF phase \in {"acting", "finishing"} THEN "commit" ELSE "open"

\* The refinement above, as a property of the run's behaviours.
ImplementsLifecycle == Lifecycle!LifecycleSpec

\* A requested stop ends the run, also when it is paused, when every worker
\* waits for a limiter and when a token refresh hangs.
StopEndsRun == state = "stopping" ~> ~IsRunning

\* Every run ends by its deadline at the latest, whatever is paused or hangs.
RunEnds == DeadlinePasses => (IsRunning ~> ~IsRunning)
=============================================================================
