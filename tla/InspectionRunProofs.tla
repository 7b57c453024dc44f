------------------------- MODULE InspectionRunProofs -------------------------
(***************************************************************************)
(* Proofs about InspectionRun for any number of workers, accounts, runs    *)
(* and for any limiter sizes.                                              *)
(***************************************************************************)
EXTENDS InspectionRun, TLAPS, FiniteSetTheorems

(***************************************************************************)
(* Type correctness needs three facts besides types: a run that has been   *)
(* numbered has a context, and a run that is at work has been numbered.    *)
(***************************************************************************)
TypeInv ==
  /\ TypeOK
  /\ run \in Runs => ctx[run] # "unborn"
  /\ phase # "none" => run \in Runs
  /\ IsRunning <=> phase # "none"

LEMMA ReportedIsCounted ==
  ASSUME NEW S \in SUBSET Accounts
  PROVE  Cardinality(S) \in Nat
<1>1. IsFiniteSet(Accounts)
  BY SizesAssumption, FS_Interval DEF Accounts
<1>. QED  BY <1>1, FS_Subset, FS_CardinalityType

LEMMA InitType == Init => TypeInv
BY SizesAssumption
   DEF Init, TypeInv, TypeOK, NoRun, RunState, Outcome, RunError, WorkerPc, Progress,
       ProgressOf, NoOutcome, NothingBegun, IsRunning, Runs, Workers

LEMMA ProgressType ==
  ASSUME NEW t \in Nat, NEW c \in Nat, NEW f \in Int
  PROVE  ProgressOf(t, c, f) \in Progress
BY DEF ProgressOf, Progress

LEMMA UpdateType ==
  ASSUME NEW D, NEW R, NEW f \in [D -> R], NEW x, NEW v, x \in D => v \in R
  PROVE  [f EXCEPT ![x] = v] \in [D -> R]
OBVIOUS

LEMMA StepType == TypeInv /\ [Next]_vars => TypeInv'
<1> SUFFICES ASSUME TypeInv, [Next]_vars PROVE TypeInv'
  OBVIOUS
<1> USE SizesAssumption DEF TypeInv, TypeOK, IsRunning, NoRun, RunState, RunError, Runs
<1>1. CASE StartRun
  <2>1. progress' \in Progress
    BY <1>1, ProgressType DEF StartRun
  <2>. QED  BY <1>1, <2>1 DEF StartRun, Outcome, WorkerPc, NoOutcome, NothingBegun
<1>2. CASE PauseRun
  BY <1>2 DEF PauseRun, NothingBegun, worker
<1>3. CASE ResumeRun
  BY <1>3 DEF ResumeRun, Broadcast, WorkerPc, NothingBegun
<1>4. CASE StopRun
  BY <1>4 DEF StopRun, Broadcast, WorkerPc
<1>5. ASSUME NEW r \in Runs, CallCancel(r) PROVE TypeInv'
  BY <1>5 DEF CallCancel, EndCtx, NothingBegun, worker
<1>6. ASSUME NEW r \in Runs, Deadline(r) PROVE TypeInv'
  BY <1>6 DEF Deadline, EndCtx, NothingBegun, worker
<1>7. ASSUME NEW r \in Runs, Watcher(r) PROVE TypeInv'
  BY <1>7 DEF Watcher, Broadcast, WorkerPc, history
<1>8. CASE ListFails
  BY <1>8 DEF ListFails, control, worker, history
<1>9. ASSUME NEW n \in 0..MaxAccounts, ListAccounts(n) PROVE TypeInv'
  <2>1. progress' \in Progress
    BY <1>9, ProgressType DEF ListAccounts
  <2>. QED  BY <1>9, <2>1 DEF ListAccounts, WorkerPc, control, history
<1>10. CASE JoinWorkers
  BY <1>10 DEF JoinWorkers, CtxEnded, control, worker, history
<1>11. CASE ActionsDone
  BY <1>11 DEF ActionsDone, control, worker, history
<1>12. CASE Finish
  <2>1. Cardinality(Reported(outcome)) \in Nat
    BY ReportedIsCounted DEF Reported
  <2>2. progress' \in Progress
    <3> DEFINE found == Cardinality(Reported(outcome))
               done  == IF runErr = "none" THEN total
                        ELSE IF progress.completed > found THEN found ELSE progress.completed
    <3>1. done \in Nat
      BY <2>1 DEF Progress
    <3>2. progress' = [total |-> progress.total, completed |-> done, inFlight |-> 0, pending |-> 0]
      BY <1>12 DEF Finish
    <3> HIDE DEF done
    <3>. QED  BY <3>1, <3>2 DEF Progress
  <2>3. state' \in RunState \ {"running", "paused", "stopping"}
    BY <1>12 DEF Finish, TerminalState
  <2>. QED  BY <1>12, <2>2, <2>3 DEF Finish, worker, history
<1>13. ASSUME NEW w \in Workers, Work(w) \/ RefreshReturns(w) PROVE TypeInv'
  <2> USE DEF WorkerPc, Outcome, Goto, control, history
  <2>1. CASE WaitIfPaused(w)
    BY <2>1 DEF WaitIfPaused, LeaveOnCtx, CtxEnded
  <2>2. CASE Claim(w)
    <3>1. CASE cursor >= total /\ Goto(w, "claim", "exit") /\ UNCHANGED at
      BY <2>2, <3>1 DEF Claim
    <3>2. CASE cursor < total /\ Goto(w, "claim", "limiter")
               /\ at' = [at EXCEPT ![w] = cursor + 1]
      <4>1. at' \in [Workers -> Nat] /\ cursor' \in Nat
        BY <2>2, <3>2 DEF Claim
      <4>. QED  BY <2>2, <3>2, <4>1 DEF Claim
    <3>. QED  BY <2>2, <3>1, <3>2 DEF Claim
  <2>3. CASE EnterProvider(w)
    <3>1. pc' \in [Workers -> WorkerPc]
      BY <2>3 DEF EnterProvider, LeaveOnCtx
    <3>2. slots' \in [Providers -> SUBSET Workers]
      <4>1. slots' \in {slots, [slots EXCEPT ![ProviderOf[at[w]]] = @ \cup {w}]}
        BY <2>3 DEF EnterProvider
      <4>. QED  BY <4>1, UpdateType
    <3>3. begun' \in [Workers -> Nat]
      BY <2>3 DEF EnterProvider
    <3>4. runErr' \in RunError
      BY <2>3 DEF EnterProvider, LeaveOnCtx, CtxEnded
    <3>. QED  BY <2>3, <3>1, <3>2, <3>3, <3>4 DEF EnterProvider
  <2>4. CASE BeginProbe(w)
    <3>1. progress.completed \in Nat /\ progress.completed + 1 \in Nat
          /\ progress.inFlight + 1 \in Int /\ progress.inFlight - 1 \in Int /\ total \in Nat
      BY DEF Progress
    <3>2. progress' \in Progress
      BY <2>4, <3>1, ProgressType DEF BeginProbe
    <3>. QED  BY <2>4, <3>2 DEF BeginProbe
  <2>5. CASE RefuseAccount(w)
    BY <2>5 DEF RefuseAccount
  <2>6. CASE EnterRefresh(w)
    <3>1. pc' \in [Workers -> WorkerPc]
      BY <2>6 DEF EnterRefresh
    <3>2. outcome' \in {outcome, [outcome EXCEPT ![at[w]] = "done"],
                        [outcome EXCEPT ![at[w]] = "cancelled"]}
      BY <2>6 DEF EnterRefresh
    <3>3. outcome' \in [Accounts -> Outcome]
      BY <3>2, UpdateType
    <3>. QED  BY <2>6, <3>1, <3>3 DEF EnterRefresh
  <2>7. CASE ProbeReturns(w)
    BY <2>7 DEF ProbeReturns
  <2>8. CASE LeaveProvider(w)
    BY <2>8 DEF LeaveProvider
  <2>9. CASE Settle(w)
    <3>1. progress.completed \in Nat /\ progress.completed + 1 \in Nat
          /\ progress.inFlight + 1 \in Int /\ progress.inFlight - 1 \in Int /\ total \in Nat
      BY DEF Progress
    <3>2. progress' \in Progress
      BY <2>9, <3>1, ProgressType DEF Settle
    <3>. QED  BY <2>9, <3>2 DEF Settle
  <2>10. CASE RefreshReturns(w)
    <3>1. pc' \in [Workers -> WorkerPc]
      <4>1. pc' \in {[pc EXCEPT ![w] = "probing"], [pc EXCEPT ![w] = "release"]}
        BY <2>10 DEF RefreshReturns
      <4>. QED  BY <4>1, UpdateType
    <3>2. outcome' \in {outcome, [outcome EXCEPT ![at[w]] = "done"],
                        [outcome EXCEPT ![at[w]] = "cancelled"]}
      BY <2>10 DEF RefreshReturns
    <3>3. outcome' \in [Accounts -> Outcome]
      BY <3>2, UpdateType
    <3>. QED  BY <2>10, <3>1, <3>3 DEF RefreshReturns
  <2>. QED  BY <1>13, <2>1, <2>2, <2>3, <2>4, <2>5, <2>6, <2>7, <2>8, <2>9, <2>10
            DEF Work, Inspect
<1>14. CASE UNCHANGED vars
  BY <1>14 DEF vars
<1>. QED
  BY <1>1, <1>2, <1>3, <1>4, <1>5, <1>6, <1>7, <1>8, <1>9, <1>10, <1>11, <1>12, <1>13, <1>14
  DEF Next, Request, Runner

\* Every state of a run is well typed, whatever the sizes.
THEOREM TypeCorrect == Spec => []TypeOK
<1>1. TypeInv => TypeOK
  BY DEF TypeInv
<1>. QED  BY InitType, StepType, <1>1, PTL DEF Spec

-----------------------------------------------------------------------------
(***************************************************************************)
(* Automatic actions see a whole run. The strengthening says where every   *)
(* claimed account is: it has a result, or a worker still holds it, or the *)
(* run has recorded an error; a worker leaves without an error only when   *)
(* the list is exhausted; and a live context leaves no cancelled result.   *)
(***************************************************************************)
Holding(w) == pc[w] \in {"limiter", "begin", "refreshGate", "refreshing", "probing"}

ClaimedInv ==
  phase = "probing" /\ runErr = "none" =>
    \A i \in 1..total : i <= cursor =>
      outcome[i] # "none" \/ \E w \in Workers : Holding(w) /\ at[w] = i
ExitInv ==
  phase = "probing" =>
    /\ total >= 1 => pc[1] # "off"
    /\ runErr = "none" => \A w \in Workers : pc[w] = "exit" => cursor >= total
CancelledInv ==
  phase = "probing" /\ ~CtxEnded => \A i \in Accounts : outcome[i] # "cancelled"
ListingInv == phase = "listing" => outcome = NoOutcome /\ cursor = 0
PoolInv    == \A w \in Workers : pc[w] \notin {"off", "exit"} => phase = "probing"

WholeRunInv ==
  ClaimedInv /\ ExitInv /\ CancelledInv /\ ListingInv /\ PoolInv /\ ActionsSeeWholeRun

LEMMA InitWholeRun == Init => WholeRunInv
BY DEF Init, WholeRunInv, ClaimedInv, ExitInv, CancelledInv, ListingInv, PoolInv,
       ActionsSeeWholeRun

(***************************************************************************)
(* The steps that leave the pool, its results and the run's error alone.   *)
(***************************************************************************)
LEMMA ControlKeepsWholeRun ==
  ASSUME TypeInv, WholeRunInv,
         phase' = phase, total' = total, cursor' = cursor, outcome' = outcome,
         runErr' = runErr, at' = at, CtxEnded => CtxEnded',
         pc' = pc \/ Broadcast
  PROVE  WholeRunInv'
<1> USE DEF TypeInv, TypeOK
<1>1. \A w \in Workers : /\ Holding(w) => Holding(w)'
                         /\ pc'[w] = "exit" <=> pc[w] = "exit"
                         /\ pc'[w] = "off" <=> pc[w] = "off"
  BY DEF Broadcast, Holding
<1>2. 1 \in Workers
  BY SizesAssumption DEF Workers
<1>3. ClaimedInv'
  BY <1>1 DEF WholeRunInv, ClaimedInv
<1>4. ExitInv'
  BY <1>1, <1>2 DEF WholeRunInv, ExitInv
<1>5. CancelledInv' /\ ListingInv' /\ ActionsSeeWholeRun'
  BY DEF WholeRunInv, CancelledInv, ListingInv, ActionsSeeWholeRun
<1>6. PoolInv'
  BY <1>1 DEF WholeRunInv, PoolInv
<1>. QED  BY <1>3, <1>4, <1>5, <1>6 DEF WholeRunInv

LEMMA StepWholeRun == TypeInv /\ WholeRunInv /\ [Next]_vars => WholeRunInv'
<1> SUFFICES ASSUME TypeInv, WholeRunInv, [Next]_vars PROVE WholeRunInv'
  OBVIOUS
<1>1. CASE StartRun
  BY <1>1 DEF StartRun, WholeRunInv, ClaimedInv, ExitInv, CancelledInv, ListingInv,
     PoolInv, ActionsSeeWholeRun
<1>2. CASE PauseRun \/ ResumeRun \/ StopRun
  <2>1. CtxEnded => CtxEnded'
    BY <1>2 DEF PauseRun, ResumeRun, StopRun, CtxEnded
  <2>. QED  BY <1>2, <2>1, ControlKeepsWholeRun DEF PauseRun, ResumeRun, StopRun, worker
<1>3. ASSUME NEW r \in Runs, CallCancel(r) \/ Deadline(r) \/ Watcher(r)
      PROVE  WholeRunInv'
  <2>1. CtxEnded => CtxEnded'
    BY <1>3 DEF CallCancel, Deadline, Watcher, EndCtx, CtxEnded, TypeInv, TypeOK
  <2>. QED  BY <1>3, <2>1, ControlKeepsWholeRun DEF CallCancel, Deadline, Watcher, worker
<1>4. CASE ListFails \/ ActionsDone \/ Finish
  <2>1. phase' \in {"none", "finishing"} /\ phase # "probing"
    BY <1>4 DEF ListFails, ActionsDone, Finish
  <2>2. PoolInv'
    BY <1>4, <2>1 DEF ListFails, ActionsDone, Finish, worker, WholeRunInv, PoolInv
  <2>. QED  BY <2>1, <2>2 DEF WholeRunInv, ClaimedInv, ExitInv, CancelledInv, ListingInv,
            ActionsSeeWholeRun
<1>5. ASSUME NEW n \in 0..MaxAccounts, ListAccounts(n) PROVE WholeRunInv'
  <2> USE <1>5 DEF ListAccounts
  <2>1. outcome' = NoOutcome /\ cursor' = 0 /\ phase' = "probing" /\ total' = n
    BY DEF WholeRunInv, ListingInv
  <2>2. \A w \in Workers : pc'[w] # "exit"
    OBVIOUS
  <2>3. n >= 1 => pc'[1] # "off"
    BY SizesAssumption DEF Workers
  <2>4. ClaimedInv' /\ ExitInv'
    BY <2>1, <2>2, <2>3 DEF ClaimedInv, ExitInv
  <2>. QED  BY <2>1, <2>4 DEF WholeRunInv, CancelledInv, ListingInv, PoolInv,
            ActionsSeeWholeRun, NoOutcome
<1>6. CASE JoinWorkers
  <2> USE <1>6 DEF JoinWorkers, worker
  <2>1. phase' \in {"acting", "finishing"} /\ UNCHANGED <<total, outcome, pc>>
    OBVIOUS
  <2>2. PoolInv'
    BY <2>1 DEF PoolInv
  <2>3. ASSUME phase' = "acting", NEW i \in 1..total PROVE outcome[i] = "done"
    <3>1. runErr = "none" /\ ~CtxEnded
      BY <2>3 DEF CtxEnded, TypeInv, TypeOK, NoRun
    <3>2. 1 \in Workers
      BY SizesAssumption DEF Workers
    <3>3. i <= cursor
      BY <3>1, <3>2 DEF WholeRunInv, ExitInv, TypeInv, TypeOK
    <3>4. outcome[i] # "none"
      BY <3>1, <3>3 DEF WholeRunInv, ClaimedInv, Holding
    <3>5. outcome[i] # "cancelled" /\ outcome[i] \in Outcome
      BY <3>1, SizesAssumption DEF WholeRunInv, CancelledInv, TypeInv, TypeOK, Accounts
    <3>. QED  BY <3>4, <3>5 DEF Outcome
  <2>4. ActionsSeeWholeRun'
    <3> SUFFICES ASSUME phase' = "acting", NEW i \in 1..total' PROVE outcome'[i] = "done"
      BY DEF ActionsSeeWholeRun
    <3>. QED  BY <2>1, <2>3
  <2>. QED  BY <2>1, <2>2, <2>4 DEF WholeRunInv, ClaimedInv, ExitInv, CancelledInv, ListingInv
<1>7. ASSUME NEW w \in Workers, Work(w) \/ RefreshReturns(w) PROVE WholeRunInv'
  <2>1. phase = "probing" /\ UNCHANGED <<control, phase, total>>
    <3>1. pc[w] \notin {"off", "exit"}
      BY <1>7 DEF Work, Inspect, WaitIfPaused, LeaveOnCtx, Claim, EnterProvider, BeginProbe,
         RefuseAccount, EnterRefresh, RefreshReturns, ProbeReturns, LeaveProvider, Settle, Goto
    <3>2. phase = "probing"
      BY <3>1 DEF WholeRunInv, PoolInv
    <3>. QED
      BY <3>2, <1>7 DEF Work, Inspect, WaitIfPaused, Claim, EnterProvider, BeginProbe,
         RefuseAccount, EnterRefresh, RefreshReturns, ProbeReturns, LeaveProvider, Settle
  <2>2. CtxEnded' <=> CtxEnded
    BY <2>1 DEF control, CtxEnded
  <2>3. PoolInv' /\ ListingInv' /\ ActionsSeeWholeRun'
    BY <2>1 DEF PoolInv, ListingInv, ActionsSeeWholeRun
  <2>4. CASE WaitIfPaused(w)
    <3>1. CASE LeaveOnCtx(w, "gate")
      <4>1. runErr' # "none"
        BY <3>1 DEF LeaveOnCtx, CtxEnded, TypeInv, TypeOK, NoRun
      <4>2. pc'[1] = "off" => pc[1] = "off"
        BY <3>1 DEF LeaveOnCtx, Goto, TypeInv, TypeOK
      <4>. QED  BY <2>1, <2>2, <2>3, <2>4, <4>1, <4>2
                DEF WaitIfPaused, WholeRunInv, ClaimedInv, ExitInv, CancelledInv
    <3>2. CASE /\ UNCHANGED runErr
               /\ Goto(w, "gate", "asleep") \/ Goto(w, "gate", "claim")
      <4>1. \A v \in Workers : /\ Holding(v) => Holding(v)'
                               /\ pc'[v] = "exit" => pc[v] = "exit"
                               /\ pc'[v] = "off" => pc[v] = "off"
        BY <3>2 DEF Goto, Holding, TypeInv, TypeOK
      <4>2. 1 \in Workers
        BY SizesAssumption DEF Workers
      <4>3. UNCHANGED <<cursor, outcome, at>>
        BY <2>4 DEF WaitIfPaused
      <4>4. ClaimedInv'
        BY <2>1, <3>2, <4>1, <4>3 DEF WholeRunInv, ClaimedInv
      <4>5. ExitInv'
        BY <2>1, <3>2, <4>1, <4>2, <4>3 DEF WholeRunInv, ExitInv
      <4>6. CancelledInv'
        BY <2>1, <2>2, <4>3 DEF WholeRunInv, CancelledInv
      <4>. QED  BY <2>3, <4>4, <4>5, <4>6 DEF WholeRunInv
    <3>. QED  BY <2>4, <3>1, <3>2 DEF WaitIfPaused
  <2>5. CASE Claim(w)
    <3>1. 1 \in Workers /\ cursor' = cursor + 1 /\ UNCHANGED <<outcome, runErr>>
      BY <2>5, SizesAssumption DEF Claim, Workers
    <3>2. CASE cursor >= total /\ Goto(w, "claim", "exit") /\ UNCHANGED at
      <4>1. \A v \in Workers : /\ Holding(v) => Holding(v)'
                               /\ pc'[v] = "off" => pc[v] = "off"
        BY <3>2 DEF Goto, Holding, TypeInv, TypeOK
      <4>2. cursor' >= total
        BY <3>1, <3>2 DEF TypeInv, TypeOK
      <4>3. ClaimedInv'
        BY <2>1, <3>1, <3>2, <4>1 DEF WholeRunInv, ClaimedInv, TypeInv, TypeOK
      <4>. QED  BY <2>1, <2>2, <2>3, <3>1, <4>1, <4>2, <4>3
                DEF WholeRunInv, ExitInv, CancelledInv
    <3>3. CASE cursor < total /\ Goto(w, "claim", "limiter")
               /\ at' = [at EXCEPT ![w] = cursor + 1]
      <4>1. \A v \in Workers : /\ Holding(v) => Holding(v)' /\ at'[v] = at[v]
                               /\ pc'[v] = "exit" => pc[v] = "exit"
                               /\ pc'[v] = "off" => pc[v] = "off"
        BY <3>3 DEF Goto, Holding, TypeInv, TypeOK
      <4>2. Holding(w)' /\ at'[w] = cursor + 1
        BY <3>3 DEF Goto, Holding, TypeInv, TypeOK
      <4>3. ClaimedInv'
        <5> SUFFICES ASSUME runErr = "none", NEW i \in 1..total, i <= cursor + 1
                     PROVE  outcome[i] # "none" \/ \E v \in Workers : Holding(v)' /\ at'[v] = i
          BY <2>1, <3>1 DEF ClaimedInv
        <5>1. CASE i = cursor + 1
          BY <5>1, <4>2
        <5>2. CASE i <= cursor
          BY <5>2, <2>1, <4>1 DEF WholeRunInv, ClaimedInv
        <5>. QED  BY <5>1, <5>2 DEF TypeInv, TypeOK
      <4>4. cursor >= total => cursor' >= total
        BY <3>1 DEF TypeInv, TypeOK
      <4>. QED  BY <2>1, <2>2, <2>3, <3>1, <4>1, <4>3, <4>4
                DEF WholeRunInv, ExitInv, CancelledInv
    <3>. QED  BY <2>5, <3>2, <3>3 DEF Claim
  <2>6. CASE EnterProvider(w)
    <3>1. UNCHANGED <<cursor, outcome, at>>
      BY <2>6 DEF EnterProvider
    <3>2. CASE Goto(w, "limiter", "begin") /\ UNCHANGED runErr
      <4>1. \A v \in Workers : /\ Holding(v) => Holding(v)'
                               /\ pc'[v] = "exit" => pc[v] = "exit"
                               /\ pc'[v] = "off" => pc[v] = "off"
        BY <3>2 DEF Goto, Holding, TypeInv, TypeOK
      <4>2. 1 \in Workers
        BY SizesAssumption DEF Workers
      <4>. QED  BY <2>1, <2>2, <2>3, <3>1, <3>2, <4>1, <4>2
                DEF WholeRunInv, ClaimedInv, ExitInv, CancelledInv
    <3>3. CASE LeaveOnCtx(w, "limiter")
      <4>1. runErr' # "none"
        BY <3>3 DEF LeaveOnCtx, CtxEnded, TypeInv, TypeOK, NoRun
      <4>2. pc'[1] = "off" => pc[1] = "off"
        BY <3>3 DEF LeaveOnCtx, Goto, TypeInv, TypeOK
      <4>. QED  BY <2>1, <2>2, <2>3, <3>1, <4>1, <4>2
                DEF WholeRunInv, ClaimedInv, ExitInv, CancelledInv
    <3>. QED  BY <2>6, <3>2, <3>3 DEF EnterProvider
  <2>7. CASE Inspect(w) \/ RefreshReturns(w)
    <3>1. UNCHANGED <<cursor, at, runErr>>
      BY <2>7 DEF Inspect, BeginProbe, RefuseAccount, EnterRefresh, RefreshReturns,
         ProbeReturns, LeaveProvider, Settle
    <3>2. \E to \in {"refreshGate", "refreshing", "probing", "release", "settle", "gate"} :
            /\ pc' = [pc EXCEPT ![w] = to]
            /\ Holding(w) /\ to \in {"release", "settle", "gate"} =>
                 \E res \in {"done", "cancelled"} : outcome' = [outcome EXCEPT ![at[w]] = res]
      BY <2>7 DEF Inspect, BeginProbe, RefuseAccount, EnterRefresh, RefreshReturns,
         ProbeReturns, LeaveProvider, Settle, Goto, Holding
    <3>3. \/ UNCHANGED outcome
          \/ outcome' = [outcome EXCEPT ![at[w]] = "done"]
          \/ CtxEnded /\ outcome' = [outcome EXCEPT ![at[w]] = "cancelled"]
      BY <2>7 DEF Inspect, BeginProbe, RefuseAccount, EnterRefresh, RefreshReturns,
         ProbeReturns, LeaveProvider, Settle
    <3>4. \A v \in Workers : (pc'[v] = "off" <=> pc[v] = "off") /\ (pc'[v] = "exit" <=> pc[v] = "exit")
      <4>1. pc[w] \notin {"off", "exit"}
        BY <2>7 DEF Inspect, BeginProbe, RefuseAccount, EnterRefresh, RefreshReturns,
           ProbeReturns, LeaveProvider, Settle, Goto
      <4>. QED  BY <3>2, <4>1 DEF TypeInv, TypeOK
    <3>5. ExitInv'
      <4>1. 1 \in Workers
        BY SizesAssumption DEF Workers
      <4>. QED  BY <2>1, <3>1, <3>4, <4>1 DEF WholeRunInv, ExitInv
    <3>6. CancelledInv'
      BY <2>1, <2>2, <3>3 DEF WholeRunInv, CancelledInv, TypeInv, TypeOK
    <3>7. ClaimedInv'
      <4> SUFFICES ASSUME runErr = "none", NEW i \in 1..total, i <= cursor
                   PROVE  outcome'[i] # "none" \/ \E v \in Workers : Holding(v)' /\ at'[v] = i
        BY <2>1, <3>1 DEF ClaimedInv
      <4>1. i \in Accounts
        BY SizesAssumption DEF Accounts, TypeInv, TypeOK
      <4>2. CASE outcome[i] # "none"
        BY <3>3, <4>1, <4>2 DEF TypeInv, TypeOK
      <4>3. ASSUME NEW v \in Workers, Holding(v), at[v] = i
            PROVE  outcome'[i] # "none" \/ Holding(v)'
        <5>1. CASE v # w
          BY <5>1, <4>3, <3>2 DEF Holding, TypeInv, TypeOK
        <5>2. CASE v = w /\ pc'[w] \in {"release", "settle", "gate"}
          BY <5>2, <4>1, <4>3, <3>2 DEF TypeInv, TypeOK
        <5>3. CASE v = w /\ pc'[w] \notin {"release", "settle", "gate"}
          BY <5>3, <3>2 DEF Holding, TypeInv, TypeOK
        <5>. QED  BY <5>1, <5>2, <5>3
      <4>. QED  BY <2>1, <3>1, <4>2, <4>3 DEF WholeRunInv, ClaimedInv
    <3>. QED  BY <2>3, <3>5, <3>6, <3>7 DEF WholeRunInv
  <2>. QED  BY <1>7, <2>4, <2>5, <2>6, <2>7 DEF Work
<1>8. CASE UNCHANGED vars
  <2>1. CtxEnded => CtxEnded'
    BY <1>8 DEF vars, CtxEnded
  <2>. QED  BY <1>8, <2>1, ControlKeepsWholeRun DEF vars
<1>. QED
  BY <1>1, <1>2, <1>3, <1>4, <1>5, <1>6, <1>7, <1>8 DEF Next, Request, Runner

\* Automatic actions start only when every account of the run has a result and
\* none of these results is the trace of a cancelled context.
THEOREM ActionsAreSafe == Spec => []ActionsSeeWholeRun
<1>1. WholeRunInv => ActionsSeeWholeRun
  BY DEF WholeRunInv
<1>. QED  BY InitType, StepType, InitWholeRun, StepWholeRun, <1>1, PTL DEF Spec

-----------------------------------------------------------------------------
(***************************************************************************)
(* A run ends as stopped only if it was asked to. The strengthening        *)
(* follows every cancel() that could still reach the current run: those on *)
(* their way, the one s.cancel holds, and the error the pool recorded.     *)
(***************************************************************************)
Asked == run \in stopAsked

StopInv ==
  /\ phase # "none" => /\ ctx[run] = "canceled" => Asked
                       /\ run \in cancelling => Asked
                       /\ runErr = "canceled" => Asked
  /\ cancel = IF phase = "none" THEN NoRun ELSE run
  /\ \A r \in cancelling : r <= run
  /\ StoppedOnlyOnRequest

LEMMA InitStop == Init => StopInv
BY DEF Init, StopInv, StoppedOnlyOnRequest

LEMMA StepStop == TypeInv /\ StopInv /\ [Next]_vars => StopInv'
<1> SUFFICES ASSUME TypeInv, StopInv, [Next]_vars PROVE StopInv'
  OBVIOUS
<1> USE DEF TypeInv, TypeOK, StopInv, StoppedOnlyOnRequest, Asked, IsRunning, NoRun, Runs
<1>1. CASE StartRun
  BY <1>1, SizesAssumption DEF StartRun
<1>2. CASE PauseRun \/ ResumeRun
  BY <1>2 DEF PauseRun, ResumeRun, worker
<1>3. CASE StopRun
  BY <1>3 DEF StopRun
<1>4. ASSUME NEW r \in Runs, CallCancel(r) PROVE StopInv'
  BY <1>4 DEF CallCancel, EndCtx
<1>5. ASSUME NEW r \in Runs, Deadline(r) PROVE StopInv'
  BY <1>5 DEF Deadline, EndCtx
<1>6. ASSUME NEW r \in Runs, Watcher(r) PROVE StopInv'
  BY <1>6 DEF Watcher, history
<1>7. CASE ListFails \/ ActionsDone
  BY <1>7 DEF ListFails, ActionsDone, control, history
<1>8. ASSUME NEW n \in 0..MaxAccounts, ListAccounts(n) PROVE StopInv'
  BY <1>8 DEF ListAccounts, control, history
<1>9. CASE JoinWorkers
  BY <1>9 DEF JoinWorkers, CtxEnded, control, history
<1>10. CASE Finish
  <2>1. state' = "stopped" => runErr = "canceled"
    BY <1>10 DEF Finish, TerminalState
  <2>. QED  BY <1>10, <2>1, SizesAssumption DEF Finish, history
<1>11. ASSUME NEW w \in Workers, Work(w) \/ RefreshReturns(w) PROVE StopInv'
  <2>1. UNCHANGED <<control, phase, stopAsked>>
    BY <1>11 DEF Work, Inspect, WaitIfPaused, Claim, EnterProvider, BeginProbe, RefuseAccount,
       EnterRefresh, RefreshReturns, ProbeReturns, LeaveProvider, Settle, history
  <2>2. runErr' = runErr \/ (CtxEnded /\ runErr' = ctx[run])
    BY <1>11 DEF Work, Inspect, WaitIfPaused, LeaveOnCtx, Claim, EnterProvider, BeginProbe,
       RefuseAccount, EnterRefresh, RefreshReturns, ProbeReturns, LeaveProvider, Settle
  <2>. QED  BY <2>1, <2>2 DEF control
<1>12. CASE UNCHANGED vars
  BY <1>12 DEF vars
<1>. QED
  BY <1>1, <1>2, <1>3, <1>4, <1>5, <1>6, <1>7, <1>8, <1>9, <1>10, <1>11, <1>12
  DEF Next, Request, Runner

\* No cancel() of a stop request or of a finished run ends another run.
THEOREM StopsAreRequested == Spec => []StoppedOnlyOnRequest
<1>1. StopInv => StoppedOnlyOnRequest
  BY DEF StopInv
<1>. QED  BY InitType, StepType, InitStop, StepStop, <1>1, PTL DEF Spec

-----------------------------------------------------------------------------
(***************************************************************************)
(* The run implements RunLifecycle. Three facts beside the invariants      *)
(* above: no run to come has been asked to stop, a run that still lists    *)
(* has recorded no error, and one that acts has recorded none either.      *)
(***************************************************************************)
FateInv ==
  /\ stopAsked \subseteq 1..run
  /\ phase \in {"listing", "acting"} => runErr = "none"

LEMMA InitFate == Init => FateInv
BY DEF Init, FateInv

LEMMA StepFate == TypeInv /\ WholeRunInv /\ FateInv /\ [Next]_vars => FateInv'
<1> SUFFICES ASSUME TypeInv, WholeRunInv, FateInv, [Next]_vars PROVE FateInv'
  OBVIOUS
<1> USE SizesAssumption DEF TypeInv, TypeOK, FateInv, IsRunning, NoRun, Runs
<1>1. CASE StartRun
  BY <1>1 DEF StartRun
<1>2. CASE PauseRun \/ ResumeRun \/ StopRun
  <2>1. UNCHANGED <<run, phase, runErr>>
    BY <1>2 DEF PauseRun, ResumeRun, StopRun
  <2>2. stopAsked' = stopAsked \/ (run \in Runs /\ stopAsked' = stopAsked \cup {run})
    BY <1>2 DEF PauseRun, ResumeRun, StopRun
  <2>3. ASSUME NEW r \in stopAsked' PROVE r \in 1..run
    <3>1. CASE r \in stopAsked
      BY <3>1
    <3>2. CASE r = run /\ run \in Runs
      BY <3>2
    <3>. QED  BY <2>2, <2>3, <3>1, <3>2
  <2>. QED  BY <2>1, <2>3
<1>3. ASSUME NEW r \in Runs, CallCancel(r) \/ Deadline(r) \/ Watcher(r) PROVE FateInv'
  BY <1>3 DEF CallCancel, Deadline, Watcher, history
<1>4. CASE ListFails \/ ActionsDone \/ Finish \/ JoinWorkers
  BY <1>4 DEF ListFails, ActionsDone, Finish, JoinWorkers, control, history
<1>5. ASSUME NEW n \in 0..MaxAccounts, ListAccounts(n) PROVE FateInv'
  BY <1>5 DEF ListAccounts, control, history
<1>6. ASSUME NEW w \in Workers, Work(w) \/ RefreshReturns(w) PROVE FateInv'
  <2>1. UNCHANGED <<control, phase, stopAsked>> /\ pc[w] \notin {"off", "exit"}
    BY <1>6 DEF Work, Inspect, WaitIfPaused, LeaveOnCtx, Claim, EnterProvider, BeginProbe, RefuseAccount,
       EnterRefresh, RefreshReturns, ProbeReturns, LeaveProvider, Settle, Goto, history
  <2>2. phase = "probing"
    BY <2>1 DEF WholeRunInv, PoolInv
  <2>. QED  BY <2>1, <2>2 DEF control
<1>7. CASE UNCHANGED vars
  BY <1>7 DEF vars
<1>. QED
  BY <1>1, <1>2, <1>3, <1>4, <1>5, <1>6, <1>7 DEF Next, Request, Runner

\* The initial states and the steps of a run, one action at a time.
LEMMA InitLifecycle == Init => Lifecycle!LifecycleInit
BY DEF Init, Lifecycle!LifecycleInit, NoRun

LEMMA StepLifecycle ==
  ASSUME TypeInv, WholeRunInv, StopInv, FateInv, [Next]_vars
  PROVE  [Lifecycle!LifecycleNext]_(Lifecycle!lifecycle)
<1> USE SizesAssumption DEF TypeInv, TypeOK, IsRunning, NoRun, Runs, Lifecycle!LifecycleNext, Lifecycle!lifecycle
<1>1. CASE StartRun
  <2>1. run + 1 \in Runs /\ run + 1 \notin stopAsked /\ phase = "none"
    BY <1>1 DEF StartRun, FateInv
  <2>2. Lifecycle!Start
    BY <1>1, <2>1 DEF StartRun, Lifecycle!Start, Lifecycle!Active
  <2>. QED  BY <2>2
<1>2. CASE PauseRun
  <2>1. Lifecycle!Pause
    BY <1>2 DEF PauseRun, Lifecycle!Pause
  <2>. QED  BY <2>1
<1>3. CASE ResumeRun
  <2>1. Lifecycle!Resume
    BY <1>3 DEF ResumeRun, Lifecycle!Resume
  <2>. QED  BY <2>1
<1>4. CASE StopRun
  <2>1. CASE IsRunning
    <3>1. Lifecycle!Stop
      BY <1>4, <2>1 DEF StopRun, Lifecycle!Stop, Lifecycle!Active
    <3>. QED  BY <3>1
  <2>. QED  BY <1>4, <2>1 DEF StopRun
<1>5. ASSUME NEW r \in Runs, CallCancel(r) \/ Deadline(r)
      PROVE  [Lifecycle!LifecycleNext]_(Lifecycle!lifecycle)
  <2>1. CASE r = run /\ ctx[run] = "live"
    <3>1. UNCHANGED <<state, run, phase, runErr, stopAsked>>
      BY <1>5 DEF CallCancel, Deadline
    <3>2. \/ ctx'[run] = "deadline"
          \/ ctx'[run] = "canceled" /\ run \in cancelling
      BY <1>5, <2>1 DEF CallCancel, Deadline, EndCtx
    <3>3. Lifecycle!EndContext
      BY <2>1, <3>1, <3>2 DEF Lifecycle!EndContext, StopInv, Asked
    <3>. QED  BY <3>3
  <2>2. CASE ~(r = run /\ ctx[run] = "live")
    <3>1. UNCHANGED <<state, run, phase, runErr, stopAsked>> /\ (run \in Runs => ctx'[run] = ctx[run])
      BY <1>5, <2>2 DEF CallCancel, Deadline, EndCtx
    <3>. QED  BY <3>1
  <2>. QED  BY <2>1, <2>2
<1>6. ASSUME NEW r \in Runs, Watcher(r)
      PROVE  [Lifecycle!LifecycleNext]_(Lifecycle!lifecycle)
  BY <1>6 DEF Watcher, history
<1>7. CASE ListFails
  <2>1. Lifecycle!Decide
    BY <1>7 DEF ListFails, Lifecycle!Decide, FateInv, control, history
  <2>. QED  BY <2>1
<1>8. ASSUME NEW n \in 0..MaxAccounts, ListAccounts(n)
      PROVE  [Lifecycle!LifecycleNext]_(Lifecycle!lifecycle)
  BY <1>8 DEF ListAccounts, control, history
<1>9. CASE JoinWorkers
  <2>1. UNCHANGED <<state, run, ctx, stopAsked>> /\ run \in Runs /\ phase = "probing"
    BY <1>9 DEF JoinWorkers, control, history
  <2>2. CASE runErr # "none"
    BY <1>9, <2>1, <2>2 DEF JoinWorkers
  <2>3. CASE runErr = "none"
    <3>1. \/ CtxEnded /\ runErr' = ctx[run] /\ phase' = "finishing"
          \/ ~CtxEnded /\ runErr' = "none" /\ phase' = "acting"
      BY <1>9, <2>1, <2>3 DEF JoinWorkers, CtxEnded
    <3>2. CASE CtxEnded /\ runErr' = ctx[run] /\ phase' = "finishing"
      <4>1. ctx[run] \in {"canceled", "deadline"}
        BY <2>1, <3>2 DEF CtxEnded
      <4>2. Lifecycle!Decide
        BY <2>1, <2>3, <3>2, <4>1 DEF Lifecycle!Decide
      <4>. QED  BY <4>2
    <3>3. CASE ~CtxEnded /\ runErr' = "none" /\ phase' = "acting"
      <4>1. ctx[run] = "live"
        BY <2>1, <3>3 DEF CtxEnded
      <4>2. Lifecycle!Decide
        BY <2>1, <2>3, <3>3, <4>1 DEF Lifecycle!Decide
      <4>. QED  BY <4>2
    <3>. QED  BY <3>1, <3>2, <3>3
  <2>. QED  BY <2>2, <2>3
<1>10. CASE ActionsDone
  BY <1>10 DEF ActionsDone, control, history
<1>11. CASE Finish
  <2>1. Lifecycle!End
    BY <1>11 DEF Finish, TerminalState, Lifecycle!End, Lifecycle!EndState, RunError, history
  <2>. QED  BY <2>1
<1>12. ASSUME NEW w \in Workers, Work(w) \/ RefreshReturns(w)
       PROVE  [Lifecycle!LifecycleNext]_(Lifecycle!lifecycle)
  <2>1. UNCHANGED <<control, phase, stopAsked>> /\ pc[w] \notin {"off", "exit"}
    BY <1>12 DEF Work, Inspect, WaitIfPaused, LeaveOnCtx, Claim, EnterProvider, BeginProbe, RefuseAccount,
       EnterRefresh, RefreshReturns, ProbeReturns, LeaveProvider, Settle, Goto, history
  <2>2. phase = "probing"
    BY <2>1 DEF WholeRunInv, PoolInv
  <2>3. runErr' = runErr \/ (CtxEnded /\ runErr = "none" /\ runErr' = ctx[run])
    BY <1>12 DEF Work, Inspect, WaitIfPaused, LeaveOnCtx, Claim, EnterProvider, BeginProbe,
       RefuseAccount, EnterRefresh, RefreshReturns, ProbeReturns, LeaveProvider, Settle
  <2>4. CASE runErr' = runErr
    BY <2>1, <2>4 DEF control
  <2>5. CASE CtxEnded /\ runErr = "none" /\ runErr' = ctx[run]
    <3>1. Lifecycle!Decide
      BY <2>1, <2>2, <2>5 DEF control, CtxEnded, Lifecycle!Decide
    <3>. QED  BY <3>1
  <2>. QED  BY <2>3, <2>4, <2>5
<1>13. CASE UNCHANGED vars
  BY <1>13 DEF vars
<1>. QED
  BY <1>1, <1>2, <1>3, <1>4, <1>5, <1>6, <1>7, <1>8, <1>9, <1>10, <1>11, <1>12, <1>13
  DEF Next, Request, Runner

\* Every behaviour of a run, with all its workers, limiters and late cancel()
\* calls, is a behaviour of the lifecycle the schedule is composed with: its end
\* state tells the cause, and it commits to actions only on a live context.
THEOREM RunImplementsLifecycle == Spec => ImplementsLifecycle
<1>1. TypeInv /\ WholeRunInv /\ StopInv /\ FateInv /\ [Next]_vars
        => [Lifecycle!LifecycleNext]_(Lifecycle!lifecycle)
  BY StepLifecycle
<1>. QED  BY InitType, StepType, InitWholeRun, StepWholeRun, InitStop, StepStop, InitFate,
          StepFate, InitLifecycle, <1>1, PTL DEF Spec, ImplementsLifecycle, Lifecycle!LifecycleSpec

-----------------------------------------------------------------------------
(***************************************************************************)
(* A held run begins no more than what was about to begin. A worker that   *)
(* has begun an account since the run was held must pass the gate before   *)
(* it claims another one, and the gate is closed.                          *)
(***************************************************************************)
Held == state = "paused" \/ CtxEnded

HeldInv ==
  \A w \in Workers : begun[w] <= 1 /\ (Held /\ begun[w] = 1 => pc[w] \notin {"claim", "limiter"})

LEMMA InitHeld == Init => HeldInv
BY DEF Init, HeldInv, NothingBegun

LEMMA StepHeld == TypeInv /\ HeldInv /\ [Next]_vars => HeldInv'
<1> SUFFICES ASSUME TypeInv, HeldInv, [Next]_vars PROVE HeldInv'
  OBVIOUS
<1> USE SizesAssumption DEF TypeInv, TypeOK, Held, CtxEnded, IsRunning, NoRun, Runs
<1>1. CASE begun' = NothingBegun
  BY <1>1 DEF HeldInv, NothingBegun
<1>2. ASSUME begun' = begun, Held' => Held,
             \A w \in Workers : pc'[w] \in {"claim", "limiter"} => pc[w] \in {"claim", "limiter"}
      PROVE  HeldInv'
  BY <1>2 DEF HeldInv
<1>3. CASE StartRun
  BY <1>3, <1>1 DEF StartRun
<1>4. CASE PauseRun
  BY <1>4, <1>1, <1>2 DEF PauseRun, worker
<1>5. CASE ResumeRun
  BY <1>5, <1>1 DEF ResumeRun
<1>6. CASE StopRun
  BY <1>6, <1>2 DEF StopRun, Broadcast
<1>7. ASSUME NEW r \in Runs, CallCancel(r) \/ Deadline(r) PROVE HeldInv'
  <2>1. UNCHANGED <<state, run, pc>>
    BY <1>7 DEF CallCancel, Deadline, worker
  <2>2. begun' = NothingBegun \/ (begun' = begun /\ (run \in Runs => ctx'[run] = ctx[run]))
    BY <1>7 DEF CallCancel, Deadline, EndCtx
  <2>. QED  BY <2>1, <2>2, <1>1, <1>2
<1>8. ASSUME NEW r \in Runs, Watcher(r) PROVE HeldInv'
  BY <1>8, <1>2 DEF Watcher, Broadcast, history
<1>9. CASE ListFails \/ JoinWorkers \/ ActionsDone \/ Finish
  <2>1. UNCHANGED <<run, ctx, pc, begun>> /\ (state' = "paused" => state = "paused")
    BY <1>9 DEF ListFails, JoinWorkers, ActionsDone, Finish, TerminalState, control, worker, history
  <2>. QED  BY <2>1, <1>2
<1>10. ASSUME NEW n \in 0..MaxAccounts, ListAccounts(n) PROVE HeldInv'
  BY <1>10, <1>2 DEF ListAccounts, control, history
<1>11. ASSUME NEW w \in Workers, Work(w) \/ RefreshReturns(w) PROVE HeldInv'
  <2>1. UNCHANGED control
    BY <1>11 DEF Work, Inspect, WaitIfPaused, Claim, EnterProvider, BeginProbe, RefuseAccount,
       EnterRefresh, RefreshReturns, ProbeReturns, LeaveProvider, Settle
  <2>2. CASE WaitIfPaused(w)
    <3>1. begun' = begun
      BY <2>2 DEF WaitIfPaused, history
    <3>2. \E to \in {"exit", "asleep"} : pc' = [pc EXCEPT ![w] = to]
          \/ (~Held /\ pc' = [pc EXCEPT ![w] = "claim"])
      BY <2>2 DEF WaitIfPaused, LeaveOnCtx, Goto
    <3>. QED  BY <2>1, <3>1, <3>2 DEF HeldInv, control
  <2>3. CASE EnterProvider(w)
    <3>1. CASE begun' = begun /\ (pc' = [pc EXCEPT ![w] = "begin"] \/ pc' = [pc EXCEPT ![w] = "exit"])
      BY <2>1, <3>1 DEF HeldInv, control
    <3>2. CASE Held /\ pc[w] = "limiter" /\ pc' = [pc EXCEPT ![w] = "begin"]
               /\ begun' = [begun EXCEPT ![w] = @ + 1]
      BY <2>1, <3>2 DEF HeldInv, control
    <3>. QED  BY <2>3, <3>1, <3>2 DEF EnterProvider, LeaveOnCtx, Goto
  <2>4. CASE Claim(w)
    <3>1. begun' = begun /\ pc[w] = "claim"
          /\ (pc' = [pc EXCEPT ![w] = "exit"] \/ pc' = [pc EXCEPT ![w] = "limiter"])
      BY <2>4 DEF Claim, Goto, history
    <3>. QED  BY <2>1, <3>1, <1>2 DEF control
  <2>5. CASE Inspect(w) \/ RefreshReturns(w)
    <3>1. begun' = begun
          /\ \E to \in {"refreshGate", "refreshing", "probing", "release", "settle", "gate"} :
               pc' = [pc EXCEPT ![w] = to]
      BY <2>5 DEF Inspect, BeginProbe, RefuseAccount, EnterRefresh, RefreshReturns,
         ProbeReturns, LeaveProvider, Settle, Goto, history
    <3>. QED  BY <2>1, <3>1, <1>2 DEF control
  <2>. QED  BY <1>11, <2>2, <2>3, <2>4, <2>5 DEF Work
<1>12. CASE UNCHANGED vars
  BY <1>12, <1>2 DEF vars
<1>. QED
  BY <1>3, <1>4, <1>5, <1>6, <1>7, <1>8, <1>9, <1>10, <1>11, <1>12 DEF Next, Request, Runner

\* A paused or ended run begins at most the one account of each worker that had
\* already passed waitIfPaused, however pauses, stops and cancel() calls mix.
THEOREM HeldRunsHold == Spec => []HeldRunBeginsNoMore
<1>1. HeldInv => HeldRunBeginsNoMore
  BY DEF HeldInv, HeldRunBeginsNoMore
<1>. QED  BY InitType, StepType, InitHeld, StepHeld, <1>1, PTL DEF Spec

-----------------------------------------------------------------------------
(***************************************************************************)
(* The published progress. Its three numbers follow two counts of workers  *)
(* and one of results; that they never exceed the total is a pigeonhole    *)
(* argument: the workers that hold an account hold different ones, all     *)
(* claimed, and none of them with a result.                                *)
(***************************************************************************)
Probing  == {"refreshGate", "refreshing", "probing"}
Settling == {"release", "settle"}
WorkersAt(f, places) == {w \in Workers : f[w] \in places}

PlaceInv ==
  phase = "probing" =>
    /\ \A i \in Accounts : outcome[i] # "none" => i <= total /\ i <= cursor
    /\ \A w \in Workers : Holding(w) =>
         at[w] \in 1..total /\ at[w] <= cursor /\ outcome[at[w]] = "none"
    /\ \A v, w \in Workers : Holding(v) /\ Holding(w) /\ at[v] = at[w] => v = w

TallyInv ==
  /\ phase = "listing" => progress.completed = 0
  /\ phase = "probing" =>
       /\ progress.inFlight = Cardinality(WorkersAt(pc, Probing \cup Settling))
       /\ progress.completed + Cardinality(WorkersAt(pc, Settling)) = Cardinality(Reported(outcome))
       /\ progress.completed + progress.inFlight + progress.pending = total
  /\ phase \in {"acting", "finishing"} =>
       /\ progress.completed = Cardinality(Reported(outcome))
       /\ runErr = "none" => Reported(outcome) = 1..total
  /\ phase = "none" => progress.completed = Cardinality(Reported(report))

LEMMA WorkersAreFinite ==
  ASSUME NEW S \in SUBSET Workers
  PROVE  IsFiniteSet(S) /\ Cardinality(S) \in Nat
<1>1. IsFiniteSet(Workers)
  BY SizesAssumption, FS_Interval DEF Workers
<1>. QED  BY <1>1, FS_Subset, FS_CardinalityType

\* One worker moves: it enters the places, leaves them, or neither.
LEMMA MoveCounts ==
  ASSUME NEW places, NEW w \in Workers, NEW to, pc \in [Workers -> WorkerPc],
         pc' = [pc EXCEPT ![w] = to]
  PROVE  Cardinality(WorkersAt(pc', places)) =
           Cardinality(WorkersAt(pc, places))
             + (IF to \in places THEN 1 ELSE 0) - (IF pc[w] \in places THEN 1 ELSE 0)
<1> DEFINE S == WorkersAt(pc, places)
           T == WorkersAt(pc', places)
<1>1. IsFiniteSet(S) /\ Cardinality(S) \in Nat
  BY WorkersAreFinite DEF WorkersAt
<1>2. w \in S <=> pc[w] \in places
  BY DEF WorkersAt
<1>3. T = IF to \in places THEN S \cup {w} ELSE S \ {w}
  BY DEF WorkersAt
<1> HIDE DEF S, T
<1>4. CASE to \in places
  <2>1. Cardinality(S \cup {w}) = IF w \in S THEN Cardinality(S) ELSE Cardinality(S) + 1
    BY <1>1, FS_AddElement
  <2>2. Cardinality(T) = Cardinality(S \cup {w})
    BY <1>3, <1>4
  <2>3. Cardinality(T) = Cardinality(S) + 1 - (IF pc[w] \in places THEN 1 ELSE 0)
    BY <1>1, <1>2, <2>1, <2>2
  <2>. QED  BY <1>4, <2>3, <1>1 DEF S, T
<1>5. CASE to \notin places
  <2>1. Cardinality(S \ {w}) = IF w \in S THEN Cardinality(S) - 1 ELSE Cardinality(S)
    BY <1>1, FS_RemoveElement
  <2>2. Cardinality(T) = Cardinality(S \ {w})
    BY <1>3, <1>5
  <2>3. Cardinality(T) = Cardinality(S) + 0 - (IF pc[w] \in places THEN 1 ELSE 0)
    BY <1>1, <1>2, <2>1, <2>2
  <2>. QED  BY <1>5, <2>3, <1>1 DEF S, T
<1>. QED  BY <1>4, <1>5

\* An account that had no result gets one.
LEMMA ResultCounts ==
  ASSUME NEW i \in Accounts, NEW res \in {"done", "cancelled"}, TypeOK, outcome[i] = "none",
         outcome' = [outcome EXCEPT ![i] = res]
  PROVE  Cardinality(Reported(outcome')) = Cardinality(Reported(outcome)) + 1
<1>1. Reported(outcome') = Reported(outcome) \cup {i} /\ i \notin Reported(outcome)
  BY DEF Reported, TypeOK
<1>2. IsFiniteSet(Reported(outcome))
  <2>1. IsFiniteSet(Accounts)
    BY SizesAssumption, FS_Interval DEF Accounts
  <2>. QED  BY <2>1, FS_Subset DEF Reported
<1>. QED  BY <1>1, <1>2, FS_AddElement

\* The pigeonhole: results and held accounts are different accounts of the list.
LEMMA HeldAndReportedFit ==
  ASSUME TypeInv, PlaceInv, phase = "probing", NEW H \in SUBSET Workers,
         \A w \in H : Holding(w)
  PROVE  Cardinality(Reported(outcome)) + Cardinality(H) <= total
<1> DEFINE R    == Reported(outcome)
           Free == (1..total) \ R
           f    == [w \in H |-> at[w]]
<1>1. total \in Nat /\ IsFiniteSet(1..total) /\ Cardinality(1..total) = total
  BY FS_Interval DEF TypeInv, TypeOK
<1>2. R \subseteq 1..total
  BY SizesAssumption DEF PlaceInv, Reported, Accounts, TypeInv, TypeOK
<1>3. IsFiniteSet(Free) /\ Cardinality(Free) = total - Cardinality(R)
  <2>1. (1..total) \cap R = R
    BY <1>2
  <2>2. Cardinality((1..total) \ R) = Cardinality(1..total) - Cardinality((1..total) \cap R)
        /\ IsFiniteSet((1..total) \ R)
    BY <1>1, FS_Difference
  <2>. QED  BY <1>1, <2>1, <2>2
<1>4. f \in [H -> Free]
  <2>1. ASSUME NEW w \in H PROVE at[w] \in Free
    BY <2>1 DEF PlaceInv, Reported
  <2>. QED  BY <2>1
<1>5. \A v, w \in H : f[v] = f[w] => v = w
  BY DEF PlaceInv
<1>6. IsFiniteSet(H) /\ Cardinality(H) \in Nat /\ Cardinality(Free) \in Nat /\ Cardinality(R) \in Nat
  BY <1>3, WorkersAreFinite, ReportedIsCounted, FS_CardinalityType DEF Reported
<1>7. ~(Cardinality(Free) < Cardinality(H))
  <2> HIDE DEF f, Free
  <2>. QED  BY <1>3, <1>4, <1>5, <1>6, FS_PigeonHole
<1> HIDE DEF Free, f
<1>. QED  BY <1>1, <1>3, <1>6, <1>7

LEMMA InitTally == Init => PlaceInv /\ TallyInv
<1> SUFFICES ASSUME Init PROVE PlaceInv /\ TallyInv
  OBVIOUS
<1>1. Reported(report) = {} /\ progress.completed = 0 /\ phase = "none"
  BY DEF Init, Reported, NoOutcome, ProgressOf
<1>. QED  BY <1>1, FS_EmptySet DEF PlaceInv, TallyInv

\* The steps that leave the pool, its results and its counters alone.
LEMMA ControlKeepsTally ==
  ASSUME TypeInv, PlaceInv, TallyInv, phase' = phase, total' = total, cursor' = cursor,
         outcome' = outcome, at' = at, progress' = progress, report' = report,
         runErr' = runErr, pc' = pc \/ Broadcast
  PROVE  PlaceInv' /\ TallyInv'
<1> USE DEF TypeInv, TypeOK
<1>1. \A w \in Workers : Holding(w)' <=> Holding(w)
  BY DEF Broadcast, Holding
<1>2. WorkersAt(pc', Settling) = WorkersAt(pc, Settling)
  BY DEF Broadcast, WorkersAt, Settling
<1>3. WorkersAt(pc', Probing \cup Settling) = WorkersAt(pc, Probing \cup Settling)
  BY DEF Broadcast, WorkersAt, Settling, Probing
<1>4. PlaceInv'
  BY <1>1 DEF PlaceInv
<1>5. TallyInv'
  BY <1>2, <1>3 DEF TallyInv
<1>. QED  BY <1>4, <1>5

\* A worker moves without a result and without touching the counters.
LEMMA QuietMove ==
  ASSUME TypeInv, PlaceInv, TallyInv, NEW w \in Workers, NEW from \in WorkerPc, NEW to \in WorkerPc,
         Goto(w, from, to), phase = "probing", phase' = phase, total' = total,
         cursor' \in Nat, cursor' >= cursor, outcome' = outcome, at' = at, progress' = progress,
         from \in Settling <=> to \in Settling,
         from \in Probing \cup Settling <=> to \in Probing \cup Settling,
         to \in {"begin", "refreshing", "probing"} =>
           from \in {"limiter", "refreshGate", "refreshing"},
         to \notin {"limiter", "refreshGate"}
  PROVE  PlaceInv' /\ TallyInv'
<1> USE DEF TypeInv, TypeOK
<1>1. pc' = [pc EXCEPT ![w] = to] /\ pc[w] = from
  BY DEF Goto
<1>2. \A v \in Workers : Holding(v)' => Holding(v)
  BY <1>1 DEF Holding
<1>3. Cardinality(WorkersAt(pc', Settling)) = Cardinality(WorkersAt(pc, Settling))
  <2>1. Cardinality(WorkersAt(pc, Settling)) \in Nat
    BY WorkersAreFinite DEF WorkersAt
  <2>2. Cardinality(WorkersAt(pc', Settling)) = Cardinality(WorkersAt(pc, Settling))
          + (IF to \in Settling THEN 1 ELSE 0) - (IF pc[w] \in Settling THEN 1 ELSE 0)
    BY <1>1, MoveCounts
  <2>. QED  BY <1>1, <2>1, <2>2
<1>4. Cardinality(WorkersAt(pc', Probing \cup Settling)) = Cardinality(WorkersAt(pc, Probing \cup Settling))
  <2> DEFINE Busy == Probing \cup Settling
  <2>1. Cardinality(WorkersAt(pc, Busy)) \in Nat
    BY WorkersAreFinite DEF WorkersAt
  <2>2. Cardinality(WorkersAt(pc', Busy)) = Cardinality(WorkersAt(pc, Busy))
          + (IF to \in Busy THEN 1 ELSE 0) - (IF pc[w] \in Busy THEN 1 ELSE 0)
    BY <1>1, MoveCounts
  <2>3. to \in Busy <=> pc[w] \in Busy
    BY <1>1
  <2> HIDE DEF Busy
  <2>4. Cardinality(WorkersAt(pc', Busy)) = Cardinality(WorkersAt(pc, Busy))
    BY <2>1, <2>2, <2>3
  <2>. QED  BY <2>4 DEF Busy
<1>5. PlaceInv'
  BY <1>2, SizesAssumption DEF PlaceInv, Accounts
<1>6. TallyInv'
  BY <1>3, <1>4 DEF TallyInv
<1>. QED  BY <1>5, <1>6

\* A worker records a result and goes to release its provider slot.
ResultStep(w) ==
  /\ pc[w] \in Probing
  /\ pc' = [pc EXCEPT ![w] = "release"]
  /\ \E res \in {"done", "cancelled"} : outcome' = [outcome EXCEPT ![at[w]] = res]

LEMMA ResultKeepsTally ==
  ASSUME TypeInv, PlaceInv, TallyInv, NEW w \in Workers, ResultStep(w), phase = "probing",
         UNCHANGED <<phase, total, cursor, at, progress>>
  PROVE  PlaceInv' /\ TallyInv'
<1> USE DEF TypeInv, TypeOK
<1>1. pc' = [pc EXCEPT ![w] = "release"] /\ pc[w] \in Probing
  BY DEF ResultStep
<1>2. PICK res \in {"done", "cancelled"} : outcome' = [outcome EXCEPT ![at[w]] = res]
  BY DEF ResultStep
<1>3. Holding(w) /\ at[w] \in 1..total /\ at[w] <= cursor /\ outcome[at[w]] = "none"
      /\ at[w] \in Accounts
  <2>1. Holding(w)
    BY <1>1 DEF Holding, Probing
  <2>. QED  BY <2>1, SizesAssumption DEF PlaceInv, Accounts
<1>4. \A v \in Workers : Holding(v)' => Holding(v) /\ v # w
  BY <1>1 DEF Holding
<1>5. PlaceInv'
  <2>1. ASSUME NEW i \in Accounts, outcome'[i] # "none" PROVE i <= total /\ i <= cursor
    BY <2>1, <1>2, <1>3 DEF PlaceInv
  <2>2. ASSUME NEW v \in Workers, Holding(v)'
        PROVE  at[v] \in 1..total /\ at[v] <= cursor /\ outcome'[at[v]] = "none"
    <3>1. Holding(v) /\ at[v] # at[w] /\ at[v] \in 1..total /\ at[v] <= cursor
          /\ outcome[at[v]] = "none"
      BY <1>3, <1>4, <2>2 DEF PlaceInv
    <3>2. outcome'[at[v]] = outcome[at[v]]
      BY <1>2, <3>1, SizesAssumption DEF Accounts
    <3>. QED  BY <3>1, <3>2
  <2>3. \A u, v \in Workers : Holding(u)' /\ Holding(v)' /\ at[u] = at[v] => u = v
    BY <1>4 DEF PlaceInv
  <2>. QED  BY <2>1, <2>2, <2>3 DEF PlaceInv
<1>6. Cardinality(Reported(outcome')) = Cardinality(Reported(outcome)) + 1
  BY <1>2, <1>3, ResultCounts
<1>7. Cardinality(WorkersAt(pc', Settling)) = Cardinality(WorkersAt(pc, Settling)) + 1
  <2>1. Cardinality(WorkersAt(pc, Settling)) \in Nat
    BY WorkersAreFinite DEF WorkersAt
  <2>2. Cardinality(WorkersAt(pc', Settling)) = Cardinality(WorkersAt(pc, Settling))
          + (IF "release" \in Settling THEN 1 ELSE 0) - (IF pc[w] \in Settling THEN 1 ELSE 0)
    BY <1>1, MoveCounts
  <2>3. "release" \in Settling /\ pc[w] \notin Settling
    BY <1>1 DEF Settling, Probing
  <2>. QED  BY <2>1, <2>2, <2>3
<1>8. Cardinality(WorkersAt(pc', Probing \cup Settling)) = Cardinality(WorkersAt(pc, Probing \cup Settling))
  <2>1. WorkersAt(pc', Probing \cup Settling) = WorkersAt(pc, Probing \cup Settling)
    BY <1>1 DEF WorkersAt, Settling, Probing
  <2>. QED  BY <2>1
<1>9. Cardinality(WorkersAt(pc, Settling)) \in Nat /\ Cardinality(Reported(outcome)) \in Nat
      /\ progress.completed \in Nat
  BY WorkersAreFinite, ReportedIsCounted DEF WorkersAt, Reported, Progress
<1>10. TallyInv'
  BY <1>6, <1>7, <1>8, <1>9 DEF TallyInv
<1>. QED  BY <1>5, <1>10

\* A worker begins an account: one more in flight.
LEMMA BeginKeepsTally ==
  ASSUME TypeInv, PlaceInv, TallyInv, NEW w \in Workers, BeginProbe(w), phase = "probing"
  PROVE  PlaceInv' /\ TallyInv'
<1> USE DEF TypeInv, TypeOK
<1> DEFINE Busy == Probing \cup Settling
           Ahead == WorkersAt(pc', Probing)
<1>1. /\ pc' = [pc EXCEPT ![w] = "refreshGate"] /\ pc[w] = "begin"
      /\ progress' = ProgressOf(total, progress.completed, progress.inFlight + 1)
      /\ UNCHANGED <<phase, total, cursor, outcome, at>>
  BY DEF BeginProbe, Goto, control
<1>2. \A v \in Workers : Holding(v)' <=> Holding(v)
  BY <1>1 DEF Holding
<1>3. PlaceInv'
  BY <1>1, <1>2 DEF PlaceInv
<1>4. Cardinality(WorkersAt(pc', Settling)) = Cardinality(WorkersAt(pc, Settling))
  <2>1. WorkersAt(pc', Settling) = WorkersAt(pc, Settling)
    BY <1>1 DEF WorkersAt, Settling
  <2>. QED  BY <2>1
<1>5. Cardinality(WorkersAt(pc', Busy)) = Cardinality(WorkersAt(pc, Busy)) + 1
  <2>1. Cardinality(WorkersAt(pc, Busy)) \in Nat
    BY WorkersAreFinite DEF WorkersAt
  <2>2. Cardinality(WorkersAt(pc', Busy)) = Cardinality(WorkersAt(pc, Busy))
          + (IF "refreshGate" \in Busy THEN 1 ELSE 0) - (IF pc[w] \in Busy THEN 1 ELSE 0)
    BY <1>1, MoveCounts
  <2>3. "refreshGate" \in Busy /\ pc[w] \notin Busy
    BY <1>1 DEF Settling, Probing
  <2> HIDE DEF Busy
  <2>. QED  BY <2>1, <2>2, <2>3
<1>6. Cardinality(WorkersAt(pc', Busy)) =
        Cardinality(Ahead) + Cardinality(WorkersAt(pc', Settling))
  <2>1. WorkersAt(pc', Busy) = Ahead \cup WorkersAt(pc', Settling)
    BY DEF WorkersAt
  <2>2. Ahead \cap WorkersAt(pc', Settling) = {}
    BY DEF WorkersAt, Probing, Settling
  <2>3. IsFiniteSet(Ahead) /\ IsFiniteSet(WorkersAt(pc', Settling))
        /\ Cardinality(Ahead) \in Nat /\ Cardinality(WorkersAt(pc', Settling)) \in Nat
    BY WorkersAreFinite DEF WorkersAt
  <2> HIDE DEF Ahead, Busy
  <2>4. Cardinality(Ahead \cup WorkersAt(pc', Settling)) =
          Cardinality(Ahead) + Cardinality(WorkersAt(pc', Settling)) - Cardinality({})
    BY <2>2, <2>3, FS_Union
  <2>. QED  BY <2>1, <2>3, <2>4, FS_EmptySet
<1>7. Cardinality(Reported(outcome)) + Cardinality(Ahead) <= total
  <2>1. Ahead \subseteq Workers /\ \A v \in Ahead : Holding(v)
    BY <1>1, <1>2 DEF WorkersAt, Probing, Holding
  <2>. QED  BY <2>1, HeldAndReportedFit
<1>8. Cardinality(WorkersAt(pc, Settling)) \in Nat /\ Cardinality(Reported(outcome)) \in Nat
      /\ Cardinality(Ahead) \in Nat /\ progress.completed \in Nat /\ Cardinality(WorkersAt(pc, Busy)) \in Nat
  BY WorkersAreFinite, ReportedIsCounted DEF WorkersAt, Reported, Progress
<1> HIDE DEF Ahead
<1>9. progress.inFlight = Cardinality(WorkersAt(pc, Busy))
      /\ progress.completed + Cardinality(WorkersAt(pc, Settling)) = Cardinality(Reported(outcome))
  BY DEF TallyInv
<1> HIDE DEF Busy
<1>10. progress.completed + (progress.inFlight + 1) <= total
  BY <1>4, <1>5, <1>6, <1>7, <1>8, <1>9
<1>11. /\ progress'.inFlight = progress.inFlight + 1
       /\ progress'.completed = progress.completed
       /\ progress'.completed + progress'.inFlight + progress'.pending = total
  BY <1>1, <1>8, <1>9, <1>10 DEF ProgressOf
<1>12. TallyInv'
  BY <1>1, <1>4, <1>5, <1>9, <1>11 DEF TallyInv, Busy
<1>. QED  BY <1>3, <1>12

\* A worker settles an account: one less in flight, one more completed.
LEMMA SettleKeepsTally ==
  ASSUME TypeInv, PlaceInv, TallyInv, NEW w \in Workers, Settle(w), phase = "probing"
  PROVE  PlaceInv' /\ TallyInv'
<1> USE DEF TypeInv, TypeOK
<1> DEFINE Busy == Probing \cup Settling
<1>1. /\ pc' = [pc EXCEPT ![w] = "gate"] /\ pc[w] = "settle"
      /\ progress' = ProgressOf(total, progress.completed + 1, progress.inFlight - 1)
      /\ UNCHANGED <<phase, total, cursor, outcome, at>>
  BY DEF Settle, Goto, control
<1>2. \A v \in Workers : Holding(v)' <=> Holding(v)
  BY <1>1 DEF Holding
<1>3. PlaceInv'
  BY <1>1, <1>2 DEF PlaceInv
<1>4. Cardinality(WorkersAt(pc, Settling)) \in Nat /\ Cardinality(WorkersAt(pc, Busy)) \in Nat
  BY WorkersAreFinite DEF WorkersAt
<1>5. "gate" \notin Busy /\ pc[w] \in Busy /\ "gate" \notin Settling /\ pc[w] \in Settling
  BY <1>1 DEF Settling, Probing
<1>6. Cardinality(WorkersAt(pc', Settling)) = Cardinality(WorkersAt(pc, Settling)) - 1
  <2>1. Cardinality(WorkersAt(pc', Settling)) = Cardinality(WorkersAt(pc, Settling))
          + (IF "gate" \in Settling THEN 1 ELSE 0) - (IF pc[w] \in Settling THEN 1 ELSE 0)
    BY <1>1, MoveCounts
  <2>. QED  BY <1>4, <1>5, <2>1
<1>7. Cardinality(WorkersAt(pc', Busy)) = Cardinality(WorkersAt(pc, Busy)) - 1
  <2>1. Cardinality(WorkersAt(pc', Busy)) = Cardinality(WorkersAt(pc, Busy))
          + (IF "gate" \in Busy THEN 1 ELSE 0) - (IF pc[w] \in Busy THEN 1 ELSE 0)
    BY <1>1, MoveCounts
  <2> HIDE DEF Busy
  <2>. QED  BY <1>4, <1>5, <2>1
<1>8. /\ progress.inFlight = Cardinality(WorkersAt(pc, Busy))
      /\ progress.completed + Cardinality(WorkersAt(pc, Settling)) = Cardinality(Reported(outcome))
      /\ progress.completed + progress.inFlight + progress.pending = total
      /\ progress.completed \in Nat /\ progress.pending \in Nat
      /\ Cardinality(Reported(outcome)) \in Nat
  BY ReportedIsCounted DEF TallyInv, Progress, Reported
<1> HIDE DEF Busy
<1>9. /\ progress'.inFlight = progress.inFlight - 1
      /\ progress'.completed = progress.completed + 1
      /\ progress'.completed + progress'.inFlight + progress'.pending = total
  BY <1>1, <1>4, <1>8 DEF ProgressOf
<1>10. progress'.completed + Cardinality(WorkersAt(pc', Settling)) = Cardinality(Reported(outcome))
  BY <1>4, <1>6, <1>8, <1>9
<1>11. TallyInv'
  BY <1>1, <1>4, <1>7, <1>8, <1>9, <1>10 DEF TallyInv, Busy
<1>. QED  BY <1>3, <1>11

LEMMA StepTally ==
  TypeInv /\ WholeRunInv /\ FateInv /\ PlaceInv /\ TallyInv /\ [Next]_vars => PlaceInv' /\ TallyInv'
<1> SUFFICES ASSUME TypeInv, WholeRunInv, FateInv, PlaceInv, TallyInv, [Next]_vars
             PROVE  PlaceInv' /\ TallyInv'
  OBVIOUS
<1> USE DEF TypeInv, TypeOK
<1>1. CASE StartRun
  <2>1. phase' = "listing" /\ progress'.completed = 0
    BY <1>1 DEF StartRun, ProgressOf
  <2>. QED  BY <2>1 DEF PlaceInv, TallyInv
<1>2. CASE PauseRun \/ ResumeRun \/ StopRun
  BY <1>2, ControlKeepsTally DEF PauseRun, ResumeRun, StopRun, worker
<1>3. ASSUME NEW r \in Runs, CallCancel(r) \/ Deadline(r) \/ Watcher(r)
      PROVE  PlaceInv' /\ TallyInv'
  BY <1>3, ControlKeepsTally DEF CallCancel, Deadline, Watcher, worker
<1>4. CASE ListFails
  <2>1. phase = "listing" /\ phase' = "finishing" /\ runErr' = "failed"
        /\ UNCHANGED <<outcome, progress>>
    BY <1>4 DEF ListFails
  <2>2. Reported(outcome) = {}
    BY <2>1 DEF WholeRunInv, ListingInv, NoOutcome, Reported
  <2>. QED  BY <2>1, <2>2, FS_EmptySet DEF PlaceInv, TallyInv
<1>5. ASSUME NEW n \in 0..MaxAccounts, ListAccounts(n) PROVE PlaceInv' /\ TallyInv'
  <2>1. /\ phase' = "probing" /\ total' = n /\ outcome' = NoOutcome /\ progress' = ProgressOf(n, 0, 0)
        /\ \A w \in Workers : pc'[w] \in {"gate", "off"}
    BY <1>5 DEF ListAccounts, WholeRunInv, ListingInv
  <2>2. WorkersAt(pc', Settling) = {} /\ WorkersAt(pc', Probing \cup Settling) = {}
        /\ Reported(outcome') = {}
    BY <2>1 DEF WorkersAt, Probing, Settling, Reported, NoOutcome
  <2>3. n \in Nat /\ progress'.completed = 0 /\ progress'.inFlight = 0 /\ progress'.pending = n
    BY <2>1, SizesAssumption DEF ProgressOf
  <2>4. PlaceInv'
    BY <2>1 DEF PlaceInv, NoOutcome, Holding
  <2>5. Cardinality(WorkersAt(pc', Settling)) = 0 /\ Cardinality(Reported(outcome')) = 0
        /\ Cardinality(WorkersAt(pc', Probing \cup Settling)) = 0
    BY <2>2, FS_EmptySet
  <2>6. progress'.completed + progress'.inFlight + progress'.pending = total'
    BY <2>1, <2>3
  <2>7. TallyInv'
    BY <2>1, <2>3, <2>5, <2>6 DEF TallyInv
  <2>. QED  BY <2>4, <2>7
<1>6. CASE JoinWorkers
  <2>1. /\ phase = "probing" /\ phase' \in {"acting", "finishing"}
        /\ UNCHANGED <<total, outcome, progress>>
        /\ runErr' = "none" => phase' = "acting"
        /\ \A w \in Workers : pc[w] \in {"off", "exit"}
    BY <1>6 DEF JoinWorkers
  <2>2. WorkersAt(pc, Settling) = {}
    BY <2>1 DEF WorkersAt, Settling
  <2>3. progress.completed = Cardinality(Reported(outcome))
    <3>1. progress.completed \in Nat /\ Cardinality(Reported(outcome)) \in Nat
      BY ReportedIsCounted DEF Progress, Reported
    <3>. QED  BY <2>1, <2>2, <3>1, FS_EmptySet DEF TallyInv
  <2>4. ASSUME runErr' = "none" PROVE Reported(outcome) = 1..total
    <3>1. \A i \in 1..total : outcome'[i] = "done"
      <4>1. WholeRunInv'
        BY StepWholeRun
      <4>. QED  BY <2>1, <2>4, <4>1 DEF WholeRunInv, ActionsSeeWholeRun
    <3>2. \A i \in Accounts : outcome[i] # "none" => i <= total
      BY <2>1 DEF PlaceInv
    <3>. QED  BY <2>1, <3>1, <3>2, SizesAssumption DEF Reported, Accounts
  <2>. QED  BY <2>1, <2>3, <2>4 DEF PlaceInv, TallyInv
<1>7. CASE ActionsDone
  BY <1>7 DEF ActionsDone, PlaceInv, TallyInv
<1>8. CASE Finish
  <2> DEFINE found == Cardinality(Reported(outcome))
  <2>1. phase = "finishing" /\ progress.completed = found
        /\ (runErr = "none" => Reported(outcome) = 1..total)
    BY <1>8 DEF Finish, TallyInv
  <2>2. found \in Nat
    BY ReportedIsCounted DEF Reported
  <2>3. runErr = "none" => found = total
    BY <2>1, FS_Interval
  <2>4. phase' = "none" /\ report' = outcome /\ progress'.completed =
          IF runErr = "none" THEN total
          ELSE IF progress.completed > found THEN found ELSE progress.completed
    BY <1>8 DEF Finish
  <2> HIDE DEF found
  <2>5. progress'.completed = found
    BY <2>1, <2>2, <2>3, <2>4
  <2>. QED  BY <2>4, <2>5 DEF found, PlaceInv, TallyInv
<1>9. ASSUME NEW w \in Workers, Work(w) \/ RefreshReturns(w) PROVE PlaceInv' /\ TallyInv'
  <2>1. phase = "probing" /\ UNCHANGED <<control, phase, total>>
    <3>1. pc[w] \notin {"off", "exit"}
      BY <1>9 DEF Work, Inspect, WaitIfPaused, LeaveOnCtx, Claim, EnterProvider, BeginProbe,
         RefuseAccount, EnterRefresh, RefreshReturns, ProbeReturns, LeaveProvider, Settle, Goto
    <3>2. phase = "probing"
      BY <3>1 DEF WholeRunInv, PoolInv
    <3>. QED
      BY <3>2, <1>9 DEF Work, Inspect, WaitIfPaused, Claim, EnterProvider, BeginProbe,
         RefuseAccount, EnterRefresh, RefreshReturns, ProbeReturns, LeaveProvider, Settle
  <2> USE DEF WorkerPc, Probing, Settling
  <2>2. CASE WaitIfPaused(w)
    <3>1. UNCHANGED <<cursor, outcome, at, progress>> /\ cursor >= cursor
      BY <2>2 DEF WaitIfPaused
    <3>2. \E to \in {"exit", "asleep", "claim"} : Goto(w, "gate", to)
      BY <2>2 DEF WaitIfPaused, LeaveOnCtx
    <3>. QED  BY <2>1, <3>1, <3>2, QuietMove
  <2>3. CASE Claim(w)
    <3>1. CASE cursor >= total /\ Goto(w, "claim", "exit") /\ UNCHANGED at
      <4>1. UNCHANGED <<outcome, progress>> /\ cursor' \in Nat /\ cursor' >= cursor
        BY <2>3 DEF Claim
      <4>. QED  BY <2>1, <3>1, <4>1, QuietMove
    <3>2. CASE cursor < total /\ Goto(w, "claim", "limiter") /\ at' = [at EXCEPT ![w] = cursor + 1]
      <4>1. UNCHANGED <<outcome, progress>> /\ cursor' = cursor + 1
        BY <2>3 DEF Claim
      <4>2. pc' = [pc EXCEPT ![w] = "limiter"] /\ pc[w] = "claim"
        BY <3>2 DEF Goto
      <4>3. \A v \in Workers \ {w} : (Holding(v)' <=> Holding(v)) /\ at'[v] = at[v]
        BY <3>2, <4>2 DEF Holding
      <4>4. at'[w] = cursor + 1 /\ cursor + 1 \in 1..total /\ cursor + 1 \in Accounts
        BY <3>2, SizesAssumption DEF Accounts
      <4>5. outcome[cursor + 1] = "none"
        BY <2>1, <4>4 DEF PlaceInv
      <4>6. PlaceInv'
        <5>1. ASSUME NEW i \in Accounts, outcome'[i] # "none" PROVE i <= total' /\ i <= cursor'
          BY <2>1, <4>1, <5>1, SizesAssumption DEF PlaceInv, Accounts
        <5>2. ASSUME NEW v \in Workers, Holding(v)'
              PROVE  at'[v] \in 1..total' /\ at'[v] <= cursor' /\ outcome'[at'[v]] = "none"
          BY <2>1, <4>1, <4>3, <4>4, <4>5, <5>2 DEF PlaceInv
        <5>3. ASSUME NEW u \in Workers, NEW v \in Workers, Holding(u)', Holding(v)', at'[u] = at'[v]
              PROVE  u = v
          BY <2>1, <4>3, <4>4, <5>3 DEF PlaceInv
        <5>. QED  BY <5>1, <5>2, <5>3 DEF PlaceInv
      <4>7. WorkersAt(pc', Settling) = WorkersAt(pc, Settling)
            /\ WorkersAt(pc', Probing \cup Settling) = WorkersAt(pc, Probing \cup Settling)
        BY <4>2 DEF WorkersAt
      <4>8. TallyInv'
        BY <2>1, <4>1, <4>7 DEF TallyInv
      <4>. QED  BY <4>6, <4>8
    <3>. QED  BY <2>3, <3>1, <3>2 DEF Claim
  <2>4. CASE EnterProvider(w)
    <3>1. UNCHANGED <<cursor, outcome, at, progress>> /\ cursor >= cursor
      BY <2>4 DEF EnterProvider
    <3>2. Goto(w, "limiter", "begin") \/ Goto(w, "limiter", "exit")
      BY <2>4 DEF EnterProvider, LeaveOnCtx
    <3>. QED  BY <2>1, <3>1, <3>2, QuietMove
  <2>5. CASE BeginProbe(w)
    BY <2>1, <2>5, BeginKeepsTally
  <2>6. CASE RefuseAccount(w) \/ EnterRefresh(w) \/ RefreshReturns(w) \/ ProbeReturns(w)
    <3>1. UNCHANGED <<cursor, at, progress>> /\ cursor >= cursor
      BY <2>6 DEF RefuseAccount, EnterRefresh, RefreshReturns, ProbeReturns
    <3>2. \/ ResultStep(w)
          \/ UNCHANGED outcome /\ Goto(w, "refreshGate", "refreshing")
          \/ UNCHANGED outcome /\ Goto(w, "refreshing", "probing")
      BY <2>6 DEF RefuseAccount, EnterRefresh, RefreshReturns, ProbeReturns, Goto, ResultStep
    <3>. QED  BY <2>1, <3>1, <3>2, ResultKeepsTally, QuietMove
  <2>7. CASE LeaveProvider(w)
    <3>1. UNCHANGED <<cursor, outcome, at, progress>> /\ cursor >= cursor
          /\ Goto(w, "release", "settle")
      BY <2>7 DEF LeaveProvider
    <3>. QED  BY <2>1, <3>1, QuietMove
  <2>8. CASE Settle(w)
    BY <2>1, <2>8, SettleKeepsTally
  <2>. QED  BY <1>9, <2>2, <2>3, <2>4, <2>5, <2>6, <2>7, <2>8 DEF Work, Inspect
<1>10. CASE UNCHANGED vars
  BY <1>10, ControlKeepsTally DEF vars
<1>. QED
  BY <1>1, <1>2, <1>3, <1>4, <1>5, <1>6, <1>7, <1>8, <1>9, <1>10 DEF Next, Request, Runner

\* The published progress counts the work: in flight, completed and pending add
\* up while the run probes, and a finished run reports the results it has.
THEOREM ProgressIsHonest == Spec => []ProgressMatchesWork
<1>1. TallyInv => ProgressMatchesWork
  BY DEF TallyInv, ProgressMatchesWork, WorkersAt, Probing, Settling
<1>. QED  BY InitType, StepType, InitWholeRun, StepWholeRun, InitFate, StepFate, InitTally,
          StepTally, <1>1, PTL DEF Spec
=============================================================================
