--------------------------- MODULE InspectionResults ---------------------------
(***************************************************************************)
(* The list of results the scheduler keeps in memory, its counters, and    *)
(* the requests that edit it while a run may be replacing it: a single     *)
(* account inspected again, a token refreshed now, a batch of manual       *)
(* actions. Each of them reads or changes the accounts first, without the  *)
(* scheduler's lock, and merges what it found later, under the lock.       *)
(*                                                                         *)
(* The counters are kept by adding and subtracting single results; one     *)
(* map from cells to numbers stands for status.Summary and healthCounts.   *)
(***************************************************************************)
EXTENDS Integers, FiniteSets

CONSTANTS
  Accounts,   \* the keys of the results: file name and auth index
  FileOf,     \* the auth file of each account
  Pools,      \* bound: the sets of accounts that may exist at first
  Requests,   \* bound: the requests that may be in flight at a time
  AtATime,    \* bound: how many of them, when one names the account
  ManualOn,   \* bound: the actions clients ask for, of each account
  VerdictsOf  \* bound: what inspections may find of each account

Action == {"keep", "disable", "enable", "delete"}
Manual  == {"disable", "enable", "delete"}
Verdict == [action : Action, error : BOOLEAN, quota : BOOLEAN, denied : BOOLEAN]

ASSUME ResultsAssumption ==
  /\ IsFiniteSet(Accounts)
  /\ \A a \in Accounts : ManualOn[a] \subseteq Manual
  /\ \A a \in Accounts : VerdictsOf[a] \subseteq Verdict

\* denied: the status code is an account error; failed: ExecuteError is set.
Row == [action : Action, error : BOOLEAN, quota : BOOLEAN, denied : BOOLEAN,
        disabled : BOOLEAN, executed : BOOLEAN, failed : BOOLEAN]

IsRowMap(rs) == DOMAIN rs \subseteq Accounts /\ rs \in [DOMAIN rs -> Row]

\* baseResult: what is known of an account before anything is asked of it.
BaseRow(isDisabled) ==
  [action |-> "keep", error |-> FALSE, quota |-> FALSE, denied |-> FALSE,
   disabled |-> isDisabled, executed |-> FALSE, failed |-> FALSE]

RowFor(v, isDisabled) ==
  [action |-> v.action, error |-> v.error, quota |-> v.quota, denied |-> v.denied,
   disabled |-> isDisabled, executed |-> FALSE, failed |-> FALSE]

\* Verdicts an account in that state can get: enable is for disabled ones.
VerdictsFor(a, isDisabled) ==
  {v \in VerdictsOf[a] : (v.action = "enable" => isDisabled) /\ (v.action = "disable" => ~isDisabled)}

-----------------------------------------------------------------------------
(* Counters.                                                               *)

HealthCell  == {"total", "authInvalid", "inspectionError", "quotaExhausted",
                "recoverable", "disabled", "healthy"}
SummaryCell == {"sampled", "keepCount", "disableCount", "enableCount", "deleteCount",
                "errorCount", "executedDisable", "executedEnable", "executedDelete"}
Cell        == HealthCell \cup SummaryCell

Bucket(row) ==
  CASE row.action = "delete" \/ row.denied -> "authInvalid"
    [] ~(row.action = "delete" \/ row.denied) /\ row.error -> "inspectionError"
    [] ~(row.action = "delete" \/ row.denied \/ row.error)
         /\ (row.quota \/ row.action = "disable") -> "quotaExhausted"
    [] ~(row.denied \/ row.error \/ row.quota) /\ row.action = "enable" -> "recoverable"
    [] ~(row.denied \/ row.error \/ row.quota) /\ row.action = "keep" /\ row.disabled -> "disabled"
    [] OTHER -> "healthy"

CountOf    == [keep |-> "keepCount", disable |-> "disableCount",
               enable |-> "enableCount", delete |-> "deleteCount"]
ExecutedOf == [disable |-> "executedDisable", enable |-> "executedEnable",
               delete |-> "executedDelete"]

\* The cells in which a result is counted.
Cells(row) ==
  {"total", Bucket(row), "sampled", CountOf[row.action]}
  \cup (IF row.error THEN {"errorCount"} ELSE {})
  \cup (IF row.executed /\ row.action # "keep" THEN {ExecutedOf[row.action]} ELSE {})

In(c, rs)  == {a \in DOMAIN rs : c \in Cells(rs[a])}
Tally(rs)  == [c \in Cell |-> Cardinality(In(c, rs))]
NoRows     == [a \in {} |-> BaseRow(FALSE)]
Only(rs, T) == [a \in DOMAIN rs \cap T |-> rs[a]]

\* adjust...ForResult, -1 for every old and +1 for every new result.
Adjusted(count, cells, old, new) ==
  [c \in Cell |-> IF c \in cells
                  THEN count[c] - Cardinality(In(c, old)) + Cardinality(In(c, new))
                  ELSE count[c]]

-----------------------------------------------------------------------------

VARIABLES
  store,      \* "enabled", "disabled" or "deleted", for each account
  rows,       \* status.Results, by account
  counts,     \* status.Summary and healthCounts
  running,    \* isRunningLocked()
  runRows,    \* results of the run that is on, by account
  runPhase,   \* "off", "listing", "acting"
  request,    \* what each request is doing
  touched,    \* history: accounts that two things in flight have touched since
              \* the latest run that found nothing in flight
  orphaned,   \* history: accounts deleted with the file of another one
  misled,     \* history: accounts whose state a client had wrong in its latest batch
  known       \* history: accounts that exist or did, those a client may name

history == <<touched, orphaned, misled, known>>
vars == <<store, rows, counts, running, runRows, runPhase, request, history>>

Idle == [kind |-> "none", phase |-> "idle", accounts |-> {}, found |-> NoRows]

Existing == {a \in Accounts : store[a] # "deleted"}
IsDisabled(a) == store[a] = "disabled"

InFlight(a) == {r \in Requests : a \in request[r].accounts}

Init ==
  /\ store \in [Accounts -> {"enabled", "disabled", "deleted"}]
  /\ Existing \in Pools
  /\ rows = NoRows /\ counts = [c \in Cell |-> 0]
  /\ running = FALSE /\ runRows = NoRows /\ runPhase = "off"
  /\ request = [r \in Requests |-> Idle]
  /\ touched = {} /\ orphaned = {} /\ misled = {} /\ known = Existing

\* executeAction on the accounts: deleting an account deletes its file.
Applied(a, action) ==
  [b \in Accounts |->
    IF action = "delete" THEN IF FileOf[b] = FileOf[a] THEN "deleted" ELSE store[b]
    ELSE IF b # a THEN store[b]
    ELSE IF action = "disable" THEN "disabled" ELSE "enabled"]

Orphans(a, action) ==
  IF action = "delete" THEN {b \in Existing : FileOf[b] = FileOf[a] /\ b # a} ELSE {}

-----------------------------------------------------------------------------
(* The run.                                                                *)

StartRun ==
  /\ ~running
  /\ running' = TRUE /\ runPhase' = "listing" /\ runRows' = NoRows
  /\ rows' = NoRows /\ counts' = [c \in Cell |-> 0]
  /\ touched' = UNION {request[r].accounts : r \in Requests}
  /\ misled' = {}
  /\ UNCHANGED <<store, request, orphaned, known>>

\* The accounts are listed, sampled and inspected.
Inspect ==
  /\ runPhase = "listing"
  /\ \E sample \in SUBSET Existing :
     \E v \in [sample -> UNION {VerdictsOf[a] : a \in sample}] :
       /\ \A a \in sample : v[a] \in VerdictsFor(a, IsDisabled(a))
       /\ runRows' = [a \in sample |-> RowFor(v[a], IsDisabled(a))]
  /\ runPhase' = "acting"
  /\ UNCHANGED <<store, rows, counts, running, request, history>>

\* The action the settings may draw from a result; the settings are not
\* modelled, so every action they could ask for is possible.
Wanted(row) ==
  IF row.error \/ row.denied
  THEN (IF row.disabled THEN {"delete"} ELSE {"delete", "disable"})
  ELSE {row.action} \ {"keep"}

\* One automatic action that succeeds.
Act(a) ==
  /\ runPhase = "acting"
  /\ a \in DOMAIN runRows /\ ~runRows[a].executed /\ ~runRows[a].failed /\ a \in Existing
  /\ \E action \in Wanted(runRows[a]) :
       /\ store' = Applied(a, action)
       /\ orphaned' = orphaned \cup Orphans(a, action)
       /\ runRows' = [runRows EXCEPT ![a] =
            [action |-> action, error |-> runRows[a].error, quota |-> runRows[a].quota,
             denied |-> runRows[a].denied, executed |-> TRUE, failed |-> FALSE,
             disabled |-> IF action = "delete" THEN runRows[a].disabled ELSE action = "disable"]]
  /\ UNCHANGED <<rows, counts, running, runPhase, request, touched, misled, known>>

\* One automatic action that fails.
ActFails(a) ==
  /\ runPhase = "acting"
  /\ a \in DOMAIN runRows /\ ~runRows[a].executed /\ ~runRows[a].failed /\ Wanted(runRows[a]) # {}
  /\ runRows' = [runRows EXCEPT ![a] =
       [action |-> runRows[a].action, error |-> runRows[a].error, quota |-> runRows[a].quota,
        denied |-> runRows[a].denied, disabled |-> runRows[a].disabled, executed |-> FALSE,
        failed |-> TRUE]]
  /\ UNCHANGED <<store, rows, counts, running, runPhase, request, history>>

\* The run's results replace the list, and its counters are counted anew.
FinishRun ==
  /\ runPhase = "acting"
  /\ rows' = runRows
  /\ counts' = Tally(runRows)
  /\ running' = FALSE /\ runPhase' = "off" /\ runRows' = NoRows
  /\ UNCHANGED <<store, request, history>>

\* A run that cannot list the accounts ends without results.
FailRun ==
  /\ runPhase = "listing"
  /\ rows' = NoRows /\ counts' = Tally(NoRows)
  /\ running' = FALSE /\ runPhase' = "off"
  /\ UNCHANGED <<store, runRows, request, history>>

-----------------------------------------------------------------------------
(* Requests.                                                               *)

Overlapped(accounts) ==
  {a \in accounts : running \/ InFlight(a) # {}}

Begin(r, kind, accounts, found) ==
  /\ request[r] = Idle
  /\ \A a \in accounts : Cardinality({q \in Requests : request[q] # Idle}) < AtATime[a]
  /\ request' = [request EXCEPT ![r] =
       [kind |-> kind, phase |-> "begun", accounts |-> accounts, found |-> found]]
  /\ touched' = touched \cup Overlapped(accounts)
  /\ UNCHANGED <<store, rows, counts, running, runRows, runPhase, orphaned, known>>

\* A request for an account that is neither there nor listed finds nothing,
\* and is left out.
BeginOne(r, kind, a) ==
  /\ a \in Existing \cup DOMAIN rows
  /\ Begin(r, kind, {a}, NoRows)
  /\ UNCHANGED misled

\* inspectOne refuses while a run is on; refreshTokenNow does not.
BeginInspectOne(r, a) == ~running /\ BeginOne(r, "inspect", a)
BeginRefresh(r, a)    == BeginOne(r, "refresh", a)

\* executeManualActions: the items name accounts as the client last saw them,
\* there and listed still or not, with the disabled flag it saw (toResult).
BeginBatch(r, accounts, actions, flags) ==
  /\ accounts # {}
  /\ Begin(r, "batch", accounts,
           [a \in accounts |-> [BaseRow(flags[a]) EXCEPT !.action = actions[a]]])
  /\ misled' = (misled \ accounts) \cup {a \in accounts \cap Existing : flags[a] # IsDisabled(a)}

\* What a request for one account does without the lock, from begun to found.
Advance(r, a, phase, row) ==
  /\ request[r].accounts = {a}
  /\ request' = [request EXCEPT ![r] =
       [kind |-> request[r].kind, phase |-> phase, accounts |-> {a}, found |-> [b \in {a} |-> row]]]
  /\ UNCHANGED <<rows, counts, running, runRows, runPhase, history>>

\* The account is found and probed; no refresh of its token is due.
FindInspected(r, a) ==
  /\ request[r].kind = "inspect" /\ request[r].phase = "begun" /\ a \in Existing
  /\ \E v \in VerdictsFor(a, IsDisabled(a)) : Advance(r, a, "found", RowFor(v, IsDisabled(a)))
  /\ UNCHANGED store

\* An account without a token to refresh.
FindRefreshed(r, a) ==
  /\ request[r].kind = "refresh" /\ request[r].phase = "begun" /\ a \in Existing
  /\ Advance(r, a, "found", BaseRow(IsDisabled(a)))
  /\ UNCHANGED store

\* refreshForInspection, forced or because a refresh is due: the upstream
\* works on a copy of the account, and preservedDisabled is of that time.
Refresh(r, a) ==
  /\ request[r].kind \in {"inspect", "refresh"} /\ request[r].phase = "begun" /\ a \in Existing
  /\ Advance(r, a, "upstream", BaseRow(IsDisabled(a)))
  /\ UNCHANGED store

\* Mutant of WrittenBack: the flag that was kept is not put back
WrittenBack_Enabled(a, isDisabled) == [store EXCEPT ![a] = "enabled"]

\* Update puts the refreshed copy in place of the account.
WrittenBack(a, isDisabled) == [store EXCEPT ![a] = IF isDisabled THEN "disabled" ELSE "enabled"]

\* The refreshed account is what goes on. Whether Update brings back one that
\* was deleted meanwhile is the upstream's affair: both are possible.
Refreshed(r, a) ==
  LET copy == request[r].found[a].disabled IN
  /\ request[r].phase = "upstream" /\ a \in DOMAIN request[r].found
  /\ \/ store' = WrittenBack(a, copy)
     \/ a \notin Existing /\ UNCHANGED store
  /\ \/ request[r].kind = "refresh" /\ Advance(r, a, "found", BaseRow(copy))
     \/ /\ request[r].kind = "inspect"
        /\ \E v \in VerdictsFor(a, copy) : Advance(r, a, "found", RowFor(v, copy))

\* A refresh that failed says so in result.Error.
RefreshFails(r, a) ==
  /\ request[r].phase = "upstream" /\ a \in DOMAIN request[r].found
  /\ Advance(r, a, "found", [BaseRow(request[r].found[a].disabled) EXCEPT !.error = TRUE])
  /\ UNCHANGED store

\* The account is gone: the request ends with an error and merges nothing.
FindNothing(r, a) ==
  /\ request[r].kind \in {"inspect", "refresh"}
  /\ request[r].phase = "begun" /\ request[r].accounts = {a}
  /\ a \notin Existing
  /\ request' = [request EXCEPT ![r] = Idle]
  /\ UNCHANGED <<store, rows, counts, running, runRows, runPhase, history>>

\* A worker of a batch executes the action of one item, once.
ExecuteItem(r, a) ==
  LET item == request[r].found[a] IN
  /\ request[r].kind = "batch" /\ request[r].phase = "begun"
  /\ a \in DOMAIN request[r].found /\ ~item.executed /\ a \in Existing
  /\ store' = Applied(a, item.action)
  /\ orphaned' = orphaned \cup Orphans(a, item.action)
  /\ request' = [request EXCEPT ![r] =
       [kind |-> "batch", phase |-> "begun", accounts |-> request[r].accounts,
        found |-> [request[r].found EXCEPT ![a] =
          [action |-> item.action, error |-> FALSE, quota |-> FALSE, denied |-> FALSE,
           disabled |-> IF item.action = "delete" THEN item.disabled ELSE item.action = "disable",
           executed |-> TRUE, failed |-> FALSE]]]]
  /\ UNCHANGED <<rows, counts, running, runRows, runPhase, touched, misled, known>>

\* Mutant of Put: a result that replaces one is counted as a new one.
Put_CountsTwice(cells, T, new) ==
  /\ rows' = [a \in (DOMAIN rows \ T) \cup DOMAIN new |->
                IF a \in DOMAIN new THEN new[a] ELSE rows[a]]
  /\ counts' = Adjusted(counts, cells, NoRows, new)

\* The results of T are replaced by those of new, which may lack some.
Put(cells, T, new) ==
  /\ rows' = [a \in (DOMAIN rows \ T) \cup DOMAIN new |->
                IF a \in DOMAIN new THEN new[a] ELSE rows[a]]
  /\ counts' = Adjusted(counts, cells, Only(rows, T), new)

\* The request ends; what it has put into the list is no longer a client's word.
Done(r, told) ==
  /\ request' = [request EXCEPT ![r] = Idle]
  /\ misled' = misled \ told
  /\ UNCHANGED <<store, running, runRows, runPhase, touched, orphaned, known>>

\* inspectOne, at the end: unless a run is on now, the result replaces the
\* one in the list, if there is one, and keeps its execution.
MergeInspected(r, a) ==
  LET found == request[r].found[a] IN
  /\ request[r].kind = "inspect" /\ request[r].phase = "found" /\ a \in request[r].accounts
  /\ IF ~running /\ a \in DOMAIN rows
     THEN Put(Cell, {a}, [b \in {a} |->
            [action |-> found.action, error |-> found.error, quota |-> found.quota,
             denied |-> found.denied, disabled |-> found.disabled, executed |-> rows[a].executed,
             failed |-> rows[a].failed]])
     ELSE UNCHANGED <<rows, counts>>
  /\ Done(r, IF running THEN {} ELSE {a})

\* RefreshAccountInspectionToken, at the end: the identity and the disabled
\* flag of a result that is in the list, or else the whole result; the
\* summary is adjusted only for the latter.
MergeRefreshed(r, a) ==
  LET found == request[r].found[a] IN
  /\ request[r].kind = "refresh" /\ request[r].phase = "found" /\ a \in request[r].accounts
  /\ IF a \in DOMAIN rows
     THEN Put(HealthCell, {a}, [b \in {a} |->
            [action |-> rows[a].action, error |-> rows[a].error, quota |-> rows[a].quota,
             denied |-> rows[a].denied, disabled |-> found.disabled, executed |-> rows[a].executed,
             failed |-> rows[a].failed]])
     ELSE Put(Cell, {a}, [b \in {a} |-> found])
  /\ Done(r, {a})

\* applyManualActionResultLocked, for a result that stays in the list.
Merged(item, a) ==
  IF a \notin DOMAIN rows THEN [item EXCEPT !.failed = ~item.executed]
  ELSE IF item.executed
  THEN [action |-> "keep", error |-> FALSE, quota |-> rows[a].quota, denied |-> rows[a].denied,
        disabled |-> item.disabled, executed |-> TRUE, failed |-> FALSE]
  ELSE [action |-> rows[a].action, error |-> rows[a].error, quota |-> rows[a].quota,
        denied |-> rows[a].denied, disabled |-> item.disabled, executed |-> FALSE, failed |-> TRUE]

\* Mutant of ApplyBatch: executed deletions stay in the list.
ApplyBatch_KeepsDeleted(r) ==
  LET found == request[r].found IN
  /\ request[r].kind = "batch"
  /\ Put(Cell, DOMAIN found, [a \in DOMAIN found |-> Merged(found[a], a)])
  /\ Done(r, {a \in DOMAIN found : found[a].executed})

\* executeManualActions, at the end: items not executed by then have failed;
\* executed deletions leave the list.
ApplyBatch(r) ==
  LET found == request[r].found
      gone  == {a \in DOMAIN found : found[a].executed /\ found[a].action = "delete"}
  IN
  /\ request[r].kind = "batch"
  /\ Put(Cell, DOMAIN found, [a \in DOMAIN found \ gone |-> Merged(found[a], a)])
  /\ Done(r, {a \in DOMAIN found : found[a].executed})

-----------------------------------------------------------------------------

Next ==
  \/ StartRun \/ Inspect \/ FinishRun \/ FailRun
  \/ \E a \in Accounts : Act(a) \/ ActFails(a)
  \/ \E r \in Requests :
       \/ \E accounts \in SUBSET known :
            \E flags \in [accounts -> BOOLEAN],
               actions \in {f \in [accounts -> Manual] : \A a \in accounts : f[a] \in ManualOn[a]} :
              BeginBatch(r, accounts, actions, flags)
       \/ ApplyBatch(r)
       \/ \E a \in Accounts :
            \/ BeginInspectOne(r, a) \/ BeginRefresh(r, a)
            \/ FindInspected(r, a) \/ FindRefreshed(r, a) \/ FindNothing(r, a)
            \/ Refresh(r, a) \/ Refreshed(r, a) \/ RefreshFails(r, a)
            \/ ExecuteItem(r, a)
            \/ MergeInspected(r, a) \/ MergeRefreshed(r, a)

Spec == Init /\ [][Next]_vars

-----------------------------------------------------------------------------
(* Properties.                                                             *)

IsRequest(q) ==
  /\ q.kind \in {"none", "inspect", "refresh", "batch"}
  /\ q.phase \in {"idle", "begun", "upstream", "found"}
  /\ q.accounts \in SUBSET Accounts
  /\ IsRowMap(q.found)

\* The type invariant.
TypeOK ==
  /\ store \in [Accounts -> {"enabled", "disabled", "deleted"}]
  /\ IsRowMap(rows)
  /\ counts \in [Cell -> Int]
  /\ running \in BOOLEAN
  /\ IsRowMap(runRows)
  /\ runPhase \in {"off", "listing", "acting"}
  /\ DOMAIN request = Requests
  /\ \A r \in Requests : IsRequest(request[r])
  /\ touched \in SUBSET Accounts /\ orphaned \in SUBSET Accounts /\ misled \in SUBSET Accounts
  /\ known \in SUBSET Accounts

\* Whatever requests and runs interleave, the counters that were kept by
\* adding and subtracting are those of the list that is shown: every cell
\* of the summary and of the health counts is the number of its results.
CountsMatchRows == counts = Tally(rows)

\* The refresh of a token, however long the upstream takes for it, enables
\* no disabled account and disables no enabled one and brings none back: the
\* account it writes back was in that state all along. Left out are accounts
\* that something else in flight has touched: a disable, an enable or a
\* deletion that was made in between is undone.
RefreshKeepsAccounts ==
  [][\A r \in Requests : \A a \in request[r].accounts :
       request[r].phase = "upstream" /\ request'[r] # request[r]
         => store'[a] = store[a] \/ a \in touched \cup orphaned]_vars

\* The list tells the accounts as they are: an account that no two things
\* in flight have touched, and that nothing is in flight for, is listed as
\* disabled exactly when it is, and is not listed after it was deleted
\* (unless with the file of another account, or with a failed action as the
\* last word on it). Left out are accounts whose state a client had wrong when
\* it asked for an action that failed: the list takes the client's flag.
RowsTellAccounts ==
  \A a \in DOMAIN rows :
    \/ running \/ a \in touched \/ InFlight(a) # {}
    \/ IF a \in Existing THEN rows[a].disabled = IsDisabled(a) \/ (a \in misled /\ rows[a].failed)
       ELSE a \in orphaned \/ rows[a].failed \/ (rows[a].executed /\ rows[a].action = "delete")
=============================================================================
