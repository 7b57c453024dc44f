------------------------ MODULE InspectionResultsProofs ------------------------
(***************************************************************************)
(* Proofs about InspectionResults for any accounts, files and requests:    *)
(* the counters kept by adding and subtracting results are those of the    *)
(* list, a token refresh changes no account's state, and the list tells    *)
(* the accounts as they are.                                               *)
(***************************************************************************)
EXTENDS InspectionResults, FiniteSetTheorems, TLAPS

\* The maps of results as a set, and the type invariant in terms of it.
RowMap == UNION {[S -> Row] : S \in SUBSET Accounts}

RequestOK(q) ==
  /\ q.kind \in {"none", "inspect", "refresh", "batch"}
  /\ q.phase \in {"idle", "begun", "upstream", "found"}
  /\ q.accounts \in SUBSET Accounts
  /\ q.found \in RowMap

TypeInv ==
  /\ store \in [Accounts -> {"enabled", "disabled", "deleted"}]
  /\ rows \in RowMap
  /\ counts \in [Cell -> Int]
  /\ running \in BOOLEAN
  /\ runRows \in RowMap
  /\ runPhase \in {"off", "listing", "acting"}
  /\ DOMAIN request = Requests
  /\ \A r \in Requests : RequestOK(request[r])
  /\ touched \in SUBSET Accounts /\ orphaned \in SUBSET Accounts
  /\ misled \in SUBSET Accounts /\ known \in SUBSET Accounts

(* -------------------------- Maps of results --------------------------- *)

\* A map of results is a function on accounts with results as values.
LEMMA RowMapIs ==
  ASSUME NEW rs
  PROVE  rs \in RowMap <=> /\ DOMAIN rs \in SUBSET Accounts
                           /\ rs \in [DOMAIN rs -> Row]
<1>1. rs \in RowMap <=> \E S \in SUBSET Accounts : rs \in [S -> Row]
  BY DEF RowMap
<1> QED BY <1>1

\* Such a map has finitely many results.
LEMMA RowMapFinite ==
  ASSUME NEW rs \in RowMap
  PROVE  IsFiniteSet(DOMAIN rs)
<1>1. DOMAIN rs \in SUBSET Accounts BY RowMapIs
<1> QED BY <1>1, FS_Subset, ResultsAssumption

\* The results of a map in one cell are finitely many.
LEMMA InFinite ==
  ASSUME NEW rs, IsFiniteSet(DOMAIN rs), NEW c
  PROVE  IsFiniteSet(In(c, rs)) /\ Cardinality(In(c, rs)) \in Nat
<1>1. In(c, rs) \in SUBSET DOMAIN rs BY DEF In
<1>2. IsFiniteSet(In(c, rs)) BY <1>1, FS_Subset
<1> QED BY <1>2, FS_CardinalityType

\* The empty map counts nothing anywhere.
LEMMA TallyNoRows == Tally(NoRows) = [c \in Cell |-> 0]
<1>1. \A c : In(c, NoRows) = {} BY DEF In, NoRows
<1> QED BY <1>1, FS_EmptySet DEF Tally

(* ------------------------------ Counting ------------------------------ *)

\* Replacing the results of T by those of new changes the count of a cell
\* by what the new results add and what the replaced ones took.
LEMMA ReplacedCount ==
  ASSUME NEW rs, IsFiniteSet(DOMAIN rs), NEW new, IsFiniteSet(DOMAIN new),
         NEW T, DOMAIN new \subseteq T, NEW c
  PROVE  LET after == [a \in (DOMAIN rs \ T) \cup DOMAIN new |->
                         IF a \in DOMAIN new THEN new[a] ELSE rs[a]]
         IN  Cardinality(In(c, after)) =
               Cardinality(In(c, rs)) - Cardinality(In(c, Only(rs, T))) + Cardinality(In(c, new))
<1> DEFINE after == [a \in (DOMAIN rs \ T) \cup DOMAIN new |->
                       IF a \in DOMAIN new THEN new[a] ELSE rs[a]]
           kept  == In(c, rs) \ In(c, Only(rs, T))
<1>1. In(c, Only(rs, T)) = In(c, rs) \cap T BY DEF In, Only
<1>2. In(c, after) = kept \cup In(c, new) BY <1>1 DEF In
<1>3. kept \cap In(c, new) = {} BY <1>1 DEF In
<1>4. IsFiniteSet(In(c, rs)) /\ Cardinality(In(c, rs)) \in Nat BY InFinite
<1>5. IsFiniteSet(In(c, new)) /\ Cardinality(In(c, new)) \in Nat BY InFinite
<1>6. IsFiniteSet(kept)
      /\ Cardinality(kept) = Cardinality(In(c, rs)) - Cardinality(In(c, rs) \cap In(c, Only(rs, T)))
  BY <1>4, FS_Difference
<1>7. In(c, rs) \cap In(c, Only(rs, T)) = In(c, Only(rs, T)) BY <1>1
<1>8. Cardinality(kept \cup In(c, new)) =
        Cardinality(kept) + Cardinality(In(c, new)) - Cardinality(kept \cap In(c, new))
  BY <1>5, <1>6, FS_Union
<1>9. Cardinality(kept \cap In(c, new)) = 0 BY <1>3, FS_EmptySet
<1>10. In(c, Only(rs, T)) \in SUBSET In(c, rs) BY <1>1
<1>11. Cardinality(In(c, Only(rs, T))) \in Nat BY <1>4, <1>10, FS_Subset, FS_CardinalityType
<1>12. Cardinality(kept) = Cardinality(In(c, rs)) - Cardinality(In(c, Only(rs, T)))
  BY <1>6, <1>7
<1>13. Cardinality(In(c, after)) = Cardinality(kept) + Cardinality(In(c, new)) - 0
  BY <1>2, <1>8, <1>9
<1> QED BY <1>4, <1>5, <1>11, <1>12, <1>13

\* A merge keeps the counters right when the cells it leaves alone lose as
\* many results as they gain.
LEMMA PutTallies ==
  ASSUME rows \in RowMap, counts = Tally(rows),
         NEW cells, NEW T, NEW new \in RowMap, DOMAIN new \subseteq T,
         \A c \in Cell \ cells : In(c, Only(rows, T)) = In(c, new),
         Put(cells, T, new)
  PROVE  counts' = Tally(rows')
<1>1. IsFiniteSet(DOMAIN rows) /\ IsFiniteSet(DOMAIN new) BY RowMapFinite
<1>2. ASSUME NEW c \in Cell PROVE counts'[c] = Cardinality(In(c, rows'))
  <2>1. rows' = [a \in (DOMAIN rows \ T) \cup DOMAIN new |->
                   IF a \in DOMAIN new THEN new[a] ELSE rows[a]]
    BY DEF Put
  <2>2. Cardinality(In(c, rows')) =
          Cardinality(In(c, rows)) - Cardinality(In(c, Only(rows, T))) + Cardinality(In(c, new))
    BY <1>1, <2>1, ReplacedCount
  <2>3. counts[c] = Cardinality(In(c, rows)) BY DEF Tally
  <2>4. CASE c \in cells
    <3>1. counts'[c] = counts[c] - Cardinality(In(c, Only(rows, T))) + Cardinality(In(c, new))
      BY <2>4 DEF Put, Adjusted
    <3> QED BY <2>2, <2>3, <3>1
  <2>5. CASE c \notin cells
    <3>1. counts'[c] = counts[c] BY <2>5 DEF Put, Adjusted
    <3>2. In(c, Only(rows, T)) = In(c, new) BY <2>5
    <3>3. Cardinality(In(c, rows)) \in Nat /\ Cardinality(In(c, new)) \in Nat BY <1>1, InFinite
    <3> QED BY <2>2, <2>3, <3>1, <3>2, <3>3
  <2> QED BY <2>4, <2>5
<1>3. counts' = [c \in Cell |-> counts'[c]] BY DEF Put, Adjusted
<1> QED BY <1>2, <1>3 DEF Tally

\* The health bucket of a result is a health cell.
LEMMA BucketIsHealth ==
  ASSUME NEW row
  PROVE  Bucket(row) \in HealthCell
BY DEF Bucket, HealthCell

(* ------------------------------- Typing ------------------------------- *)

LEMMA NoRowsTyped == NoRows \in RowMap
<1>1. DOMAIN NoRows = {} /\ NoRows \in [DOMAIN NoRows -> Row] BY DEF NoRows
<1> QED BY <1>1, RowMapIs

\* A map with one result.
LEMMA SingleTyped ==
  ASSUME NEW a \in Accounts, NEW row \in Row
  PROVE  [b \in {a} |-> row] \in RowMap
<1> DEFINE f == [b \in {a} |-> row]
<1>1. DOMAIN f \in SUBSET Accounts /\ f \in [DOMAIN f -> Row] OBVIOUS
<1> QED BY <1>1, RowMapIs

\* A result of a map is a result.
LEMMA RowOf ==
  ASSUME NEW rs \in RowMap, NEW a \in DOMAIN rs
  PROVE  rs[a] \in Row /\ a \in Accounts
<1>1. DOMAIN rs \in SUBSET Accounts /\ rs \in [DOMAIN rs -> Row] BY RowMapIs
<1> QED BY <1>1

\* Changing one result of a map for a result leaves a map.
LEMMA ExceptTyped ==
  ASSUME NEW rs \in RowMap, NEW a \in DOMAIN rs, NEW row \in Row
  PROVE  [rs EXCEPT ![a] = row] \in RowMap
<1> DEFINE f == [rs EXCEPT ![a] = row]
<1>1. DOMAIN rs \in SUBSET Accounts /\ rs \in [DOMAIN rs -> Row] BY RowMapIs
<1>2. DOMAIN f = DOMAIN rs OBVIOUS
<1>3. f \in [DOMAIN f -> Row] BY <1>1
<1> QED BY <1>1, <1>2, <1>3, RowMapIs

\* A merge of a map leaves a map.
LEMMA PutTyped ==
  ASSUME rows \in RowMap, NEW cells, NEW T, NEW new \in RowMap, Put(cells, T, new)
  PROVE  rows' \in RowMap
<1>1. DOMAIN rows \in SUBSET Accounts /\ rows \in [DOMAIN rows -> Row] BY RowMapIs
<1>2. DOMAIN new \in SUBSET Accounts /\ new \in [DOMAIN new -> Row] BY RowMapIs
<1>3. rows' = [a \in (DOMAIN rows \ T) \cup DOMAIN new |->
                 IF a \in DOMAIN new THEN new[a] ELSE rows[a]]
  BY DEF Put
<1>4. DOMAIN rows' = (DOMAIN rows \ T) \cup DOMAIN new BY <1>3
<1>5. rows' \in [DOMAIN rows' -> Row] BY <1>1, <1>2, <1>3, <1>4
<1>6. DOMAIN rows' \in SUBSET Accounts BY <1>1, <1>2, <1>4
<1> QED BY <1>5, <1>6, RowMapIs

\* The counters of a map of results are numbers.
LEMMA TallyTyped ==
  ASSUME NEW rs \in RowMap
  PROVE  Tally(rs) \in [Cell -> Int]
<1>1. \A c \in Cell : Cardinality(In(c, rs)) \in Nat BY RowMapFinite, InFinite
<1> QED BY <1>1 DEF Tally

RequestsOK == DOMAIN request = Requests /\ \A r \in Requests : RequestOK(request[r])

\* Changing what one request does to something a request can do.
LEMMA RequestTyped ==
  ASSUME RequestsOK, NEW r \in Requests, NEW q, RequestOK(q),
         request' = [request EXCEPT ![r] = q]
  PROVE  RequestsOK'
<1>1. DOMAIN request' = Requests BY DEF RequestsOK
<1>2. ASSUME NEW s \in Requests PROVE RequestOK(request'[s])
  <2>1. CASE s = r
    <3>1. request'[s] = q BY <2>1 DEF RequestsOK
    <3> QED BY <3>1
  <2>2. CASE s # r
    <3>1. request'[s] = request[s] BY <2>2 DEF RequestsOK
    <3> QED BY <3>1 DEF RequestsOK
  <2> QED BY <2>1, <2>2
<1> QED BY <1>1, <1>2 DEF RequestsOK, RequestOK

LEMMA IdleTyped == RequestOK(Idle)
BY NoRowsTyped DEF Idle, RequestOK

\* A request that begins.
LEMMA BeginTyped ==
  ASSUME TypeInv, NEW r \in Requests, NEW kind \in {"inspect", "refresh", "batch"},
         NEW accounts \in SUBSET Accounts, NEW found \in RowMap,
         Begin(r, kind, accounts, found), misled' \in SUBSET Accounts
  PROVE  TypeInv'
<1>1. RequestOK([kind |-> kind, phase |-> "begun", accounts |-> accounts, found |-> found])
  BY DEF RequestOK
<1>2. RequestsOK' BY <1>1, RequestTyped DEF Begin, TypeInv, RequestsOK
<1>3. touched' \in SUBSET Accounts BY DEF Begin, Overlapped, TypeInv
<1>4. UNCHANGED <<store, rows, counts, running, runRows, runPhase, orphaned, known>> BY DEF Begin
<1> QED BY <1>2, <1>3, <1>4 DEF TypeInv, RequestsOK

\* A request that goes on with its account.
LEMMA AdvanceTyped ==
  ASSUME TypeInv, NEW r \in Requests, NEW a \in Accounts, NEW row \in Row,
         NEW phase \in {"upstream", "found"}, Advance(r, a, phase, row),
         store' \in [Accounts -> {"enabled", "disabled", "deleted"}]
  PROVE  TypeInv'
<1>1. [b \in {a} |-> row] \in RowMap BY SingleTyped
<1>2. RequestOK([kind |-> request[r].kind, phase |-> phase, accounts |-> {a},
                 found |-> [b \in {a} |-> row]])
  BY <1>1 DEF RequestOK, TypeInv
<1>3. RequestsOK' BY <1>2, RequestTyped DEF Advance, TypeInv, RequestsOK
<1>4. UNCHANGED <<rows, counts, running, runRows, runPhase, touched, orphaned, misled, known>>
  BY DEF Advance, history
<1> QED BY <1>3, <1>4 DEF TypeInv, RequestsOK

(* --------------------------- The invariant ---------------------------- *)

Inv == TypeInv /\ CountsMatchRows

\* A step that leaves the list and the counters alone and keeps the types.
LEMMA ListUntouched ==
  ASSUME Inv, TypeInv', UNCHANGED <<rows, counts>>
  PROVE  Inv'
BY DEF Inv, CountsMatchRows

\* The end of a request that merged nothing.
LEMMA DoneAlone ==
  ASSUME Inv, NEW r \in Requests, NEW told, Done(r, told), UNCHANGED <<rows, counts>>
  PROVE  Inv'
<1>1. RequestsOK' BY IdleTyped, RequestTyped DEF Done, Inv, TypeInv, RequestsOK
<1>2. TypeInv' BY <1>1 DEF Done, Inv, TypeInv, RequestsOK
<1> QED BY <1>2, ListUntouched

\* The end of a request that merged some results.
LEMMA DoneMerged ==
  ASSUME Inv, NEW r \in Requests, NEW told, Done(r, told),
         NEW cells, NEW T, NEW new \in RowMap, DOMAIN new \subseteq T,
         \A c \in Cell \ cells : In(c, Only(rows, T)) = In(c, new),
         Put(cells, T, new)
  PROVE  Inv'
<1>1. RequestsOK' BY IdleTyped, RequestTyped DEF Done, Inv, TypeInv, RequestsOK
<1>2. rows' \in RowMap BY PutTyped DEF Inv, TypeInv
<1>3. counts' = Tally(rows') BY PutTallies DEF Inv, TypeInv, CountsMatchRows
<1>4. counts' \in [Cell -> Int] BY <1>2, <1>3, TallyTyped
<1>5. TypeInv' BY <1>1, <1>2, <1>4 DEF Done, Inv, TypeInv, RequestsOK
<1> QED BY <1>3, <1>5 DEF Inv, CountsMatchRows

\* The disabled flag alone decides only between health cells.
LEMMA SameSummary ==
  ASSUME NEW x \in Row, NEW y \in Row, NEW c \in Cell \ HealthCell,
         x.action = y.action, x.error = y.error, x.executed = y.executed
  PROVE  c \in Cells(x) <=> c \in Cells(y)
<1>1. c # Bucket(x) /\ c # Bucket(y) BY BucketIsHealth
<1> QED BY <1>1 DEF Cells

LEMMA StoreTyped ==
  ASSUME TypeInv, NEW a, NEW action
  PROVE  /\ Applied(a, action) \in [Accounts -> {"enabled", "disabled", "deleted"}]
         /\ Orphans(a, action) \in SUBSET Accounts
BY DEF TypeInv, Applied, Orphans, Existing

\* A verdict and a flag make a result.
LEMMA RowForTyped ==
  ASSUME NEW a \in Accounts, NEW isDisabled \in BOOLEAN, NEW v \in VerdictsFor(a, isDisabled)
  PROVE  RowFor(v, isDisabled) \in Row
<1>1. v \in Verdict BY ResultsAssumption DEF VerdictsFor
<1> QED BY <1>1 DEF Verdict, RowFor, Row

LEMMA RunStep ==
  ASSUME Inv, StartRun \/ Inspect \/ FinishRun \/ FailRun
  PROVE  Inv'
<1> USE DEF Inv
<1>1. CASE StartRun
  <2>1. rows' = NoRows /\ counts' = Tally(rows') BY <1>1, TallyNoRows DEF StartRun
  <2>2. counts' \in [Cell -> Int] BY <2>1, NoRowsTyped, TallyTyped
  <2>3. touched' \in SUBSET Accounts BY <1>1 DEF StartRun, TypeInv, RequestOK
  <2>4. TypeInv' BY <1>1, <2>1, <2>2, <2>3, NoRowsTyped DEF StartRun, TypeInv
  <2> QED BY <2>1, <2>4 DEF CountsMatchRows
<1>2. CASE Inspect
  <2>1. PICK sample \in SUBSET Existing : \E v \in [sample -> UNION {VerdictsOf[a] : a \in sample}] :
          /\ \A a \in sample : v[a] \in VerdictsFor(a, IsDisabled(a))
          /\ runRows' = [a \in sample |-> RowFor(v[a], IsDisabled(a))]
    BY <1>2 DEF Inspect
  <2>2. PICK v \in [sample -> UNION {VerdictsOf[a] : a \in sample}] :
          /\ \A a \in sample : v[a] \in VerdictsFor(a, IsDisabled(a))
          /\ runRows' = [a \in sample |-> RowFor(v[a], IsDisabled(a))]
    BY <2>1
  <2>3. \A a \in sample : RowFor(v[a], IsDisabled(a)) \in Row
    BY <2>2, RowForTyped DEF IsDisabled, Existing
  <2>4. DOMAIN runRows' \in SUBSET Accounts /\ runRows' \in [DOMAIN runRows' -> Row]
    BY <2>2, <2>3 DEF Existing
  <2>5. runRows' \in RowMap BY <2>4, RowMapIs
  <2>6. TypeInv' BY <1>2, <2>5 DEF Inspect, TypeInv, history
  <2> QED BY <1>2, <2>6, ListUntouched DEF Inspect
<1>3. CASE FinishRun
  <2>1. rows' \in RowMap /\ counts' = Tally(rows') BY <1>3 DEF FinishRun, TypeInv
  <2>2. counts' \in [Cell -> Int] BY <2>1, TallyTyped
  <2>3. TypeInv' BY <1>3, <2>1, <2>2, NoRowsTyped DEF FinishRun, TypeInv, history
  <2> QED BY <2>1, <2>3 DEF CountsMatchRows
<1>4. CASE FailRun
  <2>1. rows' = NoRows /\ counts' = Tally(rows') BY <1>4 DEF FailRun
  <2>2. counts' \in [Cell -> Int] BY <2>1, NoRowsTyped, TallyTyped
  <2>3. TypeInv' BY <1>4, <2>1, <2>2, NoRowsTyped DEF FailRun, TypeInv, history
  <2> QED BY <2>1, <2>3 DEF CountsMatchRows
<1> QED BY <1>1, <1>2, <1>3, <1>4

LEMMA ActStep ==
  ASSUME Inv, NEW a \in Accounts, Act(a) \/ ActFails(a)
  PROVE  Inv'
<1> USE DEF Inv
<1>1. CASE Act(a)
  <2>1. runRows[a] \in Row BY <1>1, RowOf DEF Act, TypeInv
  <2>2. PICK action \in Wanted(runRows[a]) :
          /\ store' = Applied(a, action)
          /\ orphaned' = orphaned \cup Orphans(a, action)
          /\ runRows' = [runRows EXCEPT ![a] =
               [action |-> action, error |-> runRows[a].error, quota |-> runRows[a].quota,
                denied |-> runRows[a].denied, executed |-> TRUE, failed |-> FALSE,
                disabled |-> IF action = "delete" THEN runRows[a].disabled ELSE action = "disable"]]
    BY <1>1 DEF Act
  <2>3. action \in Action BY <2>1, <2>2 DEF Wanted, Action, Row
  <2> DEFINE flag == IF action = "delete" THEN runRows[a].disabled ELSE action = "disable"
  <2>4. flag \in BOOLEAN BY <2>1 DEF Row
  <2> HIDE DEF flag
  <2>5. [action |-> action, error |-> runRows[a].error, quota |-> runRows[a].quota,
         denied |-> runRows[a].denied, executed |-> TRUE, failed |-> FALSE, disabled |-> flag] \in Row
    BY <2>1, <2>3, <2>4 DEF Row
  <2>6. a \in DOMAIN runRows BY <1>1 DEF Act
  <2>7. runRows' = [runRows EXCEPT ![a] =
          [action |-> action, error |-> runRows[a].error, quota |-> runRows[a].quota,
           denied |-> runRows[a].denied, executed |-> TRUE, failed |-> FALSE, disabled |-> flag]]
    BY <2>2 DEF flag
  <2>8. runRows' \in RowMap BY <2>5, <2>6, <2>7, ExceptTyped DEF TypeInv
  <2>9. UNCHANGED <<rows, counts, running, runPhase, request, touched, misled, known>>
    BY <1>1 DEF Act
  <2>10. TypeInv' BY <2>2, <2>8, <2>9, StoreTyped DEF TypeInv
  <2> QED BY <2>9, <2>10, ListUntouched
<1>2. CASE ActFails(a)
  <2>1. a \in DOMAIN runRows BY <1>2 DEF ActFails
  <2>2. runRows[a] \in Row BY <2>1, RowOf DEF TypeInv
  <2>3. [action |-> runRows[a].action, error |-> runRows[a].error, quota |-> runRows[a].quota,
         denied |-> runRows[a].denied, disabled |-> runRows[a].disabled, executed |-> FALSE,
         failed |-> TRUE] \in Row
    BY <2>2 DEF Row
  <2>4. runRows' \in RowMap BY <1>2, <2>1, <2>3, ExceptTyped DEF ActFails, TypeInv
  <2>5. TypeInv' BY <1>2, <2>4 DEF ActFails, TypeInv, history
  <2> QED BY <1>2, <2>5, ListUntouched DEF ActFails
<1> QED BY <1>1, <1>2

\* What is known of an account makes a result, with an error, with an action.
LEMMA BaseTyped ==
  ASSUME NEW isDisabled \in BOOLEAN
  PROVE  /\ BaseRow(isDisabled) \in Row
         /\ [BaseRow(isDisabled) EXCEPT !.error = TRUE] \in Row
         /\ \A action \in Action : [BaseRow(isDisabled) EXCEPT !.action = action] \in Row
BY DEF BaseRow, Row, Action

\* What the items of a batch say of its accounts.
ItemsOf(accounts, actions, flags) ==
  [a \in accounts |-> [BaseRow(flags[a]) EXCEPT !.action = actions[a]]]

LEMMA BeginStep ==
  ASSUME Inv, NEW r \in Requests,
         \/ \E a \in Accounts : BeginInspectOne(r, a) \/ BeginRefresh(r, a)
         \/ \E accounts \in SUBSET known :
              \E flags \in [accounts -> BOOLEAN],
                 actions \in {f \in [accounts -> Manual] : \A a \in accounts : f[a] \in ManualOn[a]} :
                BeginBatch(r, accounts, actions, flags)
  PROVE  Inv'
<1> USE DEF Inv
<1>1. ASSUME NEW a \in Accounts, BeginInspectOne(r, a) \/ BeginRefresh(r, a) PROVE Inv'
  <2>1. PICK kind \in {"inspect", "refresh", "batch"} : Begin(r, kind, {a}, NoRows) /\ UNCHANGED misled
    BY <1>1 DEF BeginInspectOne, BeginRefresh, BeginOne
  <2>2. misled' \in SUBSET Accounts BY <2>1 DEF TypeInv
  <2>3. TypeInv' BY <2>1, <2>2, NoRowsTyped, BeginTyped
  <2> QED BY <2>1, <2>3, ListUntouched DEF Begin
<1>2. ASSUME NEW accounts \in SUBSET known, NEW actions \in [accounts -> Manual],
             NEW flags \in [accounts -> BOOLEAN], BeginBatch(r, accounts, actions, flags)
      PROVE  Inv'
  <2> DEFINE found == ItemsOf(accounts, actions, flags)
  <2>1. accounts \in SUBSET Accounts BY DEF TypeInv
  <2>2. \A a \in accounts : actions[a] \in Action /\ flags[a] \in BOOLEAN BY DEF Action, Manual
  <2>3. DOMAIN found = accounts /\ found \in [accounts -> Row]
    BY <2>2, BaseTyped DEF ItemsOf
  <2>4. found \in RowMap BY <2>1, <2>3, RowMapIs
  <2>5. Begin(r, "batch", accounts, found) BY <1>2 DEF BeginBatch, ItemsOf
  <2>6. misled' \in SUBSET Accounts BY <1>2, <2>1 DEF BeginBatch, TypeInv
  <2> HIDE DEF found
  <2>7. TypeInv' BY <2>1, <2>4, <2>5, <2>6, BeginTyped
  <2> QED BY <2>5, <2>7, ListUntouched DEF Begin
<1> QED BY <1>1, <1>2

LEMMA FindStep ==
  ASSUME Inv, NEW r \in Requests, NEW a \in Accounts,
         FindInspected(r, a) \/ FindRefreshed(r, a) \/ FindNothing(r, a) \/ ExecuteItem(r, a)
  PROVE  Inv'
<1> USE DEF Inv
<1>1. CASE FindInspected(r, a)
  <2>1. PICK v \in VerdictsFor(a, IsDisabled(a)) :
          Advance(r, a, "found", RowFor(v, IsDisabled(a)))
    BY <1>1 DEF FindInspected
  <2>2. RowFor(v, IsDisabled(a)) \in Row BY RowForTyped DEF IsDisabled
  <2>3. TypeInv' BY <1>1, <2>1, <2>2, AdvanceTyped DEF FindInspected, TypeInv
  <2> QED BY <2>1, <2>3, ListUntouched DEF Advance
<1>2. CASE FindRefreshed(r, a)
  <2>1. BaseRow(IsDisabled(a)) \in Row BY BaseTyped DEF IsDisabled
  <2>2. TypeInv' BY <1>2, <2>1, AdvanceTyped DEF FindRefreshed, TypeInv
  <2> QED BY <1>2, <2>2, ListUntouched DEF FindRefreshed, Advance
<1>3. CASE FindNothing(r, a)
  <2>1. Done(r, {}) /\ UNCHANGED <<rows, counts>> BY <1>3 DEF FindNothing, Done, history
  <2> QED BY <2>1, DoneAlone
<1>4. CASE ExecuteItem(r, a)
  <2> DEFINE item == request[r].found[a]
             flag == IF item.action = "delete" THEN item.disabled ELSE item.action = "disable"
             row  == [action |-> item.action, error |-> FALSE, quota |-> FALSE, denied |-> FALSE,
                      disabled |-> flag, executed |-> TRUE, failed |-> FALSE]
             q    == [kind |-> "batch", phase |-> "begun", accounts |-> request[r].accounts,
                      found |-> [request[r].found EXCEPT ![a] = row]]
  <2>1. a \in DOMAIN request[r].found BY <1>4 DEF ExecuteItem
  <2>2. RequestOK(request[r]) BY DEF TypeInv
  <2>3. item \in Row BY <2>1, <2>2, RowOf DEF RequestOK
  <2>4. flag \in BOOLEAN BY <2>3 DEF Row
  <2>5. row \in Row BY <2>3, <2>4 DEF Row
  <2>6. [request[r].found EXCEPT ![a] = row] \in RowMap
    BY <2>1, <2>2, <2>5, ExceptTyped DEF RequestOK
  <2>7. RequestOK(q) BY <2>2, <2>6 DEF RequestOK
  <2>8. request' = [request EXCEPT ![r] = q] BY <1>4 DEF ExecuteItem
  <2>9. RequestsOK' BY <2>7, <2>8, RequestTyped DEF TypeInv, RequestsOK
  <2>10. store' = Applied(a, item.action) /\ orphaned' = orphaned \cup Orphans(a, item.action)
         /\ UNCHANGED <<rows, counts, running, runRows, runPhase, touched, misled, known>>
    BY <1>4 DEF ExecuteItem
  <2>11. TypeInv' BY <2>9, <2>10, StoreTyped DEF TypeInv, RequestsOK
  <2> QED BY <2>10, <2>11, ListUntouched
<1> QED BY <1>1, <1>2, <1>3, <1>4

LEMMA RefreshStep ==
  ASSUME Inv, NEW r \in Requests, NEW a \in Accounts,
         Refresh(r, a) \/ Refreshed(r, a) \/ RefreshFails(r, a)
  PROVE  Inv'
<1> USE DEF Inv
<1> DEFINE copy == request[r].found[a].disabled
<1>1. CASE Refresh(r, a)
  <2>1. BaseRow(IsDisabled(a)) \in Row BY BaseTyped DEF IsDisabled
  <2>2. TypeInv' BY <1>1, <2>1, AdvanceTyped DEF Refresh, TypeInv
  <2> QED BY <1>1, <2>2, ListUntouched DEF Refresh, Advance
<1>2. ASSUME a \in DOMAIN request[r].found PROVE copy \in BOOLEAN
  <2>1. request[r].found \in RowMap BY DEF TypeInv, RequestOK
  <2>2. request[r].found[a] \in Row BY <1>2, <2>1, RowOf
  <2> QED BY <2>2 DEF Row
<1>3. CASE Refreshed(r, a)
  <2>1. copy \in BOOLEAN BY <1>2, <1>3 DEF Refreshed
  <2>2. store' \in [Accounts -> {"enabled", "disabled", "deleted"}]
    BY <1>3 DEF Refreshed, WrittenBack, TypeInv
  <2> HIDE DEF copy
  <2>3. PICK row \in Row : Advance(r, a, "found", row)
    <3>1. BaseRow(copy) \in Row BY <2>1, BaseTyped
    <3>2. \A v \in VerdictsFor(a, copy) : RowFor(v, copy) \in Row BY <2>1, RowForTyped
    <3> QED BY <1>3, <3>1, <3>2 DEF Refreshed, copy
  <2>4. TypeInv' BY <2>2, <2>3, AdvanceTyped
  <2> QED BY <2>3, <2>4, ListUntouched DEF Advance
<1>4. CASE RefreshFails(r, a)
  <2>1. copy \in BOOLEAN BY <1>2, <1>4 DEF RefreshFails
  <2>2. [BaseRow(copy) EXCEPT !.error = TRUE] \in Row BY <2>1, BaseTyped
  <2>3. TypeInv' BY <1>4, <2>2, AdvanceTyped DEF RefreshFails, TypeInv
  <2> QED BY <1>4, <2>3, ListUntouched DEF RefreshFails, Advance
<1> QED BY <1>1, <1>3, <1>4

\* What a request holds for its account once it has found it. The phase
\* alone does not say that found has the account, so the merges
\* rest on this second invariant.
FoundInv ==
  \A r \in Requests :
    /\ request[r].phase \in {"upstream", "found"} => request[r].accounts = DOMAIN request[r].found
    /\ request[r].kind = "batch" => request[r].phase = "begun"

LEMMA MergeStep ==
  ASSUME Inv, FoundInv, NEW r \in Requests, NEW a \in Accounts,
         MergeInspected(r, a) \/ MergeRefreshed(r, a)
  PROVE  Inv'
<1> USE DEF Inv
<1> DEFINE found == request[r].found[a]
<1>1. a \in DOMAIN request[r].found BY DEF FoundInv, MergeInspected, MergeRefreshed
<1>2. found \in Row BY <1>1, RowOf DEF TypeInv, RequestOK
<1> HIDE DEF found
<1>3. CASE a \notin DOMAIN rows /\ MergeRefreshed(r, a)
  <2>1. Put(Cell, {a}, [b \in {a} |-> found]) /\ Done(r, {a}) BY <1>3 DEF MergeRefreshed, found
  <2>2. [b \in {a} |-> found] \in RowMap BY <1>2, SingleTyped
  <2>3. DOMAIN [b \in {a} |-> found] \subseteq {a} OBVIOUS
  <2> QED BY <2>1, <2>2, <2>3, DoneMerged
<1>4. CASE a \in DOMAIN rows /\ MergeRefreshed(r, a)
  <2> DEFINE row == [action |-> rows[a].action, error |-> rows[a].error, quota |-> rows[a].quota,
                     denied |-> rows[a].denied, disabled |-> found.disabled,
                     executed |-> rows[a].executed, failed |-> rows[a].failed]
             new == [b \in {a} |-> row]
  <2>1. rows[a] \in Row BY <1>4, RowOf DEF TypeInv
  <2>2. row \in Row BY <1>2, <2>1 DEF Row
  <2>3. row.action = rows[a].action /\ row.error = rows[a].error /\ row.executed = rows[a].executed
    OBVIOUS
  <2> HIDE DEF row
  <2>4. new \in RowMap BY <2>2, SingleTyped
  <2>5. ASSUME NEW c \in Cell \ HealthCell PROVE In(c, Only(rows, {a})) = In(c, new)
    <3>1. c \in Cells(rows[a]) <=> c \in Cells(row) BY <2>1, <2>2, <2>3, SameSummary
    <3> QED BY <1>4, <3>1 DEF In, Only
  <2>6. Put(HealthCell, {a}, new) /\ Done(r, {a}) BY <1>4 DEF MergeRefreshed, found, row
  <2>7. DOMAIN new \subseteq {a} OBVIOUS
  <2> HIDE DEF new
  <2> QED BY <2>4, <2>5, <2>6, <2>7, DoneMerged
<1>5. CASE a \in DOMAIN rows /\ ~running /\ MergeInspected(r, a)
  <2> DEFINE row == [action |-> found.action, error |-> found.error, quota |-> found.quota,
                     denied |-> found.denied, disabled |-> found.disabled,
                     executed |-> rows[a].executed, failed |-> rows[a].failed]
             new == [b \in {a} |-> row]
  <2>1. rows[a] \in Row BY <1>5, RowOf DEF TypeInv
  <2>2. row \in Row BY <1>2, <2>1 DEF Row
  <2> HIDE DEF row
  <2>3. new \in RowMap BY <2>2, SingleTyped
  <2>4. Put(Cell, {a}, new) /\ Done(r, {a}) BY <1>5 DEF MergeInspected, found, row
  <2>5. DOMAIN new \subseteq {a} OBVIOUS
  <2> HIDE DEF new
  <2> QED BY <2>3, <2>4, <2>5, DoneMerged
<1>6. CASE ~(a \in DOMAIN rows /\ ~running) /\ MergeInspected(r, a)
  <2>1. PICK told : Done(r, told) /\ UNCHANGED <<rows, counts>> BY <1>6 DEF MergeInspected
  <2> QED BY <2>1, DoneAlone
<1> QED BY <1>3, <1>4, <1>5, <1>6

LEMMA ApplyStep ==
  ASSUME Inv, NEW r \in Requests, ApplyBatch(r)
  PROVE  Inv'
<1> USE DEF Inv
<1> DEFINE found == request[r].found
           gone  == {a \in DOMAIN found : found[a].executed /\ found[a].action = "delete"}
           new   == [a \in DOMAIN found \ gone |-> Merged(found[a], a)]
<1>1. found \in RowMap BY DEF TypeInv, RequestOK
<1>2. DOMAIN found \in SUBSET Accounts /\ found \in [DOMAIN found -> Row] BY <1>1, RowMapIs
<1>3. ASSUME NEW a \in DOMAIN found PROVE Merged(found[a], a) \in Row
  <2>1. found[a] \in Row BY <1>2
  <2>2. a \in DOMAIN rows => rows[a] \in Row BY RowOf DEF TypeInv
  <2> HIDE DEF found
  <2> QED BY <2>1, <2>2 DEF Merged, Row, Action
<1>4. DOMAIN new \in SUBSET Accounts /\ new \in [DOMAIN new -> Row] BY <1>2, <1>3
<1>5. new \in RowMap BY <1>4, RowMapIs
<1>6. PICK told : Put(Cell, DOMAIN found, new) /\ Done(r, told) BY DEF ApplyBatch
<1>7. DOMAIN new \subseteq DOMAIN found OBVIOUS
<1> HIDE DEF new, found
<1> QED BY <1>5, <1>6, <1>7, DoneMerged

\* What a step may do to a request r: leave it, or make it q.
LEMMA FoundKept ==
  ASSUME RequestsOK, FoundInv, NEW r \in Requests, NEW q,
         q.phase \in {"upstream", "found"} => q.accounts = DOMAIN q.found,
         q.kind = "batch" => q.phase = "begun",
         request' = [request EXCEPT ![r] = q]
  PROVE  FoundInv'
<1> SUFFICES ASSUME NEW s \in Requests
             PROVE  /\ request'[s].phase \in {"upstream", "found"}
                         => request'[s].accounts = DOMAIN request'[s].found
                    /\ request'[s].kind = "batch" => request'[s].phase = "begun"
  BY DEF FoundInv
<1>1. CASE s = r
  <2>1. request'[s] = q BY <1>1 DEF RequestsOK
  <2> QED BY <2>1
<1>2. CASE s # r
  <2>1. request'[s] = request[s] BY <1>2 DEF RequestsOK
  <2> QED BY <2>1 DEF FoundInv
<1> QED BY <1>1, <1>2

LEMMA FoundIdle ==
  ASSUME RequestsOK, FoundInv, NEW r \in Requests, request' = [request EXCEPT ![r] = Idle]
  PROVE  FoundInv'
<1>1. Idle.phase = "idle" /\ Idle.kind = "none" BY DEF Idle
<1> HIDE DEF Idle
<1> QED BY <1>1, FoundKept

LEMMA FoundStep ==
  ASSUME TypeInv, FoundInv, [Next]_vars
  PROVE  FoundInv'
<1>1. RequestsOK BY DEF TypeInv, RequestsOK
<1>2. CASE UNCHANGED request BY <1>2 DEF FoundInv
<1>3. CASE StartRun \/ Inspect \/ FinishRun \/ FailRun
  BY <1>2, <1>3 DEF StartRun, Inspect, FinishRun, FailRun
<1>4. ASSUME NEW a \in Accounts, Act(a) \/ ActFails(a) PROVE FoundInv'
  BY <1>2, <1>4 DEF Act, ActFails
<1>5. ASSUME NEW r \in Requests, NEW kind, NEW accounts, NEW found, Begin(r, kind, accounts, found)
      PROVE  FoundInv'
  <2> DEFINE q == [kind |-> kind, phase |-> "begun", accounts |-> accounts, found |-> found]
  <2>1. q.phase = "begun" /\ request' = [request EXCEPT ![r] = q] BY <1>5 DEF Begin
  <2> HIDE DEF q
  <2> QED BY <1>1, <2>1, FoundKept
<1>6. ASSUME NEW r \in Requests, NEW a \in Accounts, NEW row, NEW phase \in {"upstream", "found"},
             Advance(r, a, phase, row), request[r].kind # "batch"
      PROVE  FoundInv'
  <2> DEFINE q == [kind |-> request[r].kind, phase |-> phase, accounts |-> {a},
                   found |-> [b \in {a} |-> row]]
  <2>1. q.accounts = DOMAIN q.found /\ q.kind # "batch" BY <1>6
  <2>2. request' = [request EXCEPT ![r] = q] BY <1>6 DEF Advance
  <2> HIDE DEF q
  <2> QED BY <1>1, <2>1, <2>2, FoundKept
<1>7. ASSUME NEW r \in Requests, NEW a \in Accounts, ExecuteItem(r, a)
      PROVE  FoundInv'
  <2>1. PICK f : request' = [request EXCEPT ![r] =
          [kind |-> "batch", phase |-> "begun", accounts |-> request[r].accounts, found |-> f]]
    BY <1>7 DEF ExecuteItem
  <2> QED BY <1>1, <2>1, FoundKept
<1>8. ASSUME NEW r \in Requests,
             \/ ApplyBatch(r)
             \/ \E a \in Accounts : MergeInspected(r, a) \/ MergeRefreshed(r, a) \/ FindNothing(r, a)
      PROVE  FoundInv'
  <2>1. request' = [request EXCEPT ![r] = Idle]
    BY <1>8 DEF ApplyBatch, MergeInspected, MergeRefreshed, FindNothing, Done
  <2> QED BY <1>1, <2>1, FoundIdle
<1>9. CASE UNCHANGED vars BY <1>2, <1>9 DEF vars
<1>10. ASSUME NEW r \in Requests, NEW a \in Accounts, BeginInspectOne(r, a) \/ BeginRefresh(r, a)
       PROVE  FoundInv'
  BY <1>5, <1>10 DEF BeginInspectOne, BeginRefresh, BeginOne
<1>11. ASSUME NEW r \in Requests, NEW accounts, NEW actions, NEW flags,
             BeginBatch(r, accounts, actions, flags)
       PROVE  FoundInv'
  BY <1>5, <1>11 DEF BeginBatch
<1>12. ASSUME NEW r \in Requests, NEW a \in Accounts, FindInspected(r, a) \/ FindRefreshed(r, a)
       PROVE  FoundInv'
  BY <1>6, <1>12 DEF FindInspected, FindRefreshed
<1>13. ASSUME NEW r \in Requests, NEW a \in Accounts,
              Refresh(r, a) \/ Refreshed(r, a) \/ RefreshFails(r, a)
       PROVE  FoundInv'
  <2>1. request[r].kind # "batch" BY <1>13 DEF FoundInv, Refresh, Refreshed, RefreshFails
  <2> QED BY <1>6, <1>13, <2>1 DEF Refresh, Refreshed, RefreshFails
<1> QED BY <1>3, <1>4, <1>7, <1>8, <1>9, <1>10, <1>11, <1>12, <1>13 DEF Next

LEMMA InvInit == Init => Inv /\ FoundInv
<1> SUFFICES ASSUME Init PROVE Inv /\ FoundInv OBVIOUS
<1>1. rows = NoRows /\ counts = Tally(rows) BY TallyNoRows DEF Init
<1>2. rows \in RowMap /\ counts \in [Cell -> Int] BY <1>1, NoRowsTyped, TallyTyped
<1>3. DOMAIN request = Requests /\ \A r \in Requests : request[r] = Idle BY DEF Init
<1>4. RequestsOK BY <1>3, IdleTyped DEF RequestsOK
<1>5. TypeInv BY <1>2, <1>4, NoRowsTyped DEF Init, TypeInv, RequestsOK, Existing
<1>6. FoundInv BY <1>3 DEF FoundInv, Idle
<1> QED BY <1>1, <1>5, <1>6 DEF Inv, CountsMatchRows

LEMMA InvStep == Inv /\ FoundInv /\ [Next]_vars => Inv' /\ FoundInv'
<1> SUFFICES ASSUME Inv, FoundInv, [Next]_vars PROVE Inv' /\ FoundInv' OBVIOUS
<1>1. FoundInv' BY FoundStep DEF Inv
<1>2. CASE UNCHANGED vars
  <2>1. TypeInv' BY <1>2 DEF vars, history, Inv, TypeInv, RequestOK
  <2> QED BY <1>1, <1>2, <2>1, ListUntouched DEF vars
<1>3. CASE Next
  BY <1>1, <1>3, RunStep, ActStep, BeginStep, FindStep, RefreshStep, MergeStep, ApplyStep DEF Next
<1> QED BY <1>2, <1>3

(* ---------------------- What a refresh writes back --------------------- *)

\* Two things in flight for an account are remembered in touched.
OverlapInv ==
  /\ runPhase # "off" => running
  /\ \A r \in Requests : \A a \in request[r].accounts : running => a \in touched
  /\ \A r \in Requests : \A q \in Requests :
       r # q => request[r].accounts \cap request[q].accounts \subseteq touched
  /\ \A r \in Requests : DOMAIN request[r].found \subseteq request[r].accounts

\* The copy that the upstream works on.
CopyTrue(r) ==
  request[r].phase = "upstream" =>
    \A a \in request[r].accounts \ (touched \cup orphaned) :
      store[a] = IF request[r].found[a].disabled THEN "disabled" ELSE "enabled"

CopyInv == \A r \in Requests : CopyTrue(r)

\* A step that changes one request at most and leaves the run and the history
\* alone keeps the overlaps, when the request does not reach further.
LEMMA OverlapKept ==
  ASSUME RequestsOK, OverlapInv, NEW r \in Requests, NEW q,
         request' = [request EXCEPT ![r] = q],
         q.accounts \subseteq request[r].accounts, DOMAIN q.found \subseteq q.accounts,
         UNCHANGED <<running, runPhase, touched>>
  PROVE  OverlapInv'
<1>1. request'[r] = q /\ \A s \in Requests : s # r => request'[s] = request[s] BY DEF RequestsOK
<1>2. \A s \in Requests : request'[s].accounts \subseteq request[s].accounts BY <1>1
<1>3. \A s \in Requests : DOMAIN request'[s].found \subseteq request'[s].accounts
  BY <1>1 DEF OverlapInv
<1> QED BY <1>2, <1>3 DEF OverlapInv

LEMMA OverlapIdle ==
  ASSUME RequestsOK, OverlapInv, NEW r \in Requests, NEW told, Done(r, told)
  PROVE  OverlapInv'
<1>1. Idle.accounts = {} /\ DOMAIN Idle.found = {} BY DEF Idle, NoRows
<1>2. request' = [request EXCEPT ![r] = Idle] /\ UNCHANGED <<running, runPhase, touched>>
  BY DEF Done
<1> HIDE DEF Idle
<1> QED BY <1>1, <1>2, OverlapKept

LEMMA OverlapBegin ==
  ASSUME RequestsOK, OverlapInv, NEW r \in Requests, NEW kind, NEW accounts, NEW found,
         Begin(r, kind, accounts, found), DOMAIN found \subseteq accounts
  PROVE  OverlapInv'
<1>1. request'[r].accounts = accounts /\ request'[r].found = found BY DEF Begin, RequestsOK
<1>2. \A s \in Requests : s # r => request'[s] = request[s] BY DEF Begin, RequestsOK
<1>3. touched' = touched \cup Overlapped(accounts) /\ UNCHANGED <<running, runPhase>> BY DEF Begin
<1>4. ASSUME NEW s \in Requests, s # r PROVE accounts \cap request[s].accounts \subseteq touched'
  BY <1>3 DEF Overlapped, InFlight
<1>5. running => accounts \subseteq touched' BY <1>3 DEF Overlapped
<1>6. \A s \in Requests : \A a \in request'[s].accounts : running' => a \in touched'
  BY <1>1, <1>2, <1>3, <1>5 DEF OverlapInv
<1>7. ASSUME NEW s \in Requests, NEW q \in Requests, s # q
      PROVE  request'[s].accounts \cap request'[q].accounts \subseteq touched'
  <2>1. CASE s = r BY <1>1, <1>2, <1>4, <1>7, <2>1
  <2>2. CASE q = r BY <1>1, <1>2, <1>4, <1>7, <2>2
  <2>3. CASE s # r /\ q # r BY <1>2, <1>3, <1>7, <2>3 DEF OverlapInv
  <2> QED BY <2>1, <2>2, <2>3
<1> QED BY <1>1, <1>2, <1>3, <1>6, <1>7 DEF OverlapInv

LEMMA OverlapStep ==
  ASSUME TypeInv, FoundInv, OverlapInv, [Next]_vars
  PROVE  OverlapInv'
<1>1. RequestsOK BY DEF TypeInv, RequestsOK
<1>2. CASE UNCHANGED vars BY <1>2 DEF vars, history, OverlapInv
<1>3. CASE StartRun
  <2>1. request' = request /\ running' /\ touched' = UNION {request[r].accounts : r \in Requests}
    BY <1>3 DEF StartRun
  <2>2. \A r \in Requests : request[r].accounts \subseteq touched' BY <2>1
  <2> QED BY <2>1, <2>2 DEF OverlapInv
<1>4. CASE Inspect \/ FinishRun \/ FailRun
  BY <1>4 DEF Inspect, FinishRun, FailRun, OverlapInv, history
<1>5. ASSUME NEW a \in Accounts, Act(a) \/ ActFails(a) PROVE OverlapInv'
  BY <1>5 DEF Act, ActFails, OverlapInv, history
<1>6. ASSUME NEW r \in Requests, NEW a \in Accounts, BeginInspectOne(r, a) \/ BeginRefresh(r, a)
      PROVE  OverlapInv'
  <2>1. DOMAIN NoRows \subseteq {a} BY DEF NoRows
  <2> QED BY <1>1, <1>6, <2>1, OverlapBegin DEF BeginInspectOne, BeginRefresh, BeginOne
<1>7. ASSUME NEW r \in Requests, NEW accounts, NEW actions, NEW flags,
             BeginBatch(r, accounts, actions, flags)
      PROVE  OverlapInv'
  BY <1>1, <1>7, OverlapBegin DEF BeginBatch
<1>8. ASSUME NEW r \in Requests, NEW a \in Accounts, NEW phase, NEW row, Advance(r, a, phase, row)
      PROVE  OverlapInv'
  <2> DEFINE q == [kind |-> request[r].kind, phase |-> phase, accounts |-> {a},
                   found |-> [b \in {a} |-> row]]
  <2>1. q.accounts = request[r].accounts /\ DOMAIN q.found = q.accounts BY <1>8 DEF Advance
  <2>2. request' = [request EXCEPT ![r] = q] /\ UNCHANGED <<running, runPhase, touched>>
    BY <1>8 DEF Advance, history
  <2> HIDE DEF q
  <2> QED BY <1>1, <2>1, <2>2, OverlapKept
<1>9. ASSUME NEW r \in Requests, NEW a \in Accounts,
             \/ FindInspected(r, a) \/ FindRefreshed(r, a)
             \/ Refresh(r, a) \/ Refreshed(r, a) \/ RefreshFails(r, a)
      PROVE  OverlapInv'
  BY <1>8, <1>9 DEF FindInspected, FindRefreshed, Refresh, Refreshed, RefreshFails
<1>10. ASSUME NEW r \in Requests, NEW a \in Accounts, ExecuteItem(r, a) PROVE OverlapInv'
  <2>1. PICK row : request' = [request EXCEPT ![r] =
          [kind |-> "batch", phase |-> "begun", accounts |-> request[r].accounts,
           found |-> [request[r].found EXCEPT ![a] = row]]]
    BY <1>10 DEF ExecuteItem
  <2> DEFINE q == [kind |-> "batch", phase |-> "begun", accounts |-> request[r].accounts,
                   found |-> [request[r].found EXCEPT ![a] = row]]
  <2>2. q.accounts = request[r].accounts /\ DOMAIN q.found \subseteq q.accounts BY DEF OverlapInv
  <2>3. request' = [request EXCEPT ![r] = q] BY <2>1
  <2>4. UNCHANGED <<running, runPhase, touched>> BY <1>10 DEF ExecuteItem
  <2> HIDE DEF q
  <2> QED BY <1>1, <2>2, <2>3, <2>4, OverlapKept
<1>11. ASSUME NEW r \in Requests, NEW a \in Accounts, FindNothing(r, a) PROVE OverlapInv'
  <2>1. Done(r, {}) BY <1>11 DEF FindNothing, Done, history
  <2> QED BY <1>1, <2>1, OverlapIdle
<1>12. ASSUME NEW r \in Requests, NEW a \in Accounts, MergeInspected(r, a) \/ MergeRefreshed(r, a)
       PROVE  OverlapInv'
  <2>1. PICK told : Done(r, told) BY <1>12 DEF MergeInspected, MergeRefreshed
  <2> QED BY <1>1, <2>1, OverlapIdle
<1>13. ASSUME NEW r \in Requests, ApplyBatch(r) PROVE OverlapInv'
  <2>1. PICK told : Done(r, told) BY <1>13 DEF ApplyBatch
  <2> QED BY <1>1, <2>1, OverlapIdle
<1> QED BY <1>2, <1>3, <1>4, <1>5, <1>6, <1>7, <1>9, <1>10, <1>11, <1>12, <1>13 DEF Next

\* A request that is upstream and that the step leaves alone, when no account
\* of its own changes outside the history.
LEMMA CopyKept ==
  ASSUME OverlapInv, NEW r \in Requests, CopyTrue(r), request'[r] = request[r],
         touched \subseteq touched', orphaned \subseteq orphaned',
         \A a \in request[r].accounts \ (touched' \cup orphaned') : store'[a] = store[a]
  PROVE  CopyTrue(r)'
BY DEF CopyTrue

\* An action on an account, seen from the accounts of a request for others.
LEMMA AppliedElsewhere ==
  ASSUME NEW a \in Accounts, NEW action, NEW b \in Accounts, b # a,
         store[b] # "deleted", b \notin Orphans(a, action)
  PROVE  Applied(a, action)[b] = store[b]
BY DEF Applied, Orphans, Existing

LEMMA CopyStep ==
  ASSUME TypeInv, FoundInv, OverlapInv, CopyInv, [Next]_vars
  PROVE  CopyInv'
<1> SUFFICES ASSUME NEW r \in Requests PROVE CopyTrue(r)' BY DEF CopyInv
<1>1. CopyTrue(r) /\ RequestOK(request[r]) BY DEF CopyInv, TypeInv
<1>2. ASSUME UNCHANGED <<store, request, touched, orphaned>> PROVE CopyTrue(r)'
  BY <1>1, <1>2 DEF CopyTrue
<1>3. CASE UNCHANGED vars BY <1>2, <1>3 DEF vars, history
<1>4. CASE StartRun
  <2>1. request' = request /\ touched' = UNION {request[q].accounts : q \in Requests}
    BY <1>4 DEF StartRun
  <2>2. request[r].accounts \subseteq touched' BY <2>1
  <2> QED BY <2>1, <2>2 DEF CopyTrue
<1>5. CASE Inspect \/ FinishRun \/ FailRun BY <1>2, <1>5 DEF Inspect, FinishRun, FailRun, history
<1>6. ASSUME NEW a \in Accounts, Act(a) PROVE CopyTrue(r)'
  <2>1. running /\ UNCHANGED <<request, touched>> BY <1>6 DEF Act, OverlapInv
  <2>2. request[r].accounts \subseteq touched BY <2>1 DEF OverlapInv
  <2> QED BY <2>1, <2>2 DEF CopyTrue
<1>7. ASSUME NEW a \in Accounts, ActFails(a) PROVE CopyTrue(r)'
  BY <1>2, <1>7 DEF ActFails, history
<1>8. ASSUME NEW q \in Requests, NEW s, request' = [request EXCEPT ![q] = s], q # r
      PROVE  request'[r] = request[r]
  BY <1>8
<1>9. ASSUME NEW q \in Requests, NEW s, request' = [request EXCEPT ![q] = s],
             s.phase # "upstream", UNCHANGED <<store, orphaned>>, touched \subseteq touched'
      PROVE  CopyTrue(r)'
  <2>1. CASE q = r
    <3>1. request'[r] = s BY <1>9, <2>1 DEF TypeInv
    <3> QED BY <1>9, <3>1 DEF CopyTrue
  <2>2. CASE q # r BY <1>1, <1>8, <1>9, <2>2, CopyKept
  <2> QED BY <2>1, <2>2
<1>10. ASSUME NEW q \in Requests, NEW kind, NEW accounts, NEW found, Begin(q, kind, accounts, found)
       PROVE  CopyTrue(r)'
  <2> DEFINE s == [kind |-> kind, phase |-> "begun", accounts |-> accounts, found |-> found]
  <2>1. s.phase # "upstream" /\ request' = [request EXCEPT ![q] = s] BY <1>10 DEF Begin
  <2>2. touched \subseteq touched' /\ UNCHANGED <<store, orphaned>> BY <1>10 DEF Begin
  <2> HIDE DEF s
  <2> QED BY <1>9, <2>1, <2>2
<1>11. ASSUME NEW q \in Requests, NEW told, Done(q, told) PROVE CopyTrue(r)'
  <2>1. Idle.phase # "upstream" BY DEF Idle
  <2>2. request' = [request EXCEPT ![q] = Idle] /\ UNCHANGED <<store, touched, orphaned>>
    BY <1>11 DEF Done
  <2> HIDE DEF Idle
  <2> QED BY <1>9, <2>1, <2>2
<1>12. ASSUME NEW q \in Requests, NEW a \in Accounts, NEW row, Advance(q, a, "found", row),
              UNCHANGED store
       PROVE  CopyTrue(r)'
  <2> DEFINE s == [kind |-> request[q].kind, phase |-> "found", accounts |-> {a},
                   found |-> [b \in {a} |-> row]]
  <2>1. s.phase # "upstream" /\ request' = [request EXCEPT ![q] = s] BY <1>12 DEF Advance
  <2>2. UNCHANGED <<touched, orphaned>> BY <1>12 DEF Advance, history
  <2> HIDE DEF s
  <2> QED BY <1>9, <1>12, <2>1, <2>2
<1>13. ASSUME NEW q \in Requests, NEW a \in Accounts, Refresh(q, a) PROVE CopyTrue(r)'
  <2> DEFINE row == BaseRow(IsDisabled(a))
             s == [kind |-> request[q].kind, phase |-> "upstream", accounts |-> {a},
                   found |-> [b \in {a} |-> row]]
  <2>1. request' = [request EXCEPT ![q] = s] /\ UNCHANGED <<store, touched, orphaned>>
    BY <1>13 DEF Refresh, Advance, history
  <2>2. CASE q = r
    <3>1. request'[r] = s BY <2>1, <2>2 DEF TypeInv
    <3>2. request'[r].accounts = {a} /\ request'[r].found[a].disabled = IsDisabled(a)
      BY <3>1 DEF BaseRow
    <3>3. store'[a] = IF IsDisabled(a) THEN "disabled" ELSE "enabled"
      BY <1>13, <2>1 DEF Refresh, Existing, IsDisabled, TypeInv
    <3> QED BY <3>2, <3>3 DEF CopyTrue
  <2>3. CASE q # r
    <3> HIDE DEF s
    <3>1. request'[r] = request[r] BY <1>8, <2>1, <2>3
    <3> QED BY <1>1, <2>1, <3>1, CopyKept
  <2> QED BY <2>2, <2>3
<1>14. ASSUME NEW q \in Requests, NEW a \in Accounts, Refreshed(q, a) PROVE CopyTrue(r)'
  <2>1. PICK row : Advance(q, a, "found", row) BY <1>14 DEF Refreshed
  <2> DEFINE s == [kind |-> request[q].kind, phase |-> "found", accounts |-> {a},
                   found |-> [b \in {a} |-> row]]
  <2>2. /\ request' = [request EXCEPT ![q] = s] /\ s.phase = "found"
        /\ request[q].accounts = {a} /\ UNCHANGED <<touched, orphaned>>
    BY <2>1 DEF Advance, history
  <2>3. \A b \in Accounts \ {a} : store'[b] = store[b] BY <1>14 DEF Refreshed, WrittenBack, TypeInv
  <2> HIDE DEF s
  <2>4. CASE q = r
    <3>1. request'[r] = s BY <2>2, <2>4 DEF TypeInv
    <3> QED BY <2>2, <3>1 DEF CopyTrue
  <2>5. CASE q # r
    <3>1. request'[r] = request[r] BY <1>8, <2>2, <2>5
    <3>2. a \in request[r].accounts => a \in touched BY <2>2, <2>5 DEF OverlapInv
    <3>3. \A b \in request[r].accounts \ (touched \cup orphaned) : store'[b] = store[b]
      BY <1>1, <2>3, <3>2 DEF RequestOK
    <3> QED BY <1>1, <2>2, <3>1, <3>3, CopyKept
  <2> QED BY <2>4, <2>5
<1>15. ASSUME NEW q \in Requests, NEW a \in Accounts, ExecuteItem(q, a) PROVE CopyTrue(r)'
  <2> DEFINE action == request[q].found[a].action
  <2>1. PICK f : request' = [request EXCEPT ![q] =
          [kind |-> "batch", phase |-> "begun", accounts |-> request[q].accounts, found |-> f]]
    BY <1>15 DEF ExecuteItem
  <2>2. /\ store' = Applied(a, action) /\ orphaned' = orphaned \cup Orphans(a, action)
        /\ touched' = touched
    BY <1>15 DEF ExecuteItem
  <2>3. a \in request[q].accounts BY <1>15 DEF ExecuteItem, OverlapInv
  <2> HIDE DEF action
  <2>4. CASE q = r
    <3>1. request'[r].phase = "begun" BY <2>1, <2>4 DEF TypeInv
    <3> QED BY <3>1 DEF CopyTrue
  <2>5. CASE q # r
    <3>1. request'[r] = request[r] BY <1>8, <2>1, <2>5
    <3>2. a \in request[r].accounts => a \in touched BY <2>3, <2>5 DEF OverlapInv
    <3>3. SUFFICES ASSUME request[r].phase = "upstream",
                          NEW b \in request[r].accounts \ (touched' \cup orphaned')
                   PROVE  store'[b] = store[b]
      BY <1>1, <2>2, <3>1 DEF CopyTrue
    <3>4. b \in Accounts /\ b # a /\ b \notin Orphans(a, action)
      BY <1>1, <2>2, <3>2, <3>3 DEF RequestOK
    <3>5. store[b] # "deleted" BY <1>1, <2>2, <3>3 DEF CopyTrue
    <3> QED BY <2>2, <3>4, <3>5, AppliedElsewhere
  <2> QED BY <2>4, <2>5
<1>16. ASSUME NEW q \in Requests, NEW a \in Accounts, BeginInspectOne(q, a) \/ BeginRefresh(q, a)
       PROVE  CopyTrue(r)'
  BY <1>10, <1>16 DEF BeginInspectOne, BeginRefresh, BeginOne
<1>17. ASSUME NEW q \in Requests, NEW accounts, NEW actions, NEW flags,
              BeginBatch(q, accounts, actions, flags)
       PROVE  CopyTrue(r)'
  BY <1>10, <1>17 DEF BeginBatch
<1>18. ASSUME NEW q \in Requests, NEW a \in Accounts,
              FindInspected(q, a) \/ FindRefreshed(q, a) \/ RefreshFails(q, a)
       PROVE  CopyTrue(r)'
  BY <1>12, <1>18 DEF FindInspected, FindRefreshed, RefreshFails
<1>19. ASSUME NEW q \in Requests,
              \/ ApplyBatch(q)
              \/ \E a \in Accounts : MergeInspected(q, a) \/ MergeRefreshed(q, a) \/ FindNothing(q, a)
       PROVE  CopyTrue(r)'
  <2>1. (\E a \in Accounts : FindNothing(q, a)) => Done(q, {}) BY DEF FindNothing, Done, history
  <2>2. \E told : Done(q, told) BY <1>19, <2>1 DEF ApplyBatch, MergeInspected, MergeRefreshed
  <2> QED BY <1>11, <2>2
<1> QED BY <1>3, <1>4, <1>5, <1>6, <1>7, <1>13, <1>14, <1>15, <1>16, <1>17, <1>18, <1>19 DEF Next

LEMMA CopyInit == Init => OverlapInv /\ CopyInv
<1>1. Idle.accounts = {} /\ DOMAIN Idle.found = {} /\ Idle.phase # "upstream" BY DEF Idle, NoRows
<1> HIDE DEF Idle
<1>2. Init => \A r \in Requests : request[r] = Idle BY DEF Init
<1>3. Init => runPhase = "off" /\ running = FALSE BY DEF Init
<1> QED BY <1>1, <1>2, <1>3 DEF OverlapInv, CopyInv, CopyTrue

(* ----------------------- What the list tells -------------------------- *)

\* A result shows an account that exists as disabled exactly when it is, and
\* of one that was deleted there is more to say.
Shows(s, a, row) ==
  s[a] # "deleted" => s[a] = IF row.disabled THEN "disabled" ELSE "enabled"

\* So does the list; but of an action that failed it may have the flag of a
\* client that had the account wrong, one of m.
Tells(s, o, m, a, row) ==
  /\ Shows(s, a, row) \/ (a \in m /\ row.failed)
  /\ s[a] = "deleted" => a \in o \/ row.failed \/ (row.executed /\ row.action = "delete")

\* What a request knows of an account that it alone has in hand: nothing yet,
\* but then the list tells it; what it found; what its action made of it.
Knows(q, rs, s, o, m, a) ==
  /\ q.kind \in {"inspect", "refresh"} /\ q.phase = "begun" =>
       (a \in DOMAIN rs => Tells(s, o, m, a, rs[a]))
  /\ q.phase \in {"upstream", "found"} =>
       a \in DOMAIN q.found /\ Shows(s, a, q.found[a]) /\ (s[a] = "deleted" => a \in o)
  /\ q.kind = "batch" =>
       /\ a \in DOMAIN q.found
       /\ Shows(s, a, q.found[a]) \/ (a \in m /\ ~q.found[a].executed)
       /\ s[a] = "deleted" => a \in o \/ ~q.found[a].executed \/ q.found[a].action = "delete"

ListTells ==
  ~running => \A a \in DOMAIN rows :
    a \in touched \/ InFlight(a) # {} \/ Tells(store, orphaned, misled, a, rows[a])

RunTells ==
  runPhase = "acting" => \A a \in DOMAIN runRows :
    a \in touched \/ Tells(store, orphaned, {}, a, runRows[a])

RequestsKnow ==
  \A r \in Requests : \A a \in request[r].accounts :
    a \in touched \/ Knows(request[r], rows, store, orphaned, misled, a)

\* A request that is no batch is for one account.
Alone ==
  \A r \in Requests : request[r].kind \in {"inspect", "refresh"} =>
    \A a, b \in request[r].accounts : a = b

TellInv == ListTells /\ RunTells /\ RequestsKnow /\ Alone

\* What is told of an account holds as long as nothing befalls the account but
\* a deletion with the file of another one.
Drifts(a) == store'[a] = store[a] \/ (store'[a] = "deleted" /\ a \in orphaned')

LEMMA TellsKept ==
  ASSUME NEW a, NEW row, NEW m, NEW n, Tells(store, orphaned, m, a, row), Drifts(a),
         orphaned \subseteq orphaned', a \in m => a \in n
  PROVE  Tells(store', orphaned', n, a, row)
BY DEF Tells, Shows, Drifts

LEMMA KnowsKept ==
  ASSUME NEW a, NEW q, Knows(q, rows, store, orphaned, misled, a), Drifts(a),
         orphaned \subseteq orphaned', a \in misled => a \in misled',
         a \in DOMAIN rows' => a \in DOMAIN rows /\ rows'[a] = rows[a]
  PROVE  Knows(q, rows', store', orphaned', misled', a)
BY DEF Knows, Tells, Shows, Drifts

\* Nothing but the accounts of an action's file drifts.
LEMMA AppliedDrifts ==
  ASSUME NEW a, NEW action, NEW b \in Accounts, b # a,
         store' = Applied(a, action), orphaned' = orphaned \cup Orphans(a, action)
  PROVE  Drifts(b)
BY DEF Drifts, Applied, Orphans, Existing

\* A step of a request: it leaves the run alone, and what it no longer has in
\* hand is told by the list.
LEMMA RequestTells ==
  ASSUME TypeInv, OverlapInv, TellInv, NEW r \in Requests, NEW q,
         request' = [request EXCEPT ![r] = q],
         UNCHANGED <<running, runPhase, runRows>>,
         touched \subseteq touched', orphaned \subseteq orphaned',
         \A a \in Accounts \ request[r].accounts :
           Drifts(a) /\ (a \in DOMAIN rows' => a \in DOMAIN rows /\ rows'[a] = rows[a]),
         \A a \in Accounts \ (request[r].accounts \cup q.accounts) : a \in misled => a \in misled',
         \A a \in q.accounts \ request[r].accounts : a \in touched' \/ InFlight(a) = {},
         DOMAIN rows' \subseteq Accounts,
         \A a \in q.accounts : a \in touched' \/ Knows(q, rows', store', orphaned', misled', a),
         \A a \in request[r].accounts \ q.accounts :
           ~running /\ a \in DOMAIN rows' => a \in touched' \/ Tells(store', orphaned', misled', a, rows'[a]),
         q.kind \in {"inspect", "refresh"} => \A a, b \in q.accounts : a = b
  PROVE  TellInv'
<1>1. request'[r] = q /\ \A s \in Requests : s # r => request'[s] = request[s]
  BY DEF TypeInv
<1>2. \A s \in Requests : request[s].accounts \subseteq Accounts BY DEF TypeInv, RequestOK
<1>3. DOMAIN runRows \subseteq Accounts BY RowMapIs DEF TypeInv
<1>4. ListTells'
  <2> SUFFICES ASSUME ~running, NEW a \in DOMAIN rows', a \notin touched', InFlight(a)' = {}
               PROVE  Tells(store', orphaned', misled', a, rows'[a])
    BY DEF ListTells
  <2>1. a \notin q.accounts BY <1>1 DEF InFlight
  <2>2. CASE a \in request[r].accounts BY <2>1, <2>2
  <2>3. CASE a \notin request[r].accounts
    <3>1. InFlight(a) = {} BY <1>1, <2>3 DEF InFlight
    <3>2. a \in DOMAIN rows /\ rows'[a] = rows[a] /\ Drifts(a) /\ (a \in misled => a \in misled')
      BY <2>1, <2>3
    <3>3. Tells(store, orphaned, misled, a, rows[a]) BY <3>1, <3>2 DEF TellInv, ListTells
    <3> QED BY <3>2, <3>3, TellsKept
  <2> QED BY <2>2, <2>3
<1>5. RunTells'
  <2> SUFFICES ASSUME runPhase = "acting", NEW a \in DOMAIN runRows, a \notin touched'
               PROVE  Tells(store', orphaned', {}, a, runRows[a])
    BY DEF RunTells
  <2>1. a \notin request[r].accounts BY DEF OverlapInv
  <2>2. Drifts(a) BY <1>3, <2>1
  <2>3. Tells(store, orphaned, {}, a, runRows[a]) BY DEF TellInv, RunTells
  <2> QED BY <2>2, <2>3, TellsKept
<1>6. RequestsKnow'
  <2> SUFFICES ASSUME NEW s \in Requests, NEW a \in request'[s].accounts, a \notin touched'
               PROVE  Knows(request'[s], rows', store', orphaned', misled', a)
    BY DEF RequestsKnow
  <2>1. CASE s = r BY <1>1, <2>1
  <2>2. CASE s # r
    <3>1. request'[s] = request[s] /\ a \in request[s].accounts BY <1>1, <2>2
    <3>2. a \in Accounts \ request[r].accounts BY <1>2, <2>2, <3>1 DEF OverlapInv
    <3>3. Knows(request[s], rows, store, orphaned, misled, a) BY <3>1 DEF TellInv, RequestsKnow
    <3>4. a \notin q.accounts BY <3>1, <3>2 DEF InFlight
    <3> QED BY <3>1, <3>2, <3>3, <3>4, KnowsKept
  <2> QED BY <2>1, <2>2
<1>7. Alone'
  <2> SUFFICES ASSUME NEW s \in Requests, request'[s].kind \in {"inspect", "refresh"}
               PROVE  \A a, b \in request'[s].accounts : a = b
    BY DEF Alone
  <2>1. CASE s = r BY <1>1, <2>1
  <2>2. CASE s # r BY <1>1, <2>2 DEF TellInv, Alone
  <2> QED BY <2>1, <2>2
<1> QED BY <1>4, <1>5, <1>6, <1>7 DEF TellInv

LEMMA TellBegin ==
  ASSUME TypeInv, OverlapInv, TellInv, NEW r \in Requests, NEW kind, NEW accounts, NEW found,
         Begin(r, kind, accounts, found),
         kind # "batch" => misled' = misled,
         \A a \in Accounts \ accounts : a \in misled => a \in misled',
         kind \in {"inspect", "refresh"} => \A a, b \in accounts : a = b,
         kind = "batch" => \A a \in accounts :
           /\ a \in DOMAIN found /\ found[a].executed = FALSE
           /\ Shows(store, a, found[a]) \/ a \in misled'
  PROVE  TellInv'
<1> DEFINE q == [kind |-> kind, phase |-> "begun", accounts |-> accounts, found |-> found]
<1>1. /\ request[r] = Idle /\ request' = [request EXCEPT ![r] = q]
      /\ touched' = touched \cup Overlapped(accounts)
      /\ UNCHANGED <<store, rows, running, runRows, runPhase, orphaned>>
  BY DEF Begin
<1>2. q.kind = kind /\ q.phase = "begun" /\ q.accounts = accounts /\ q.found = found OBVIOUS
<1> HIDE DEF q
<1>3. request[r].accounts = {} BY <1>1 DEF Idle
<1>4. \A a \in accounts : a \in touched' \/ (~running /\ InFlight(a) = {})
  BY <1>1 DEF Overlapped
<1>5. ASSUME NEW a \in accounts, a \notin touched'
      PROVE  Knows(q, rows', store', orphaned', misled', a)
  <2>1. kind # "batch" /\ a \in DOMAIN rows => Tells(store, orphaned, misled', a, rows[a])
    BY <1>1, <1>4, <1>5 DEF TellInv, ListTells
  <2> QED BY <1>1, <1>2, <2>1 DEF Knows
<1>6. \A a : Drifts(a) BY <1>1 DEF Drifts
<1>7. DOMAIN rows' \subseteq Accounts BY <1>1, RowMapIs DEF TypeInv
<1> QED BY <1>1, <1>2, <1>3, <1>4, <1>5, <1>6, <1>7, RequestTells

LEMMA TellAdvance ==
  ASSUME TypeInv, OverlapInv, TellInv, NEW r \in Requests, NEW a \in Accounts,
         NEW phase \in {"upstream", "found"}, NEW row, Advance(r, a, phase, row),
         request[r].kind # "batch", \A b \in Accounts \ {a} : store'[b] = store[b],
         a \in touched \/ (Shows(store', a, row) /\ (store'[a] = "deleted" => a \in orphaned))
  PROVE  TellInv'
<1> DEFINE found == [b \in {a} |-> row]
           q == [kind |-> request[r].kind, phase |-> phase, accounts |-> {a}, found |-> found]
<1>1. /\ request[r].accounts = {a} /\ request' = [request EXCEPT ![r] = q]
      /\ UNCHANGED <<rows, running, runRows, runPhase, touched, orphaned, misled>>
  BY DEF Advance, history
<1>2. /\ q.kind = request[r].kind /\ q.phase = phase /\ q.accounts = {a} /\ q.found = found
      /\ DOMAIN found = {a} /\ found[a] = row
  OBVIOUS
<1> HIDE DEF q, found
<1>3. a \in touched' \/ Knows(q, rows', store', orphaned', misled', a)
  BY <1>1, <1>2 DEF Knows
<1>4. \A b \in Accounts \ {a} : Drifts(b) BY DEF Drifts
<1>5. DOMAIN rows' \subseteq Accounts BY <1>1, RowMapIs DEF TypeInv
<1> QED BY <1>1, <1>2, <1>3, <1>4, <1>5, RequestTells

\* The end of a request, whose accounts the list must tell from then on.
LEMMA TellDone ==
  ASSUME TypeInv, OverlapInv, TellInv, NEW r \in Requests, NEW told, Done(r, told),
         told \subseteq request[r].accounts,
         \A a \in Accounts \ request[r].accounts :
           a \in DOMAIN rows' => a \in DOMAIN rows /\ rows'[a] = rows[a],
         DOMAIN rows' \subseteq Accounts,
         \A a \in request[r].accounts :
           ~running /\ a \in DOMAIN rows' =>
             a \in touched \/ Tells(store, orphaned, misled \ told, a, rows'[a])
  PROVE  TellInv'
<1>1. /\ request' = [request EXCEPT ![r] = Idle]
      /\ misled' = misled \ told
      /\ UNCHANGED <<store, running, runRows, runPhase, touched, orphaned>>
  BY DEF Done
<1>2. Idle.accounts = {} /\ Idle.kind = "none" BY DEF Idle
<1> HIDE DEF Idle
<1>3. \A a : Drifts(a) BY <1>1 DEF Drifts
<1> QED BY <1>1, <1>2, <1>3, RequestTells

LEMMA TellFind ==
  ASSUME TypeInv, OverlapInv, TellInv, NEW r \in Requests, NEW a \in Accounts,
         FindInspected(r, a) \/ FindRefreshed(r, a) \/ Refresh(r, a)
  PROVE  TellInv'
<1>1. PICK phase, row :
        phase \in {"upstream", "found"} /\ Advance(r, a, phase, row) /\ row.disabled = IsDisabled(a)
  <2> DEFINE base == BaseRow(IsDisabled(a))
  <2>1. base.disabled = IsDisabled(a) BY DEF BaseRow
  <2>2. \A v : RowFor(v, IsDisabled(a)).disabled = IsDisabled(a) BY DEF RowFor
  <2>3. \/ Advance(r, a, "found", base) \/ Advance(r, a, "upstream", base)
        \/ \E v : Advance(r, a, "found", RowFor(v, IsDisabled(a)))
    BY DEF FindInspected, FindRefreshed, Refresh
  <2> HIDE DEF base
  <2> QED BY <2>1, <2>2, <2>3
<1>2. request[r].kind # "batch" /\ UNCHANGED store /\ store[a] # "deleted"
  BY DEF FindInspected, FindRefreshed, Refresh, Existing
<1>3. Shows(store', a, row)
  BY <1>1, <1>2 DEF Shows, IsDisabled, TypeInv
<1> QED BY <1>1, <1>2, <1>3, TellAdvance

LEMMA TellUpstream ==
  ASSUME TypeInv, FoundInv, OverlapInv, TellInv, NEW r \in Requests, NEW a \in Accounts,
         Refreshed(r, a) \/ RefreshFails(r, a)
  PROVE  TellInv'
<1> DEFINE copy == request[r].found[a].disabled
<1>1. request[r].phase = "upstream" /\ a \in DOMAIN request[r].found BY DEF Refreshed, RefreshFails
<1>2. PICK row : Advance(r, a, "found", row) /\ row.disabled = copy
  <2> DEFINE base   == BaseRow(copy)
             failed == [base EXCEPT !.error = TRUE]
  <2>1. base.disabled = copy /\ failed.disabled = copy BY DEF BaseRow
  <2>2. \A v : RowFor(v, copy).disabled = copy BY DEF RowFor
  <2>3. \/ Advance(r, a, "found", base) \/ Advance(r, a, "found", failed)
        \/ \E v : Advance(r, a, "found", RowFor(v, copy))
    BY DEF Refreshed, RefreshFails
  <2> HIDE DEF base, failed, copy
  <2> QED BY <2>1, <2>2, <2>3
<1>3. request[r].kind # "batch" BY <1>1 DEF FoundInv
<1>4. \A b \in Accounts \ {a} : store'[b] = store[b]
  BY DEF Refreshed, RefreshFails, WrittenBack, TypeInv
<1>5. a \in touched \/ (Shows(store, a, request[r].found[a]) /\ (store[a] = "deleted" => a \in orphaned))
  <2>1. a \in request[r].accounts BY <1>2 DEF Advance
  <2> QED BY <1>1, <2>1 DEF TellInv, RequestsKnow, Knows
<1>6. store'[a] = store[a] \/ store'[a] = IF copy THEN "disabled" ELSE "enabled"
  BY DEF Refreshed, RefreshFails, WrittenBack, TypeInv
<1>7. a \in touched \/ (Shows(store', a, row) /\ (store'[a] = "deleted" => a \in orphaned))
  BY <1>2, <1>5, <1>6 DEF Shows
<1> QED BY <1>2, <1>3, <1>4, <1>7, TellAdvance

LEMMA TellExecute ==
  ASSUME TypeInv, OverlapInv, TellInv, NEW r \in Requests, NEW a \in Accounts, ExecuteItem(r, a)
  PROVE  TellInv'
<1> DEFINE item  == request[r].found[a]
           row   == [action |-> item.action, error |-> FALSE, quota |-> FALSE, denied |-> FALSE,
                     disabled |-> IF item.action = "delete" THEN item.disabled
                                  ELSE item.action = "disable",
                     executed |-> TRUE, failed |-> FALSE]
           found == [request[r].found EXCEPT ![a] = row]
           q == [kind |-> "batch", phase |-> "begun", accounts |-> request[r].accounts, found |-> found]
<1>1. /\ request[r].kind = "batch" /\ a \in DOMAIN request[r].found
      /\ store' = Applied(a, item.action) /\ orphaned' = orphaned \cup Orphans(a, item.action)
      /\ request' = [request EXCEPT ![r] = q]
      /\ UNCHANGED <<rows, running, runRows, runPhase, touched, misled>>
  BY DEF ExecuteItem
<1>2. a \in request[r].accounts BY <1>1 DEF OverlapInv
<1>3. /\ row.executed /\ row.action = item.action
      /\ item.action # "delete" => row.disabled = (item.action = "disable")
  OBVIOUS
<1>4. /\ store'[a] = "deleted" => item.action = "delete"
      /\ item.action = "delete" => store'[a] = "deleted"
      /\ item.action # "delete" => store'[a] = IF item.action = "disable" THEN "disabled" ELSE "enabled"
  BY <1>1 DEF Applied
<1>5. Shows(store', a, row) BY <1>3, <1>4 DEF Shows
<1>6. \A b \in Accounts \ {a} : Drifts(b) BY <1>1, AppliedDrifts
<1>7. /\ DOMAIN found = DOMAIN request[r].found /\ found[a] = row
      /\ \A b \in DOMAIN found \ {a} : found[b] = request[r].found[b]
  BY <1>1
<1>8. q.kind = "batch" /\ q.phase = "begun" /\ q.accounts = request[r].accounts /\ q.found = found
  OBVIOUS
<1> HIDE DEF q, found, row
<1>9. ASSUME NEW b \in request[r].accounts, b \notin touched'
      PROVE  Knows(q, rows', store', orphaned', misled', b)
  <2>1. CASE b = a BY <1>1, <1>3, <1>4, <1>5, <1>7, <1>8, <2>1 DEF Knows
  <2>2. CASE b # a
    <3>1. b \in Accounts BY DEF TypeInv, RequestOK
    <3>2. Knows(request[r], rows, store, orphaned, misled, b)
      BY <1>1, <1>9 DEF TellInv, RequestsKnow
    <3>3. Knows(request[r], rows', store', orphaned', misled', b)
      BY <1>1, <1>6, <2>2, <3>1, <3>2, KnowsKept
    <3> QED BY <1>1, <1>7, <1>8, <2>2, <3>3 DEF Knows
  <2> QED BY <2>1, <2>2
<1>10. DOMAIN rows' \subseteq Accounts BY <1>1, RowMapIs DEF TypeInv
<1>11. orphaned \subseteq orphaned' BY <1>1
<1> QED BY <1>1, <1>2, <1>6, <1>8, <1>9, <1>10, <1>11, RequestTells

LEMMA TellMerge ==
  ASSUME TypeInv, FoundInv, OverlapInv, TellInv, NEW r \in Requests, NEW a \in Accounts,
         MergeInspected(r, a) \/ MergeRefreshed(r, a)
  PROVE  TellInv'
<1> DEFINE found == request[r].found[a]
<1>1. /\ request[r].kind \in {"inspect", "refresh"} /\ request[r].phase = "found"
      /\ a \in request[r].accounts /\ \E told \in SUBSET {a} : Done(r, told)
  BY DEF MergeInspected, MergeRefreshed
<1>2. \A b \in request[r].accounts : b = a BY <1>1 DEF TellInv, Alone
<1>3. a \in touched \/ (Shows(store, a, found) /\ (store[a] = "deleted" => a \in orphaned))
  BY <1>1 DEF TellInv, RequestsKnow, Knows
<1>4. \/ UNCHANGED rows /\ ~(~running /\ a \in DOMAIN rows)
      \/ \E row : row.disabled = found.disabled /\ rows' = [b \in (DOMAIN rows \ {a}) \cup {a} |->
                                                             IF b \in {a} THEN row ELSE rows[b]]
  <2>1. CASE UNCHANGED rows /\ ~(~running /\ a \in DOMAIN rows) BY <2>1
  <2>2. ASSUME NEW cells, NEW row, row.disabled = found.disabled, Put(cells, {a}, [b \in {a} |-> row])
        PROVE  \E x : x.disabled = found.disabled /\ rows' = [b \in (DOMAIN rows \ {a}) \cup {a} |->
                                                                IF b \in {a} THEN x ELSE rows[b]]
    <3>1. rows' = [b \in (DOMAIN rows \ {a}) \cup {a} |-> IF b \in {a} THEN row ELSE rows[b]]
      BY <2>2 DEF Put
    <3> QED BY <2>2, <3>1
  <2>3. CASE MergeInspected(r, a) /\ ~running /\ a \in DOMAIN rows
    <3> DEFINE row == [action |-> found.action, error |-> found.error, quota |-> found.quota,
                       denied |-> found.denied, disabled |-> found.disabled,
                       executed |-> rows[a].executed, failed |-> rows[a].failed]
    <3>1. row.disabled = found.disabled /\ Put(Cell, {a}, [b \in {a} |-> row])
      BY <2>3 DEF MergeInspected
    <3> HIDE DEF row, found
    <3> QED BY <2>2, <3>1
  <2>4. CASE MergeInspected(r, a) /\ ~(~running /\ a \in DOMAIN rows)
    BY <2>4 DEF MergeInspected
  <2>5. CASE MergeRefreshed(r, a) /\ a \in DOMAIN rows
    <3> DEFINE row == [action |-> rows[a].action, error |-> rows[a].error, quota |-> rows[a].quota,
                       denied |-> rows[a].denied, disabled |-> found.disabled,
                       executed |-> rows[a].executed, failed |-> rows[a].failed]
    <3>1. row.disabled = found.disabled /\ Put(HealthCell, {a}, [b \in {a} |-> row])
      BY <2>5 DEF MergeRefreshed
    <3> HIDE DEF row, found
    <3> QED BY <2>2, <3>1
  <2>6. CASE MergeRefreshed(r, a) /\ a \notin DOMAIN rows
    <3>1. Put(Cell, {a}, [b \in {a} |-> found]) BY <2>6 DEF MergeRefreshed
    <3> HIDE DEF found
    <3> QED BY <2>2, <3>1
  <2> HIDE DEF found
  <2> QED BY <2>3, <2>4, <2>5, <2>6
<1> HIDE DEF found
<1>5. DOMAIN rows \subseteq Accounts BY RowMapIs DEF TypeInv
<1>6. DOMAIN rows' \subseteq Accounts BY <1>4, <1>5
<1>7. \A b \in Accounts \ {a} : b \in DOMAIN rows' => b \in DOMAIN rows /\ rows'[b] = rows[b]
  BY <1>4
<1>8. ~running /\ a \in DOMAIN rows' => a \in touched \/ \A m : Tells(store, orphaned, m, a, rows'[a])
  <2>1. ~running /\ a \in DOMAIN rows' => rows'[a].disabled = found.disabled BY <1>4
  <2> QED BY <1>3, <2>1 DEF Tells, Shows
<1> QED BY <1>1, <1>2, <1>6, <1>7, <1>8, TellDone

\* The account is gone, and the list knew.
LEMMA TellNothing ==
  ASSUME TypeInv, OverlapInv, TellInv, NEW r \in Requests, NEW a \in Accounts, FindNothing(r, a)
  PROVE  TellInv'
<1>1. /\ request[r].kind \in {"inspect", "refresh"} /\ request[r].phase = "begun"
      /\ UNCHANGED rows /\ Done(r, {})
  BY DEF FindNothing, Done, history
<1>2. DOMAIN rows' \subseteq Accounts BY <1>1, RowMapIs DEF TypeInv
<1>3. ASSUME NEW b \in request[r].accounts, b \in DOMAIN rows'
      PROVE  b \in touched \/ Tells(store, orphaned, misled \ {}, b, rows'[b])
  BY <1>1, <1>3 DEF TellInv, RequestsKnow, Knows
<1> QED BY <1>1, <1>2, <1>3, TellDone

LEMMA TellApply ==
  ASSUME TypeInv, OverlapInv, TellInv, NEW r \in Requests, ApplyBatch(r)
  PROVE  TellInv'
<1> DEFINE found == request[r].found
           gone  == {a \in DOMAIN found : found[a].executed /\ found[a].action = "delete"}
           new   == [a \in DOMAIN found \ gone |-> Merged(found[a], a)]
           told  == {a \in DOMAIN found : found[a].executed}
<1>1. request[r].kind = "batch" /\ Put(Cell, DOMAIN found, new) /\ Done(r, told) BY DEF ApplyBatch
<1>2. rows' = [a \in (DOMAIN rows \ DOMAIN found) \cup DOMAIN new |->
                 IF a \in DOMAIN new THEN new[a] ELSE rows[a]]
  BY <1>1 DEF Put
<1>3. found \in RowMap /\ DOMAIN found \subseteq request[r].accounts
  BY DEF OverlapInv, TypeInv, RequestOK
<1>4. DOMAIN found \subseteq Accounts /\ DOMAIN rows \subseteq Accounts
  BY <1>3, RowMapIs DEF TypeInv
<1>5. DOMAIN new = DOMAIN found \ gone /\ \A a \in DOMAIN new : new[a] = Merged(found[a], a)
  OBVIOUS
<1>6. \A a \in DOMAIN new : ~found[a].executed \/ found[a].action # "delete" OBVIOUS
<1>7. \A a \in DOMAIN new : found[a] \in Row BY <1>3, RowOf
<1>12. told \subseteq DOMAIN found /\ \A a \in told : found[a].executed OBVIOUS
<1> HIDE DEF new, gone, told, found
<1>8. DOMAIN rows' = (DOMAIN rows \ DOMAIN found) \cup DOMAIN new BY <1>2
<1>9. DOMAIN rows' \subseteq Accounts BY <1>4, <1>5, <1>8
<1>10. \A a \in Accounts \ request[r].accounts :
         a \in DOMAIN rows' => a \in DOMAIN rows /\ rows'[a] = rows[a]
  BY <1>2, <1>3, <1>5, <1>8
<1>11. ASSUME NEW a \in request[r].accounts, a \in DOMAIN rows', a \notin touched
       PROVE  Tells(store, orphaned, misled \ told, a, rows'[a])
  <2>1. /\ a \in DOMAIN found
        /\ Shows(store, a, found[a]) \/ (a \in misled /\ ~found[a].executed)
        /\ store[a] = "deleted" => a \in orphaned \/ ~found[a].executed \/ found[a].action = "delete"
    BY <1>1, <1>11 DEF TellInv, RequestsKnow, Knows, found
  <2>2. a \in DOMAIN new /\ rows'[a] = Merged(found[a], a) BY <1>2, <1>5, <1>8, <1>11, <2>1
  <2> DEFINE m == Merged(found[a], a)
  <2>3. m.disabled = found[a].disabled /\ (~found[a].executed => m.failed)
    <3>1. found[a] \in Row BY <1>7, <2>2
    <3>2. CASE a \in DOMAIN rows BY <3>1, <3>2 DEF Merged, Row
    <3>3. CASE a \notin DOMAIN rows
      <4>1. m = [found[a] EXCEPT !.failed = ~found[a].executed] BY <3>3 DEF Merged
      <4> QED BY <3>1, <4>1 DEF Row
    <3> QED BY <3>2, <3>3
  <2> HIDE DEF m
  <2>4. ~found[a].executed \/ found[a].action # "delete" BY <1>6, <2>2
  <2>5. Tells(store, orphaned, misled \ told, a, m) BY <1>12, <2>1, <2>3, <2>4 DEF Tells, Shows
  <2> QED BY <2>2, <2>5 DEF m
<1>13. told \subseteq request[r].accounts BY <1>3, <1>12
<1> QED BY <1>1, <1>9, <1>10, <1>11, <1>13, TellDone

\* A run has every account in hand, and what is in flight with it is touched.
LEMMA TellRun ==
  ASSUME TypeInv, OverlapInv, TellInv, StartRun \/ Inspect \/ FinishRun \/ FailRun
  PROVE  TellInv'
<1>1. request' = request
  BY DEF StartRun, Inspect, FinishRun, FailRun
<1>2. \A r \in Requests : request[r].accounts \subseteq touched'
  BY DEF StartRun, Inspect, FinishRun, FailRun, OverlapInv, history
<1>3. RequestsKnow' /\ Alone'
  BY <1>1, <1>2 DEF RequestsKnow, TellInv, Alone
<1>4. CASE StartRun
  BY <1>3, <1>4 DEF StartRun, TellInv, ListTells, RunTells
<1>5. CASE Inspect
  <2>1. running' /\ UNCHANGED <<store, touched, orphaned>> BY <1>5 DEF Inspect, OverlapInv, history
  <2>2. PICK sample \in SUBSET Existing : \E v :
          runRows' = [a \in sample |-> RowFor(v[a], IsDisabled(a))]
    BY <1>5 DEF Inspect
  <2>3. PICK v : runRows' = [a \in sample |-> RowFor(v[a], IsDisabled(a))] BY <2>2
  <2>4. ASSUME NEW a \in DOMAIN runRows' PROVE Tells(store, orphaned, {}, a, runRows'[a])
    <3>1. a \in Existing /\ runRows'[a].disabled = IsDisabled(a) BY <2>3 DEF RowFor
    <3> QED BY <3>1 DEF Tells, Shows, Existing, IsDisabled, TypeInv
  <2> QED BY <1>3, <2>1, <2>4 DEF TellInv, ListTells, RunTells
<1>6. CASE FinishRun
  <2>1. \A a \in DOMAIN rows' : a \in touched \/ Tells(store, orphaned, misled, a, rows'[a])
    BY <1>6 DEF FinishRun, TellInv, RunTells, Tells
  <2> QED BY <1>3, <1>6, <2>1 DEF FinishRun, TellInv, ListTells, RunTells, history
<1>7. CASE FailRun
  <2>1. DOMAIN rows' = {} BY <1>7 DEF FailRun, NoRows
  <2> QED BY <1>3, <1>7, <2>1 DEF FailRun, TellInv, ListTells, RunTells, history
<1> QED BY <1>4, <1>5, <1>6, <1>7

LEMMA TellAct ==
  ASSUME TypeInv, OverlapInv, TellInv, NEW a \in Accounts, Act(a) \/ ActFails(a)
  PROVE  TellInv'
<1>1. /\ running' /\ runPhase = "acting" /\ a \in DOMAIN runRows
      /\ UNCHANGED <<request, touched, runPhase>>
  BY DEF Act, ActFails, OverlapInv, history
<1>2. RequestsKnow' /\ Alone' /\ ListTells'
  BY <1>1 DEF RequestsKnow, TellInv, Alone, ListTells, OverlapInv
<1>3. PICK row : runRows' = [runRows EXCEPT ![a] = row]
  BY DEF Act, ActFails
<1>4. DOMAIN runRows \subseteq Accounts BY RowMapIs DEF TypeInv
<1>5. ASSUME Drifts(a) => Tells(store', orphaned', {}, a, runRows'[a]) \/ a \in touched,
             orphaned \subseteq orphaned', \A b \in Accounts \ {a} : Drifts(b),
             ~Drifts(a) => Tells(store', orphaned', {}, a, runRows'[a])
      PROVE  RunTells'
  <2> SUFFICES ASSUME NEW b \in DOMAIN runRows, b \notin touched
               PROVE  Tells(store', orphaned', {}, b, runRows'[b])
    BY <1>1, <1>3 DEF RunTells
  <2>1. CASE b = a BY <1>5, <2>1
  <2>2. CASE b # a
    <3>1. runRows'[b] = runRows[b] /\ Drifts(b) BY <1>3, <1>4, <1>5, <2>2
    <3>2. Tells(store, orphaned, {}, b, runRows[b]) BY <1>1 DEF TellInv, RunTells
    <3> QED BY <1>5, <3>1, <3>2, TellsKept
  <2> QED BY <2>1, <2>2
<1>6. CASE Act(a)
  <2>1. PICK action :
          /\ store' = Applied(a, action) /\ orphaned' = orphaned \cup Orphans(a, action)
          /\ runRows' = [runRows EXCEPT ![a] =
               [action |-> action, error |-> runRows[a].error, quota |-> runRows[a].quota,
                denied |-> runRows[a].denied, executed |-> TRUE, failed |-> FALSE,
                disabled |-> IF action = "delete" THEN runRows[a].disabled ELSE action = "disable"]]
    BY <1>6 DEF Act
  <2>2. /\ runRows'[a].action = action /\ runRows'[a].executed
        /\ action # "delete" => runRows'[a].disabled = (action = "disable")
    BY <1>1, <2>1
  <2>3. /\ action = "delete" => store'[a] = "deleted"
        /\ action # "delete" => store'[a] = IF action = "disable" THEN "disabled" ELSE "enabled"
    BY <2>1 DEF Applied
  <2>4. Tells(store', orphaned', {}, a, runRows'[a]) BY <2>2, <2>3 DEF Tells, Shows
  <2>5. \A b \in Accounts \ {a} : Drifts(b) BY <2>1, AppliedDrifts
  <2> QED BY <1>2, <1>5, <2>1, <2>4, <2>5 DEF TellInv
<1>7. CASE ActFails(a)
  <2>1. UNCHANGED <<store, orphaned>> BY <1>7 DEF ActFails, history
  <2>2. runRows'[a].disabled = runRows[a].disabled /\ runRows'[a].failed
    BY <1>1, <1>7 DEF ActFails
  <2>3. a \in touched \/ Tells(store', orphaned', {}, a, runRows'[a])
    <3>1. a \in touched \/ Tells(store, orphaned, {}, a, runRows[a]) BY <1>1 DEF TellInv, RunTells
    <3> QED BY <2>1, <2>2, <3>1 DEF Tells, Shows
  <2>4. \A b : Drifts(b) BY <2>1 DEF Drifts
  <2> QED BY <1>2, <1>5, <2>1, <2>3, <2>4 DEF TellInv
<1> QED BY <1>6, <1>7

LEMMA TellStep ==
  ASSUME TypeInv, FoundInv, OverlapInv, TellInv, [Next]_vars
  PROVE  TellInv'
<1>1. CASE UNCHANGED vars
  BY <1>1 DEF vars, history, TellInv, ListTells, RunTells, RequestsKnow, Alone, InFlight
<1>2. CASE StartRun \/ Inspect \/ FinishRun \/ FailRun BY <1>2, TellRun
<1>3. ASSUME NEW a \in Accounts, Act(a) \/ ActFails(a) PROVE TellInv' BY <1>3, TellAct
<1>4. ASSUME NEW r \in Requests, NEW a \in Accounts, BeginInspectOne(r, a) \/ BeginRefresh(r, a)
      PROVE  TellInv'
  <2>1. PICK kind \in {"inspect", "refresh"} : Begin(r, kind, {a}, NoRows) /\ UNCHANGED misled
    BY <1>4 DEF BeginInspectOne, BeginRefresh, BeginOne
  <2> QED BY <2>1, TellBegin
<1>5. ASSUME NEW r \in Requests, NEW accounts \in SUBSET known, NEW actions, NEW flags,
             BeginBatch(r, accounts, actions, flags)
      PROVE  TellInv'
  <2> DEFINE found == ItemsOf(accounts, actions, flags)
  <2>1. /\ Begin(r, "batch", accounts, found)
        /\ misled' = (misled \ accounts) \cup {a \in accounts \cap Existing : flags[a] # IsDisabled(a)}
    BY <1>5 DEF BeginBatch, ItemsOf
  <2>2. \A a \in accounts : /\ a \in DOMAIN found /\ found[a].disabled = flags[a]
                            /\ found[a].executed = FALSE
    BY DEF ItemsOf, BaseRow
  <2> HIDE DEF found
  <2>3. ASSUME NEW a \in accounts PROVE Shows(store, a, found[a]) \/ a \in misled'
    <3>1. a \in Accounts BY <1>5 DEF TypeInv
    <3> QED BY <2>1, <2>2, <3>1 DEF Shows, Existing, IsDisabled, TypeInv
  <2>4. \A a \in Accounts \ accounts : a \in misled => a \in misled' BY <2>1
  <2> QED BY <2>1, <2>2, <2>3, <2>4, TellBegin
<1>6. ASSUME NEW r \in Requests, NEW a \in Accounts,
             FindInspected(r, a) \/ FindRefreshed(r, a) \/ Refresh(r, a)
      PROVE  TellInv'
  BY <1>6, TellFind
<1>7. ASSUME NEW r \in Requests, NEW a \in Accounts, Refreshed(r, a) \/ RefreshFails(r, a)
      PROVE  TellInv'
  BY <1>7, TellUpstream
<1>8. ASSUME NEW r \in Requests, NEW a \in Accounts, ExecuteItem(r, a) PROVE TellInv'
  BY <1>8, TellExecute
<1>9. ASSUME NEW r \in Requests, NEW a \in Accounts, FindNothing(r, a) PROVE TellInv'
  BY <1>9, TellNothing
<1>10. ASSUME NEW r \in Requests, NEW a \in Accounts, MergeInspected(r, a) \/ MergeRefreshed(r, a)
       PROVE  TellInv'
  BY <1>10, TellMerge
<1>11. ASSUME NEW r \in Requests, ApplyBatch(r) PROVE TellInv' BY <1>11, TellApply
<1> QED BY <1>1, <1>2, <1>3, <1>4, <1>5, <1>6, <1>7, <1>8, <1>9, <1>10, <1>11 DEF Next

LEMMA TellInit == Init => TellInv
<1>1. Idle.accounts = {} /\ Idle.kind = "none" BY DEF Idle
<1> HIDE DEF Idle
<1>2. Init => \A r \in Requests : request[r] = Idle BY DEF Init
<1>3. Init => DOMAIN rows = {} /\ runPhase = "off" BY DEF Init, NoRows
<1> QED BY <1>1, <1>2, <1>3 DEF TellInv, ListTells, RunTells, RequestsKnow, Alone

(* ------------------------------ Theorems ------------------------------ *)

\* The counters shown are those of the list shown, whatever runs, single
\* inspections, token refreshes and manual batches interleave: the +1 and -1
\* of adjustAccountInspection{Summary,HealthCounts}ForResult never drift.
THEOREM CountsMatch == Spec => []CountsMatchRows
<1>1. Inv => CountsMatchRows BY DEF Inv
<1> QED BY <1>1, InvInit, InvStep, PTL DEF Spec

\* Every state of the result list is well typed.
THEOREM ResultsTyped == Spec => []TypeOK
<1>1. Inv => TypeOK
  BY RowMapIs DEF Inv, TypeInv, TypeOK, RequestOK, IsRequest, IsRowMap
<1> QED BY <1>1, InvInit, InvStep, PTL DEF Spec

\* The token refresh of the upstream auth manager, which writes back a copy of
\* the account as it was before, changes no account's state, unless a run or
\* another request had the account in hand at the same time.
THEOREM RefreshIsNeutral == Spec => RefreshKeepsAccounts
<1> DEFINE Neutral == \A r \in Requests : \A a \in request[r].accounts :
             request[r].phase = "upstream" /\ request'[r] # request[r]
               => store'[a] = store[a] \/ a \in touched \cup orphaned
<1>1. ASSUME TypeInv, FoundInv, OverlapInv, CopyInv, [Next]_vars PROVE Neutral
  <2> SUFFICES ASSUME NEW r \in Requests, NEW a \in request[r].accounts,
                      request[r].phase = "upstream", request'[r] # request[r],
                      a \notin touched \cup orphaned
               PROVE  store'[a] = store[a]
    OBVIOUS
  <2>1. CASE UNCHANGED store BY <2>1
  <2>2. ASSUME NEW q \in Requests, NEW s, request' = [request EXCEPT ![q] = s] PROVE q = r
    <3>1. q # r => request'[r] = request[r] BY <2>2
    <3> QED BY <3>1
  <2>3. CASE UNCHANGED vars BY <2>3 DEF vars
  <2>4. ASSUME NEW b \in Accounts, Act(b) PROVE FALSE BY <2>4 DEF Act
  <2>5. ASSUME NEW q \in Requests, NEW b \in Accounts, ExecuteItem(q, b) PROVE FALSE
    <3>1. request[q].phase = "begun" /\ \E s : request' = [request EXCEPT ![q] = s]
      BY <2>5 DEF ExecuteItem
    <3> QED BY <2>2, <3>1
  <2>6. ASSUME NEW q \in Requests, NEW b \in Accounts, Refreshed(q, b) PROVE store'[a] = store[a]
    <3>1. /\ request[q].accounts = {b}
          /\ \E s : request' = [request EXCEPT ![q] = s]
      BY <2>6 DEF Refreshed, Advance
    <3>2. q = r /\ b = a BY <2>2, <3>1
    <3>3. a \in Accounts BY <2>6, <3>2
    <3>4. store[a] = IF request[r].found[a].disabled THEN "disabled" ELSE "enabled"
      BY <1>1 DEF CopyInv, CopyTrue
    <3> QED BY <1>1, <2>6, <3>2, <3>3, <3>4 DEF Refreshed, WrittenBack, TypeInv
  <2>7. CASE StartRun \/ Inspect \/ FinishRun \/ FailRun
    BY <2>1, <2>7 DEF StartRun, Inspect, FinishRun, FailRun
  <2>8. ASSUME NEW b \in Accounts, ActFails(b) PROVE UNCHANGED store BY <2>8 DEF ActFails
  <2>9. ASSUME NEW q \in Requests, NEW b \in Accounts,
               \/ BeginInspectOne(q, b) \/ BeginRefresh(q, b) \/ FindInspected(q, b)
               \/ FindRefreshed(q, b) \/ FindNothing(q, b) \/ Refresh(q, b) \/ RefreshFails(q, b)
               \/ MergeInspected(q, b) \/ MergeRefreshed(q, b)
        PROVE  UNCHANGED store
    BY <2>9 DEF BeginInspectOne, BeginRefresh, BeginOne, Begin, FindInspected, FindRefreshed, FindNothing,
                Refresh, RefreshFails, MergeInspected, MergeRefreshed, Done
  <2>10. ASSUME NEW q \in Requests, NEW accounts, NEW actions,
                NEW flags, BeginBatch(q, accounts, actions, flags) \/ ApplyBatch(q)
         PROVE  UNCHANGED store
    BY <2>10 DEF BeginBatch, Begin, ApplyBatch, Done
  <2> QED BY <1>1, <2>1, <2>3, <2>4, <2>5, <2>6, <2>7, <2>8, <2>9, <2>10 DEF Next
<1>2. TypeInv /\ FoundInv /\ OverlapInv /\ CopyInv /\ [Next]_vars => [Neutral]_vars BY <1>1
<1>3. TypeInv /\ FoundInv /\ OverlapInv /\ CopyInv /\ [Next]_vars => OverlapInv' /\ CopyInv'
  BY OverlapStep, CopyStep
<1>4. Inv => TypeInv BY DEF Inv
<1> QED BY <1>2, <1>3, <1>4, InvInit, InvStep, CopyInit, PTL DEF Spec, RefreshKeepsAccounts

\* Between runs, and with nothing in flight for it, an account is listed as
\* disabled exactly when it is, and a deleted one is not listed: the copies
\* that inspections, refreshes and manual actions work on without the lock
\* were still true when they were merged. The list is wrong only where a
\* client's own stale flag came with an action that failed.
THEOREM ListTellsAccounts == Spec => []RowsTellAccounts
<1>1. ASSUME TypeInv, TellInv PROVE RowsTellAccounts
  <2> SUFFICES ASSUME NEW a \in DOMAIN rows, ~running, a \notin touched, InFlight(a) = {}
               PROVE  IF a \in Existing
                      THEN rows[a].disabled = IsDisabled(a) \/ (a \in misled /\ rows[a].failed)
                      ELSE \/ a \in orphaned \/ rows[a].failed
                           \/ (rows[a].executed /\ rows[a].action = "delete")
    BY DEF RowsTellAccounts
  <2>1. a \in Accounts /\ rows[a] \in Row BY <1>1, RowOf DEF TypeInv
  <2>2. Tells(store, orphaned, misled, a, rows[a]) BY <1>1 DEF TellInv, ListTells
  <2>3. rows[a].disabled \in BOOLEAN BY <2>1 DEF Row
  <2>4. CASE a \in Existing /\ ~(a \in misled /\ rows[a].failed)
    <3>1. store[a] = IF rows[a].disabled THEN "disabled" ELSE "enabled"
      BY <2>2, <2>4 DEF Tells, Shows, Existing
    <3>2. rows[a].disabled <=> IsDisabled(a) BY <3>1 DEF IsDisabled
    <3>3. IsDisabled(a) \in BOOLEAN BY DEF IsDisabled
    <3> QED BY <2>3, <2>4, <3>2, <3>3
  <2>5. CASE a \notin Existing BY <2>1, <2>2, <2>5 DEF Tells, Existing
  <2> QED BY <2>4, <2>5
<1>2. TypeInv /\ TellInv => RowsTellAccounts BY <1>1
<1>3. TypeInv /\ FoundInv /\ OverlapInv /\ [Next]_vars => OverlapInv' BY OverlapStep
<1>4. TypeInv /\ FoundInv /\ OverlapInv /\ TellInv /\ [Next]_vars => TellInv' BY TellStep
<1>5. Inv => TypeInv BY DEF Inv
<1> QED BY <1>2, <1>3, <1>4, <1>5, InvInit, InvStep, CopyInit, TellInit, PTL DEF Spec
=============================================================================
