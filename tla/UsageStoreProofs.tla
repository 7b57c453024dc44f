--------------------------- MODULE UsageStoreProofs ---------------------------
(***************************************************************************)
(* Proofs about UsageStore for any events, readers and writers: the row,   *)
(* the cache and the answers are exact outside of the races that the       *)
(* history variables name.                                                 *)
(***************************************************************************)
EXTENDS UsageStore, FiniteSetTheorems, WellFoundedInduction, TLAPS

(***************************************************************************)
(* The invariant. Ids are given in order and never again; a rebuild that   *)
(* has counted holds the sums of the table, unless a commit overtook it;   *)
(* what a reader is about to cache is what its cursor asks for, unless a   *)
(* deletion overtook it; the cache is what its cursor asks for, in the     *)
(* table as it is or as a writer that has not invalidated it found it; and *)
(* all of these tables are in the window of every call.                    *)
(***************************************************************************)
IdsInv == \A e \in DOMAIN table : table[e] \in 1..sequence

Exact(t, latest, sums) == latest = Latest(t) /\ sums = Sums(DOMAIN t)

Visible == {table} \cup UNION {pending[w] : w \in Writers}

RebuildOK(x, t) == x.pc = "write" => x.stale \/ Exact(t, x.cursor, x.sums)
StoreOK(x, t, last) ==
  /\ x.max <= last
  /\ x.pc = "store" => x.taint \/ x.stale \/ x.sums = Sums(UpTo(t, x.max))
WindowOK(x, visible) ==
  x.pc # "idle" =>
    /\ \A t \in visible : Sums(UpTo(t, x.max)) \in x.window
    /\ x.pc \in {"store", "answer"} => x.taint \/ x.sums \in x.window
ReaderOK(x, t, last, visible) == RebuildOK(x, t) /\ StoreOK(x, t, last) /\ WindowOK(x, visible)

ReadersInv == \A r \in Readers : ReaderOK(reader[r], table, sequence, Visible)

CacheInv ==
  cache.set => cache.latest <= sequence /\
    (cacheTaint \/ \E t \in Visible : cache.sums = Sums(UpTo(t, cache.latest)))

Inv == TypeOK /\ IdsInv /\ RowExact /\ ReadersInv /\ CacheInv

-----------------------------------------------------------------------------
(* Facts about ids and sums.                                               *)

\* A set of numbers with a bound has a largest one. The sets of what is above
\* a number are finite and ordered by inclusion, so one of them is minimal.
LEMMA MaximumExists ==
  ASSUME NEW N \in Nat, NEW S \in SUBSET (0..N), S # {}
  PROVE  \E m \in S : \A x \in S : x <= m
<1> DEFINE Above(m) == {x \in S : x > m}
           T == {Above(m) : m \in S}
<1>1. IsFiniteSet(S) /\ S \subseteq Int
  <2>1. IsFiniteSet(0..N)
    BY FS_Interval
  <2>2. IsFiniteSet(S)
    BY <2>1, FS_Subset
  <2>. QED  BY <2>2
<1>2. T \subseteq FiniteSubsetsOf(S) /\ T # {}
  <2>1. \A m \in S : Above(m) \in FiniteSubsetsOf(S)
    BY <1>1, FS_Subset DEF FiniteSubsetsOf
  <2>. QED  BY <2>1
<1>3. \E U \in T : \A V \in T : ~(<<V, U>> \in StrictSubsetOrdering(S))
  <2> HIDE DEF T
  <2>. QED  BY <1>2, FS_StrictSubsetOrderingWellFounded, WFMin
<1>4. PICK m \in S : \A V \in T : ~(<<V, Above(m)>> \in StrictSubsetOrdering(S))
  BY <1>3
<1>5. ASSUME NEW x \in S, x > m PROVE FALSE
  <2>1. Above(x) \in T /\ Above(x) \subseteq Above(m) /\ x \in Above(m) /\ x \notin Above(x)
    <3>1. \A y \in S : y > x => y > m
      BY <1>1, <1>5
    <3>2. ~(x > x)
      BY <1>1
    <3>. QED  BY <1>5, <3>1, <3>2
  <2>2. <<Above(x), Above(m)>> \in StrictSubsetOrdering(S)
    BY <2>1 DEF StrictSubsetOrdering
  <2>. QED  BY <1>4, <2>1, <2>2
<1>. QED  BY <1>5

\* Tables give positive ids to some of the events.
IsTable(t) == DOMAIN t \subseteq Events /\ \A e \in DOMAIN t : t[e] \in 1..MaxId

LEMMA TablesAre ==
  ASSUME NEW t
  PROVE  t \in Tables => IsTable(t) /\ t = [e \in DOMAIN t |-> t[e]]
BY DEF Tables, IsTable

\* Latest is what it is meant to be: the largest id, or 0 in an empty table.
LEMMA LatestIs ==
  ASSUME NEW t, IsTable(t)
  PROVE  /\ Latest(t) \in 0..MaxId
         /\ Latest(t) \in Ids(t) \cup {0}
         /\ \A e \in DOMAIN t : t[e] <= Latest(t)
<1>1. Ids(t) \subseteq 1..MaxId
  BY DEF IsTable, Ids
<1>2. \E id \in Ids(t) \cup {0} : \A other \in Ids(t) : other <= id
  <2>1. MaxId \in Nat /\ Ids(t) \cup {0} \in SUBSET (0..MaxId) /\ Ids(t) \cup {0} # {}
    BY <1>1, UsageAssumption
  <2>2. \E id \in Ids(t) \cup {0} : \A other \in Ids(t) \cup {0} : other <= id
    BY <2>1, MaximumExists
  <2>. QED  BY <2>2
<1>3. Latest(t) \in Ids(t) \cup {0} /\ \A other \in Ids(t) : other <= Latest(t)
  BY <1>2 DEF Latest
<1>. QED  BY <1>1, <1>3, UsageAssumption DEF Ids

\* It is the only such number.
LEMMA LatestUnique ==
  ASSUME NEW t, IsTable(t), NEW id \in Nat, id \in Ids(t) \cup {0}, \A e \in DOMAIN t : t[e] <= id
  PROVE  Latest(t) = id
<1>1. Latest(t) \in Nat /\ Latest(t) \in Ids(t) \cup {0} /\ \A e \in DOMAIN t : t[e] <= Latest(t)
  BY LatestIs, UsageAssumption
<1>2. Latest(t) <= id
  BY <1>1 DEF Ids
<1>3. id <= Latest(t)
  BY <1>1 DEF Ids
<1>. QED  BY <1>1, <1>2, <1>3

\* Up to its latest id a table is whole.
LEMMA UpToLatest ==
  ASSUME NEW t, IsTable(t)
  PROVE  UpTo(t, Latest(t)) = DOMAIN t
BY LatestIs DEF UpTo

LEMMA EventsAreFinite ==
  ASSUME NEW S \in SUBSET Events
  PROVE  IsFiniteSet(S) /\ Cardinality(S) \in Nat
BY UsageAssumption, FS_Subset, FS_CardinalityType

LEMMA SumsType ==
  ASSUME NEW S \in SUBSET Events
  PROVE  Sums(S) \in SumsSet
BY EventsAreFinite DEF Sums, SumsSet

\* Sums of disjoint sets of events add up.
LEMMA SumsAdd ==
  ASSUME NEW S \in SUBSET Events, NEW T \in SUBSET Events, S \cap T = {}
  PROVE  Sums(S \cup T) = Plus(Sums(S), Sums(T))
<1>1. \A F : Cardinality((S \cap F) \cup (T \cap F)) = Cardinality(S \cap F) + Cardinality(T \cap F)
  <2> TAKE F
  <2>1. IsFiniteSet(S \cap F) /\ Cardinality(S \cap F) \in Nat
        /\ IsFiniteSet(T \cap F) /\ Cardinality(T \cap F) \in Nat
    BY EventsAreFinite
  <2>2. (S \cap F) \cap (T \cap F) = {}
    OBVIOUS
  <2>3. Cardinality((S \cap F) \cup (T \cap F)) =
          Cardinality(S \cap F) + Cardinality(T \cap F) - Cardinality({})
    BY <2>1, <2>2, FS_Union
  <2>. QED  BY <2>1, <2>3, FS_EmptySet
<1>2. (S \cup T) \cap Failed = (S \cap Failed) \cup (T \cap Failed)
  OBVIOUS
<1>3. (S \cup T) \ Failed = (S \cap (Events \ Failed)) \cup (T \cap (Events \ Failed))
      /\ S \ Failed = S \cap (Events \ Failed) /\ T \ Failed = T \cap (Events \ Failed)
  OBVIOUS
<1>. QED  BY <1>1, <1>2, <1>3 DEF Sums, Plus

\* Taking the sums of some of the events away leaves those of the others.
LEMMA SumsSubtract ==
  ASSUME NEW S \in SUBSET Events, NEW T \in SUBSET S
  PROVE  Minus(Sums(S), Sums(T)) = Sums(S \ T)
<1>1. Sums(S) = Plus(Sums(S \ T), Sums(T))
  <2>1. S = (S \ T) \cup T /\ (S \ T) \cap T = {}
    OBVIOUS
  <2>. QED  BY <2>1, SumsAdd
<1>2. Sums(S \ T) \in SumsSet /\ Sums(T) \in SumsSet
  BY SumsType
<1>3. \A x, y \in SumsSet : Minus(Plus(x, y), y) = x
  BY DEF SumsSet, Minus, Plus, Larger
<1>. QED  BY <1>1, <1>2, <1>3

-----------------------------------------------------------------------------
(* The records of the readers.                                             *)

ReaderPc == {"idle", "cursor", "cache", "row", "rebuild", "write", "invalidate",
             "row again", "count", "count latest", "store", "answer"}

\* The shapes in which a step of a reader rewrites its record.
LEMMA ReaderTypes ==
  ASSUME NEW x \in ReaderSet, NEW pc \in ReaderPc
  PROVE  /\ [x EXCEPT !.pc = pc] \in ReaderSet
         /\ \A n \in Nat : [x EXCEPT !.cursor = n, !.pc = pc] \in ReaderSet
         /\ \A n \in Nat, window \in SUBSET SumsSet :
              [x EXCEPT !.pc = pc, !.max = n, !.window = window] \in ReaderSet
         /\ \A sums \in SumsSet, taint \in BOOLEAN :
              [x EXCEPT !.sums = sums, !.taint = taint, !.pc = pc] \in ReaderSet
         /\ \A sums \in SumsSet, taint, stale \in BOOLEAN :
              [x EXCEPT !.sums = sums, !.taint = taint, !.stale = stale, !.pc = pc] \in ReaderSet
         /\ \A n \in Nat, sums \in SumsSet, stale \in BOOLEAN :
              [x EXCEPT !.cursor = n, !.sums = sums, !.stale = stale, !.pc = pc] \in ReaderSet
<1>. USE DEF ReaderSet, ReaderPc
<1>1. [x EXCEPT !.pc = pc] \in ReaderSet
  OBVIOUS
<1>2. \A n \in Nat : [x EXCEPT !.cursor = n, !.pc = pc] \in ReaderSet
  OBVIOUS
<1>3. \A n \in Nat, window \in SUBSET SumsSet :
        [x EXCEPT !.pc = pc, !.max = n, !.window = window] \in ReaderSet
  OBVIOUS
<1>4. \A sums \in SumsSet, taint \in BOOLEAN :
        [x EXCEPT !.sums = sums, !.taint = taint, !.pc = pc] \in ReaderSet
  OBVIOUS
<1>5. \A sums \in SumsSet, taint, stale \in BOOLEAN :
        [x EXCEPT !.sums = sums, !.taint = taint, !.stale = stale, !.pc = pc] \in ReaderSet
  OBVIOUS
<1>6. \A n \in Nat, sums \in SumsSet, stale \in BOOLEAN :
        [x EXCEPT !.cursor = n, !.sums = sums, !.stale = stale, !.pc = pc] \in ReaderSet
  OBVIOUS
<1>. QED  BY <1>1, <1>2, <1>3, <1>4, <1>5, <1>6

LEMMA RestingOK ==
  /\ Resting \in ReaderSet
  /\ \A t, visible : \A last \in Nat : ReaderOK(Resting, t, last, visible)
BY DEF Resting, ReaderSet, NoSums, SumsSet, ReaderOK, RebuildOK, StoreOK, WindowOK

\* A step of one reader concerns nobody else.
LEMMA ReaderStep ==
  ASSUME TypeOK, ReadersInv, NEW r \in Readers, NEW f \in ReaderSet,
         ReaderOK(f, table, sequence, Visible), Goto(r, f), UNCHANGED <<table, sequence, pending>>
  PROVE  reader' \in [Readers -> ReaderSet] /\ ReadersInv'
<1>1. reader' = [reader EXCEPT ![r] = f] /\ reader \in [Readers -> ReaderSet]
  BY DEF Goto, TypeOK
<1>2. Visible' = Visible
  BY DEF Visible
<1>3. ASSUME NEW q \in Readers PROVE ReaderOK(reader'[q], table, sequence, Visible)
  <2>1. CASE q = r
    BY <2>1, <1>1
  <2>2. CASE q # r
    BY <2>2, <1>1 DEF ReadersInv
  <2>. QED  BY <2>1, <2>2
<1>. QED  BY <1>1, <1>2, <1>3 DEF ReadersInv

\* What the invariant says of the table and of what it is summed up to.
LEMMA TableFacts ==
  ASSUME Inv
  PROVE  /\ IsTable(table) /\ sequence \in Nat
         /\ Latest(table) \in Nat /\ Latest(table) <= sequence
         /\ \A t \in Visible : t \in Tables /\ IsTable(t)
         /\ \A t \in Visible : \A n \in Nat : Sums(UpTo(t, n)) \in SumsSet
         /\ Sums(DOMAIN table) \in SumsSet
         /\ Sums(UpTo(table, Latest(table))) = Sums(DOMAIN table)
<1>1. sequence \in Nat /\ MaxId \in Nat
  BY UsageAssumption DEF Inv, TypeOK
<1>2. \A t \in Visible : t \in Tables /\ IsTable(t)
  BY TablesAre DEF Inv, TypeOK, Visible
<1>3. IsTable(table)
  BY <1>2 DEF Visible
<1>4. Latest(table) \in Nat /\ Latest(table) <= sequence
  <2>1. Latest(table) \in 0..MaxId /\ Latest(table) \in Ids(table) \cup {0}
    BY <1>3, LatestIs
  <2>. QED  BY <1>1, <2>1 DEF Inv, IdsInv, Ids
<1>5. \A t \in Visible : \A n \in Nat : Sums(UpTo(t, n)) \in SumsSet
  BY <1>2, SumsType DEF UpTo, IsTable
<1>6. Sums(DOMAIN table) \in SumsSet
  BY <1>3, SumsType DEF IsTable
<1>7. Sums(UpTo(table, Latest(table))) = Sums(DOMAIN table)
  BY <1>3, UpToLatest
<1>. QED  BY <1>1, <1>2, <1>3, <1>4, <1>5, <1>6, <1>7

LEMMA ReadKeeps == ASSUME Inv, NEW r \in Readers, Read(r) PROVE Inv'
<1> DEFINE x == reader[r]
<1>0. x \in ReaderSet /\ ReaderOK(x, table, sequence, Visible) /\ TypeOK /\ ReadersInv
  BY DEF Inv, TypeOK, ReadersInv
<1>1. ASSUME NEW f \in ReaderSet, ReaderOK(f, table, sequence, Visible), Goto(r, f),
             UNCHANGED <<table, sequence, pending>>, RowExact', CacheInv',
             summary' \in [latest : Nat, sums : SumsSet],
             cache' \in [set : BOOLEAN, latest : Nat, sums : SumsSet],
             summaryTaint' \in BOOLEAN, cacheTaint' \in BOOLEAN
      PROVE  Inv'
  <2>1. reader' \in [Readers -> ReaderSet] /\ ReadersInv'
    BY <1>0, <1>1, ReaderStep
  <2>. QED  BY <1>1, <2>1 DEF Inv, TypeOK, IdsInv
<1>2. ASSUME UNCHANGED <<table, sequence, summary, cache, pending, summaryTaint, cacheTaint>>,
             NEW f \in ReaderSet, ReaderOK(f, table, sequence, Visible), Goto(r, f)
      PROVE  Inv'
  <2>1. RowExact' /\ CacheInv'
    BY <1>2 DEF Inv, RowExact, CacheInv, Visible
  <2>. QED  BY <1>1, <1>2, <2>1 DEF Inv, TypeOK
<1>3. CASE Call(r)
  <2> DEFINE max    == Latest(table)
             window == {Sums(UpTo(t, max)) : t \in Visible}
             f == [Resting EXCEPT !.pc = "cursor", !.max = max, !.window = window]
  <2>1. Goto(r, f) /\ UNCHANGED <<table, sequence, summary, cache, pending, summaryTaint, cacheTaint>>
    BY <1>3 DEF Call, Visible
  <2>2. max \in Nat /\ max <= sequence /\ window \subseteq SumsSet
    BY TableFacts
  <2>3. \A t \in Visible : Sums(UpTo(t, max)) \in window
    OBVIOUS
  <2> HIDE DEF max, window
  <2>4. f \in ReaderSet
    BY <2>2, ReaderTypes, RestingOK DEF ReaderPc
  <2>5. f.pc = "cursor" /\ f.max = max /\ f.window = window
    BY DEF Resting
  <2> HIDE DEF f
  <2>6. ReaderOK(f, table, sequence, Visible)
    BY <2>2, <2>3, <2>5 DEF ReaderOK, RebuildOK, StoreOK, WindowOK
  <2>. QED  BY <1>2, <2>1, <2>4, <2>6
<1>4. CASE ReadCursor(r)
  <2> DEFINE pc == IF x.max = Latest(table) THEN "cache" ELSE "count"
             n  == Latest(table)
             f  == [x EXCEPT !.cursor = n, !.pc = pc]
  <2>1. Goto(r, f) /\ UNCHANGED <<table, sequence, summary, cache, pending, summaryTaint, cacheTaint>>
        /\ x.pc = "cursor"
    BY <1>4 DEF ReadCursor
  <2>2. n \in Nat /\ pc \in {"cache", "count"} /\ pc \in ReaderPc
    BY TableFacts DEF ReaderPc
  <2> HIDE DEF x, pc, n
  <2>3. f \in ReaderSet
    BY <1>0, <2>2, ReaderTypes
  <2>4. f.pc = pc /\ f.max = x.max /\ f.window = x.window
    BY <1>0 DEF ReaderSet
  <2> HIDE DEF f
  <2>5. ReaderOK(f, table, sequence, Visible)
    BY <1>0, <2>1, <2>2, <2>4 DEF ReaderOK, RebuildOK, StoreOK, WindowOK
  <2>. QED  BY <1>2, <2>1, <2>3, <2>5
<1>5. CASE ReadCache(r)
  <2>1. UNCHANGED <<table, sequence, summary, cache, pending, summaryTaint, cacheTaint>>
        /\ x.pc = "cache"
    BY <1>5 DEF ReadCache
  <2>2. CASE cache.set /\ cache.latest = x.max
    <3> DEFINE sums  == cache.sums
               f == [x EXCEPT !.sums = sums, !.taint = cacheTaint, !.pc = "answer"]
    <3>1. Goto(r, f)
      BY <1>5, <2>2 DEF ReadCache
    <3>2. sums \in SumsSet /\ cacheTaint \in BOOLEAN /\ "answer" \in ReaderPc
      BY DEF Inv, TypeOK, ReaderPc
    <3>3. cacheTaint \/ \E t \in Visible : sums = Sums(UpTo(t, x.max))
      BY <2>2 DEF Inv, CacheInv
    <3> HIDE DEF x, sums
    <3>4. f \in ReaderSet
      BY <1>0, <3>2, ReaderTypes
    <3>5. f.pc = "answer" /\ f.max = x.max /\ f.window = x.window /\ f.sums = sums /\ f.taint = cacheTaint
      BY <1>0 DEF ReaderSet
    <3> HIDE DEF f
    <3>6. ReaderOK(f, table, sequence, Visible)
      BY <1>0, <2>1, <3>3, <3>5 DEF ReaderOK, RebuildOK, StoreOK, WindowOK
    <3>. QED  BY <1>2, <2>1, <3>1, <3>4, <3>6
  <2>3. CASE ~(cache.set /\ cache.latest = x.max)
    <3> DEFINE f == [x EXCEPT !.pc = "row"]
    <3>1. Goto(r, f)
      BY <1>5, <2>3 DEF ReadCache
    <3> HIDE DEF x
    <3>2. f \in ReaderSet
      BY <1>0, ReaderTypes DEF ReaderPc
    <3>3. f.pc = "row" /\ f.max = x.max /\ f.window = x.window
      BY <1>0 DEF ReaderSet
    <3> HIDE DEF f
    <3>4. ReaderOK(f, table, sequence, Visible)
      BY <1>0, <2>1, <3>3 DEF ReaderOK, RebuildOK, StoreOK, WindowOK
    <3>. QED  BY <1>2, <2>1, <3>1, <3>2, <3>4
  <2>. QED  BY <2>2, <2>3
<1>6. CASE ReadRow(r)
  <2>1. UNCHANGED <<table, sequence, summary, cache, pending, summaryTaint, cacheTaint>>
        /\ x.pc \in {"row", "row again"}
    BY <1>6 DEF ReadRow
  <2>2. CASE summary.latest = x.max
    <3> DEFINE sums == summary.sums
               f == [x EXCEPT !.sums = sums, !.taint = summaryTaint, !.stale = FALSE, !.pc = "store"]
    <3>1. Goto(r, f)
      BY <1>6, <2>2 DEF ReadRow
    <3>2. sums \in SumsSet /\ summaryTaint \in BOOLEAN /\ "store" \in ReaderPc
      BY DEF Inv, TypeOK, ReaderPc
    <3>3. summaryTaint \/ (x.max = Latest(table) /\ sums = Sums(UpTo(table, x.max)))
      BY <2>2, TableFacts DEF Inv, RowExact
    <3> HIDE DEF x, sums
    <3>4. f \in ReaderSet
      BY <1>0, <3>2, ReaderTypes
    <3>5. f.pc = "store" /\ f.max = x.max /\ f.window = x.window /\ f.sums = sums
          /\ f.taint = summaryTaint
      BY <1>0 DEF ReaderSet
    <3> HIDE DEF f
    <3>6. ReaderOK(f, table, sequence, Visible)
      BY <1>0, <2>1, <3>3, <3>5 DEF ReaderOK, RebuildOK, StoreOK, WindowOK, Visible
    <3>. QED  BY <1>2, <2>1, <3>1, <3>4, <3>6
  <2>3. CASE summary.latest # x.max
    <3> DEFINE pc == IF x.pc = "row" THEN "rebuild" ELSE "count latest"
               f  == [x EXCEPT !.pc = pc]
    <3>1. Goto(r, f)
      BY <1>6, <2>3 DEF ReadRow
    <3>2. pc \in {"rebuild", "count latest"} /\ pc \in ReaderPc
      BY DEF ReaderPc
    <3> HIDE DEF x, pc
    <3>3. f \in ReaderSet
      BY <1>0, <3>2, ReaderTypes
    <3>4. f.pc = pc /\ f.max = x.max /\ f.window = x.window
      BY <1>0 DEF ReaderSet
    <3> HIDE DEF f
    <3>5. ReaderOK(f, table, sequence, Visible)
      BY <1>0, <2>1, <3>2, <3>4 DEF ReaderOK, RebuildOK, StoreOK, WindowOK
    <3>. QED  BY <1>2, <2>1, <3>1, <3>3, <3>5
  <2>. QED  BY <2>2, <2>3
<1>7. CASE RebuildRead(r)
  <2> DEFINE n == Latest(table)
             sums == Sums(DOMAIN table)
             f == [x EXCEPT !.cursor = n, !.sums = sums, !.stale = FALSE, !.pc = "write"]
  <2>1. Goto(r, f) /\ UNCHANGED <<table, sequence, summary, cache, pending, summaryTaint, cacheTaint>>
        /\ x.pc = "rebuild"
    BY <1>7 DEF RebuildRead
  <2>2. n \in Nat /\ sums \in SumsSet /\ "write" \in ReaderPc /\ Exact(table, n, sums)
    BY TableFacts DEF ReaderPc, Exact
  <2> HIDE DEF x, n, sums
  <2>3. f \in ReaderSet
    BY <1>0, <2>2, ReaderTypes
  <2>4. f.pc = "write" /\ f.max = x.max /\ f.window = x.window /\ f.cursor = n /\ f.sums = sums
    BY <1>0 DEF ReaderSet
  <2> HIDE DEF f
  <2>5. ReaderOK(f, table, sequence, Visible)
    BY <1>0, <2>1, <2>2, <2>4 DEF ReaderOK, RebuildOK, StoreOK, WindowOK
  <2>. QED  BY <1>2, <2>1, <2>3, <2>5
<1>8. CASE RebuildWrite(r)
  <2> DEFINE f == [x EXCEPT !.pc = "invalidate"]
  <2>1. Goto(r, f) /\ UNCHANGED <<table, sequence, cache, pending, cacheTaint>> /\ x.pc = "write"
        /\ summary' = [latest |-> x.cursor, sums |-> x.sums] /\ summaryTaint' = x.stale
    BY <1>8 DEF RebuildWrite
  <2> HIDE DEF x
  <2>2. f \in ReaderSet
    BY <1>0, ReaderTypes DEF ReaderPc
  <2>3. f.pc = "invalidate" /\ f.max = x.max /\ f.window = x.window
    BY <1>0 DEF ReaderSet
  <2> HIDE DEF f
  <2>4. ReaderOK(f, table, sequence, Visible)
    BY <1>0, <2>1, <2>3 DEF ReaderOK, RebuildOK, StoreOK, WindowOK
  <2>5. summary' \in [latest : Nat, sums : SumsSet] /\ summaryTaint' \in BOOLEAN
    BY <1>0, <2>1 DEF ReaderSet
  <2>6. x.stale \/ Exact(table, x.cursor, x.sums)
    BY <1>0, <2>1 DEF ReaderOK, RebuildOK
  <2>7. RowExact'
    BY <2>1, <2>6 DEF RowExact, Exact
  <2>8. CacheInv'
    BY <2>1 DEF Inv, CacheInv, Visible
  <2>. QED  BY <1>1, <2>1, <2>2, <2>4, <2>5, <2>7, <2>8 DEF Inv, TypeOK
<1>9. CASE RebuildInvalidate(r)
  <2> DEFINE f == [x EXCEPT !.pc = "row again"]
  <2>1. Goto(r, f) /\ UNCHANGED <<table, sequence, summary, pending, summaryTaint>>
        /\ x.pc = "invalidate" /\ cache' = NoCache /\ cacheTaint' = FALSE
    BY <1>9 DEF RebuildInvalidate
  <2> HIDE DEF x
  <2>2. f \in ReaderSet
    BY <1>0, ReaderTypes DEF ReaderPc
  <2>3. f.pc = "row again" /\ f.max = x.max /\ f.window = x.window
    BY <1>0 DEF ReaderSet
  <2> HIDE DEF f
  <2>4. ReaderOK(f, table, sequence, Visible)
    BY <1>0, <2>1, <2>3 DEF ReaderOK, RebuildOK, StoreOK, WindowOK
  <2>5. cache' \in [set : BOOLEAN, latest : Nat, sums : SumsSet] /\ cacheTaint' \in BOOLEAN
    BY <2>1 DEF NoCache, NoSums, SumsSet
  <2>6. RowExact' /\ CacheInv'
    BY <2>1 DEF Inv, RowExact, CacheInv, NoCache
  <2>. QED  BY <1>1, <2>1, <2>2, <2>4, <2>5, <2>6 DEF Inv, TypeOK
<1>10. CASE Count(r)
  <2> DEFINE sums == Sums(UpTo(table, x.max))
             pc == IF x.pc = "count" THEN "answer" ELSE "store"
             f == [x EXCEPT !.sums = sums, !.taint = FALSE, !.stale = FALSE, !.pc = pc]
  <2>1. Goto(r, f) /\ UNCHANGED <<table, sequence, summary, cache, pending, summaryTaint, cacheTaint>>
        /\ x.pc \in {"count", "count latest"}
    BY <1>10 DEF Count
  <2>2. x.max \in Nat
    BY <1>0 DEF ReaderSet
  <2>3. sums \in SumsSet
    BY <2>2, TableFacts DEF Visible
  <2>4. pc \in {"answer", "store"} /\ pc \in ReaderPc
    BY DEF ReaderPc
  <2>5. sums = Sums(UpTo(table, x.max)) /\ sums \in x.window
    BY <1>0, <2>1 DEF ReaderOK, WindowOK, Visible
  <2> HIDE DEF x, sums, pc
  <2>6. f \in ReaderSet
    BY <1>0, <2>3, <2>4, ReaderTypes
  <2>7. f.pc = pc /\ f.max = x.max /\ f.window = x.window /\ f.sums = sums
    BY <1>0 DEF ReaderSet
  <2> HIDE DEF f
  <2>8. ReaderOK(f, table, sequence, Visible)
    BY <1>0, <2>1, <2>4, <2>5, <2>7 DEF ReaderOK, RebuildOK, StoreOK, WindowOK
  <2>. QED  BY <1>2, <2>1, <2>6, <2>8
<1>11. CASE Store(r)
  <2> DEFINE f == [x EXCEPT !.pc = "answer"]
  <2>1. Goto(r, f) /\ UNCHANGED <<table, sequence, summary, pending, summaryTaint>>
        /\ x.pc = "store" /\ cache' = [set |-> TRUE, latest |-> x.max, sums |-> x.sums]
        /\ cacheTaint' = (x.taint \/ x.stale)
    BY <1>11 DEF Store
  <2> HIDE DEF x
  <2>2. f \in ReaderSet
    BY <1>0, ReaderTypes DEF ReaderPc
  <2>3. f.pc = "answer" /\ f.max = x.max /\ f.window = x.window /\ f.sums = x.sums /\ f.taint = x.taint
    BY <1>0 DEF ReaderSet
  <2> HIDE DEF f
  <2>4. ReaderOK(f, table, sequence, Visible)
    BY <1>0, <2>1, <2>3 DEF ReaderOK, RebuildOK, StoreOK, WindowOK
  <2>5. x.max \in Nat /\ x.sums \in SumsSet /\ x.taint \in BOOLEAN /\ x.stale \in BOOLEAN
    BY <1>0 DEF ReaderSet
  <2>6. cache' \in [set : BOOLEAN, latest : Nat, sums : SumsSet] /\ cacheTaint' \in BOOLEAN
    BY <2>1, <2>5
  <2>7. x.max <= sequence /\ (x.taint \/ x.stale \/ x.sums = Sums(UpTo(table, x.max)))
    BY <1>0, <2>1 DEF ReaderOK, StoreOK
  <2>8. CacheInv'
    BY <2>1, <2>7 DEF CacheInv, Visible
  <2>9. RowExact'
    BY <2>1 DEF Inv, RowExact
  <2>. QED  BY <1>1, <2>1, <2>2, <2>4, <2>6, <2>8, <2>9 DEF Inv, TypeOK
<1>12. CASE Answer(r)
  <2>1. Goto(r, Resting) /\ UNCHANGED <<table, sequence, summary, cache, pending, summaryTaint, cacheTaint>>
    BY <1>12 DEF Answer
  <2>2. ReaderOK(Resting, table, sequence, Visible)
    BY RestingOK, TableFacts
  <2>. QED  BY <1>2, <2>1, <2>2, RestingOK
<1>. QED
  BY <1>3, <1>4, <1>5, <1>6, <1>7, <1>8, <1>9, <1>10, <1>11, <1>12 DEF Read

-----------------------------------------------------------------------------
(* Commits and restarts.                                                   *)

\* What a commit does to the record of a reader.
Seen(x, s, outdated) ==
  [x EXCEPT !.window = IF x.pc = "idle" THEN @ ELSE @ \cup {s}, !.stale = @ \/ x.pc \in outdated]

LEMMA SeenIs ==
  ASSUME NEW x \in ReaderSet, NEW s \in SumsSet, NEW outdated, NEW y, y = Seen(x, s, outdated)
  PROVE  /\ y \in ReaderSet
         /\ y.pc = x.pc /\ y.max = x.max /\ y.cursor = x.cursor /\ y.sums = x.sums
         /\ y.taint = x.taint
         /\ x.pc # "idle" => y.window = x.window \cup {s}
         /\ y.stale <=> x.stale \/ x.pc \in outdated
<1> DEFINE window == IF x.pc = "idle" THEN x.window ELSE x.window \cup {s}
           stale  == x.stale \/ x.pc \in outdated
<1>1. window \in SUBSET SumsSet /\ stale \in BOOLEAN
  BY DEF ReaderSet
<1>2. y = [x EXCEPT !.window = window, !.stale = stale]
  BY DEF Seen
<1>3. x.pc # "idle" => window = x.window \cup {s}
  OBVIOUS
<1>4. stale <=> x.stale \/ x.pc \in outdated
  OBVIOUS
<1> HIDE DEF window, stale
<1>5. y \in ReaderSet
  BY <1>1, <1>2 DEF ReaderSet
<1>6. y.pc = x.pc /\ y.max = x.max /\ y.cursor = x.cursor /\ y.sums = x.sums /\ y.taint = x.taint
      /\ y.window = window /\ y.stale = stale
  BY <1>2 DEF ReaderSet
<1>. QED  BY <1>3, <1>4, <1>5, <1>6

\* A commit marks the counts it makes out of date, and shows the window of
\* every call the new table, so readers and the cache stay as the invariant
\* says. Only an insertion leaves what readers are about to cache alone.
LEMMA CommitKeeps ==
  ASSUME Inv, NEW w \in Writers, table' \in Tables, NEW outdated, "write" \in outdated,
         \/ "store" \in outdated
         \/ \A id \in Nat : id <= sequence => UpTo(table', id) = UpTo(table, id),
         sequence' \in Nat, sequence' >= sequence, UNCHANGED <<cache, cacheTaint>>,
         pending[w] = {}, pending' = [pending EXCEPT ![w] = {table}], reader' = Observed(table', outdated)
  PROVE  /\ reader' \in [Readers -> ReaderSet] /\ pending' \in [Writers -> SUBSET Tables]
         /\ ReadersInv' /\ CacheInv'
<1>1. TypeOK /\ ReadersInv /\ CacheInv /\ IsTable(table')
  BY TablesAre DEF Inv
<1>2. Visible' \subseteq Visible \cup {table'} /\ Visible \subseteq Visible'
  <2>1. \A v \in Writers : pending'[v] = IF v = w THEN {table} ELSE pending[v]
    BY <1>1 DEF TypeOK
  <2>. QED  BY <2>1 DEF Visible
<1>3. sequence \in Nat
  BY TableFacts
<1>4. ASSUME NEW q \in Readers
      PROVE  reader'[q] \in ReaderSet /\ ReaderOK(reader'[q], table', sequence', Visible')
  <2> DEFINE x == reader[q]
             s == Sums(UpTo(table', x.max))
             y == reader'[q]
  <2>1. x \in ReaderSet /\ ReaderOK(x, table, sequence, Visible) /\ x.max \in Nat
    BY <1>1 DEF TypeOK, ReadersInv, ReaderSet
  <2>2. s \in SumsSet
    BY <1>1, SumsType DEF UpTo, IsTable
  <2>3. y = Seen(x, s, outdated)
    BY DEF Observed, Seen
  <2>4. s = Sums(UpTo(table', x.max))
    OBVIOUS
  <2> HIDE DEF x, y, s
  <2>5. /\ y \in ReaderSet
        /\ y.pc = x.pc /\ y.max = x.max /\ y.cursor = x.cursor /\ y.sums = x.sums
        /\ y.taint = x.taint
        /\ x.pc # "idle" => y.window = x.window \cup {s}
        /\ y.stale <=> x.stale \/ x.pc \in outdated
    BY <2>1, <2>2, <2>3, SeenIs
  <2>6. RebuildOK(y, table')
    BY <2>5 DEF RebuildOK
  <2>7. StoreOK(y, table', sequence')
    <3>1. y.max <= sequence /\ y.max \in Nat
      BY <2>1, <2>5 DEF ReaderOK, StoreOK
    <3>2. y.max <= sequence'
      BY <1>3, <3>1
    <3>3. y.pc = "store" => y.taint \/ y.stale \/ y.sums = Sums(UpTo(table', y.max))
      BY <2>1, <2>5, <3>1 DEF ReaderOK, StoreOK
    <3>. QED  BY <3>2, <3>3 DEF StoreOK
  <2>8. WindowOK(y, Visible')
    BY <1>2, <2>1, <2>4, <2>5 DEF ReaderOK, WindowOK
  <2>9. y \in ReaderSet /\ ReaderOK(y, table', sequence', Visible')
    BY <2>5, <2>6, <2>7, <2>8 DEF ReaderOK
  <2>. QED  BY <2>9 DEF y
<1>5. reader' \in [Readers -> ReaderSet]
  BY <1>4 DEF Observed
<1>6. ReadersInv'
  BY <1>4 DEF ReadersInv
<1>7. CacheInv'
  <2>1. cache.set => cache.latest \in Nat /\ cache.latest <= sequence
    BY <1>1 DEF CacheInv, TypeOK
  <2>. QED  BY <1>1, <1>2, <1>3, <2>1 DEF CacheInv
<1>8. pending' \in [Writers -> SUBSET Tables]
  BY <1>1 DEF TypeOK
<1>. QED  BY <1>5, <1>6, <1>7, <1>8

LEMMA InsertKeeps ==
  ASSUME Inv, NEW w \in Writers, NEW batch \in SUBSET Events, Insert(w, batch)
  PROVE  Inv'
<1> DEFINE new == batch \ DOMAIN table
           n   == Cardinality(new)
           top == sequence + n
<1>1. PICK ids \in [new -> sequence + 1 .. top] :
        /\ Ids(ids) = sequence + 1 .. top
        /\ table' = [e \in DOMAIN table \cup new |-> IF e \in new THEN ids[e] ELSE table[e]]
  BY DEF Insert
<1>2. new \subseteq Events /\ new # {} /\ new \cap DOMAIN table = {} /\ n \in Nat /\ n # 0
  <2>1. new \subseteq Events /\ new # {} /\ new \cap DOMAIN table = {}
    BY DEF Insert
  <2>2. IsFiniteSet(new) /\ Cardinality(new) \in Nat
    BY <2>1, EventsAreFinite
  <2>. QED  BY <2>1, <2>2, FS_EmptySet
<1>3. /\ sequence' = top /\ top <= MaxId /\ pending[w] = {}
      /\ summary' = [latest |-> Larger(summary.latest, top), sums |-> Plus(summary.sums, Sums(new))]
      /\ pending' = [pending EXCEPT ![w] = {table}] /\ reader' = Observed(table', {"write"})
      /\ UNCHANGED <<cache, summaryTaint, cacheTaint>>
  BY DEF Insert
<1>4. sequence \in Nat /\ MaxId \in Nat /\ IsTable(table) /\ \A e \in DOMAIN table : table[e] \in 1..sequence
  BY TableFacts, UsageAssumption DEF Inv, IdsInv
<1> HIDE DEF n
<1>5. top \in 1..MaxId /\ top > sequence
  BY <1>2, <1>3, <1>4
<1> HIDE DEF new
<1>6. DOMAIN table' = DOMAIN table \cup new /\ table' = [e \in DOMAIN table \cup new |-> table'[e]]
  BY <1>1
<1>7. /\ \A e \in new : table'[e] \in sequence + 1 .. top
      /\ \A e \in DOMAIN table : table'[e] = table[e]
  BY <1>1, <1>2
<1>8. \A e \in DOMAIN table' : table'[e] \in 1..top
  BY <1>4, <1>5, <1>6, <1>7
<1>9. table' \in Tables /\ IsTable(table')
  <2>1. DOMAIN table' \in SUBSET Events
    BY <1>2, <1>4, <1>6 DEF IsTable
  <2>2. table' \in [DOMAIN table' -> 1..MaxId]
    <3>1. \A e \in DOMAIN table' : table'[e] \in 1..MaxId
      BY <1>4, <1>5, <1>8
    <3>2. table' = [e \in DOMAIN table' |-> table'[e]]
      BY <1>6
    <3>. QED  BY <3>1, <3>2
  <2>. QED  BY <2>1, <2>2, TablesAre DEF Tables
<1>10. Latest(table') = top
  <2>1. top \in Ids(table')
    <3>1. top \in Ids(ids)
      BY <1>1, <1>2, <1>4, <1>5
    <3>2. PICK e \in new : ids[e] = top
      BY <3>1 DEF Ids
    <3>3. e \in DOMAIN table' /\ table'[e] = top
      BY <1>1, <3>2
    <3>. QED  BY <3>3 DEF Ids
  <2>. QED  BY <1>5, <1>8, <1>9, <2>1, LatestUnique
<1>11. \A id \in Nat : id <= sequence => UpTo(table', id) = UpTo(table, id)
  BY <1>2, <1>4, <1>5, <1>6, <1>7 DEF UpTo
<1>12. /\ reader' \in [Readers -> ReaderSet] /\ pending' \in [Writers -> SUBSET Tables]
       /\ ReadersInv' /\ CacheInv'
  <2>1. sequence' \in Nat /\ sequence' >= sequence /\ "write" \in {"write"}
    BY <1>3, <1>4, <1>5
  <2>. QED  BY <1>3, <1>9, <1>11, <2>1, CommitKeeps
<1>13. RowExact'
  <2>1. Sums(DOMAIN table') = Plus(Sums(DOMAIN table), Sums(new))
    BY <1>2, <1>4, <1>6, SumsAdd DEF IsTable
  <2>2. ASSUME ~summaryTaint PROVE summary' = [latest |-> top, sums |-> Sums(DOMAIN table')]
    <3>1. summary.latest = Latest(table) /\ summary.sums = Sums(DOMAIN table)
      BY <2>2 DEF Inv, RowExact
    <3>2. summary.latest < top /\ summary.latest \in Nat
      BY <1>4, <1>5, <3>1, TableFacts
    <3>3. Larger(summary.latest, top) = top
      BY <3>2 DEF Larger
    <3>. QED  BY <1>3, <2>1, <3>1, <3>3
  <2>. QED  BY <1>3, <1>10, <2>2 DEF RowExact
<1>14. summary' \in [latest : Nat, sums : SumsSet]
  <2>1. summary.latest \in Nat /\ summary.sums \in SumsSet /\ Sums(new) \in SumsSet
    BY <1>2, SumsType DEF Inv, TypeOK
  <2>2. \A x, y \in SumsSet : Plus(x, y) \in SumsSet
    BY DEF Plus, SumsSet
  <2>3. Larger(summary.latest, top) \in Nat
    BY <1>5, <2>1, <1>4 DEF Larger
  <2>. QED  BY <1>3, <2>1, <2>2, <2>3
<1>15. IdsInv'
  BY <1>3, <1>8 DEF IdsInv
<1>. QED
  BY <1>3, <1>4, <1>5, <1>9, <1>12, <1>13, <1>14, <1>15 DEF Inv, TypeOK

LEMMA DeleteKeeps ==
  ASSUME Inv, NEW w \in Writers, NEW before, Delete(w, before)
  PROVE  Inv'
<1> DEFINE old == {e \in DOMAIN table : TimeOf[e] < before}
<1>1. /\ table' = [e \in DOMAIN table \ old |-> table[e]] /\ sequence' = sequence
      /\ summary' = [latest |-> Latest(table'), sums |-> Minus(summary.sums, Sums(old))]
      /\ pending[w] = {} /\ pending' = [pending EXCEPT ![w] = {table}]
      /\ reader' = Observed(table', {"write", "store"})
      /\ UNCHANGED <<cache, summaryTaint, cacheTaint>>
  BY DEF Delete
<1>2. old \subseteq DOMAIN table
  OBVIOUS
<1> HIDE DEF old
<1>3. sequence \in Nat /\ IsTable(table) /\ \A e \in DOMAIN table : table[e] \in 1..sequence
  BY TableFacts DEF Inv, IdsInv
<1>4. DOMAIN table' = DOMAIN table \ old /\ \A e \in DOMAIN table' : table'[e] = table[e]
  BY <1>1
<1>5. table' \in Tables /\ IsTable(table')
  <2>1. DOMAIN table' \in SUBSET Events
    BY <1>3, <1>4 DEF IsTable
  <2>2. table' \in [DOMAIN table' -> 1..MaxId]
    BY <1>1, <1>3, <1>4 DEF IsTable
  <2>. QED  BY <2>1, <2>2, TablesAre DEF Tables
<1>6. /\ reader' \in [Readers -> ReaderSet] /\ pending' \in [Writers -> SUBSET Tables]
      /\ ReadersInv' /\ CacheInv'
  <2>1. sequence' \in Nat /\ sequence' >= sequence
        /\ "write" \in {"write", "store"} /\ "store" \in {"write", "store"}
    BY <1>1, <1>3
  <2>. QED  BY <1>1, <1>5, <2>1, CommitKeeps
<1>7. RowExact'
  <2>1. Sums(DOMAIN table') = Minus(Sums(DOMAIN table), Sums(old))
    BY <1>2, <1>3, <1>4, SumsSubtract DEF IsTable
  <2>. QED  BY <1>1, <2>1 DEF Inv, RowExact
<1>8. summary' \in [latest : Nat, sums : SumsSet]
  <2>1. summary.sums \in SumsSet /\ Sums(old) \in SumsSet
    BY <1>2, <1>3, SumsType DEF Inv, TypeOK, IsTable
  <2>2. \A x, y \in SumsSet : Minus(x, y) \in SumsSet
    BY DEF Minus, SumsSet, Larger
  <2>3. Latest(table') \in Nat
    BY <1>5, LatestIs, UsageAssumption
  <2>. QED  BY <1>1, <2>1, <2>2, <2>3
<1>9. IdsInv'
  BY <1>1, <1>3, <1>4 DEF IdsInv
<1>. QED  BY <1>1, <1>3, <1>5, <1>6, <1>7, <1>8, <1>9 DEF Inv, TypeOK

LEMMA InvalidateKeeps == ASSUME Inv, NEW w \in Writers, Invalidate(w) PROVE Inv'
<1>1. /\ pending' = [pending EXCEPT ![w] = {}] /\ cache' = NoCache /\ cacheTaint' = FALSE
      /\ UNCHANGED <<table, sequence, summary, reader, summaryTaint>>
  BY DEF Invalidate
<1>2. pending' \in [Writers -> SUBSET Tables] /\ Visible' \subseteq Visible
  BY <1>1 DEF Inv, TypeOK, Visible
<1>3. ReadersInv'
  BY <1>1, <1>2 DEF Inv, ReadersInv, ReaderOK, WindowOK
<1>4. CacheInv' /\ cache' \in [set : BOOLEAN, latest : Nat, sums : SumsSet]
  BY <1>1 DEF CacheInv, NoCache, NoSums, SumsSet
<1>. QED  BY <1>1, <1>2, <1>3, <1>4 DEF Inv, TypeOK, IdsInv, RowExact

LEMMA ReopenKeeps == ASSUME Inv, Reopen PROVE Inv'
<1>1. /\ cache' = NoCache /\ cacheTaint' = FALSE /\ UNCHANGED <<table, sequence>>
      /\ reader' = [r \in Readers |-> Resting] /\ pending' = [w \in Writers |-> {}]
      /\ \/ UNCHANGED <<summary, summaryTaint>>
         \/ summary' = [latest |-> Latest(table), sums |-> Sums(DOMAIN table)] /\ summaryTaint' = FALSE
  BY DEF Reopen
<1>2. ReadersInv' /\ reader' \in [Readers -> ReaderSet]
  <2>1. sequence' \in Nat
    BY <1>1, TableFacts
  <2>. QED  BY <1>1, <2>1, RestingOK DEF ReadersInv
<1>3. CacheInv' /\ cache' \in [set : BOOLEAN, latest : Nat, sums : SumsSet]
  BY <1>1 DEF CacheInv, NoCache, NoSums, SumsSet
<1>4. RowExact' /\ summary' \in [latest : Nat, sums : SumsSet] /\ summaryTaint' \in BOOLEAN
  <2>1. Latest(table) \in Nat /\ Sums(DOMAIN table) \in SumsSet
    BY TableFacts
  <2>2. CASE UNCHANGED <<summary, summaryTaint>>
    BY <1>1, <2>2 DEF Inv, TypeOK, RowExact
  <2>3. CASE summary' = [latest |-> Latest(table), sums |-> Sums(DOMAIN table)] /\ summaryTaint' = FALSE
    BY <1>1, <2>1, <2>3 DEF RowExact
  <2>. QED  BY <1>1, <2>2, <2>3
<1>. QED  BY <1>1, <1>2, <1>3, <1>4 DEF Inv, TypeOK, IdsInv

LEMMA InitInv == Init => Inv
<1> SUFFICES ASSUME Init PROVE Inv
  OBVIOUS
<1>1. /\ table = NoTable /\ DOMAIN table = {} /\ sequence = 0 /\ pending = [w \in Writers |-> {}]
      /\ summary = [latest |-> 0, sums |-> NoSums] /\ cache = NoCache
      /\ reader = [r \in Readers |-> Resting] /\ summaryTaint = FALSE /\ cacheTaint = FALSE
  BY DEF Init, NoTable
<1>2. IsTable(table) /\ table \in Tables
  <2>1. NoTable \in [{} -> 1..MaxId] /\ {} \in SUBSET Events
    BY DEF NoTable
  <2>. QED  BY <1>1, <2>1 DEF IsTable, Tables
<1>3. Latest(table) = 0
  BY <1>1, <1>2, LatestUnique
<1>4. Sums(DOMAIN table) = NoSums
  <2>1. {} \ Failed = {} /\ {} \cap Failed = {}
    OBVIOUS
  <2>. QED  BY <1>1, <2>1, FS_EmptySet DEF Sums, NoSums
<1>5. ReadersInv /\ reader \in [Readers -> ReaderSet]
  BY <1>1, RestingOK DEF ReadersInv
<1>6. CacheInv /\ IdsInv /\ RowExact
  BY <1>1, <1>3, <1>4 DEF CacheInv, IdsInv, RowExact, NoCache
<1>7. NoSums \in SumsSet /\ sequence \in 0..MaxId
  BY <1>1, UsageAssumption DEF NoSums, SumsSet
<1>. QED  BY <1>1, <1>2, <1>5, <1>6, <1>7 DEF Inv, TypeOK, NoCache

LEMMA StepInv == Inv /\ [Next]_vars => Inv'
<1> SUFFICES ASSUME Inv, [Next]_vars PROVE Inv'
  OBVIOUS
<1>1. ASSUME NEW w \in Writers, Write(w) PROVE Inv'
  BY <1>1, InsertKeeps, DeleteKeeps, InvalidateKeeps DEF Write
<1>2. ASSUME NEW r \in Readers, Read(r) PROVE Inv'
  BY <1>2, ReadKeeps
<1>3. CASE Reopen
  BY <1>3, ReopenKeeps
<1>4. CASE UNCHANGED vars
  BY <1>4 DEF vars, Inv, TypeOK, IdsInv, RowExact, ReadersInv, CacheInv, Visible
<1>. QED  BY <1>1, <1>2, <1>3, <1>4 DEF Next

LEMMA Invariance == Spec => []Inv
BY InitInv, StepInv, PTL DEF Spec

\* No sum is ever negative and every count has its type, whatever the events.
THEOREM TypeCorrect == Spec => []TypeOK
<1>1. Inv => TypeOK
  BY DEF Inv
<1>. QED  BY Invariance, <1>1, PTL

\* The persisted row is exact after inserts with duplicates, deletions, crashes
\* and rebuilds, for any number of readers and writers: only a rebuild that a
\* commit overtook between its two statements can make it differ.
THEOREM RowStaysExact == Spec => []RowExact
<1>1. Inv => RowExact
  BY DEF Inv
<1>. QED  BY Invariance, <1>1, PTL

\* So is the cached summary, from the invalidation that follows a commit on.
THEOREM CacheStaysExact == Spec => []CacheExact
<1>1. Inv => CacheExact
  <2> SUFFICES ASSUME Inv, cache.set, cache.latest = Latest(table), ~cacheTaint,
                      \A w \in Writers : pending[w] = {}
               PROVE  cache.sums = Sums(DOMAIN table)
    BY DEF CacheExact
  <2>1. Visible = {table}
    BY DEF Visible
  <2>2. cache.sums = Sums(UpTo(table, Latest(table)))
    BY <2>1 DEF Inv, CacheInv
  <2>. QED  BY <2>2, TableFacts
<1>. QED  BY Invariance, <1>1, PTL

\* UsageSummary answers with the sums of the events up to its cursor as they were
\* at some time of the call, whatever its statements are interleaved with.
THEOREM AnswersAreTimely == Spec => []AnswersCursor
<1>1. Inv => AnswersCursor
  BY DEF Inv, ReadersInv, ReaderOK, WindowOK, AnswersCursor
<1>. QED  BY Invariance, <1>1, PTL
=============================================================================
