------------------------------ MODULE UsageStore ------------------------------
(***************************************************************************)
(* The usage database: the table of events, the persisted summary row that *)
(* every transaction keeps in step with it, and the cached summary in      *)
(* memory that transactions invalidate after they commit. UsageSummary     *)
(* reads them statement by statement, while other goroutines insert events *)
(* (the collector, imports) and delete old ones (retention), and rebuilds  *)
(* the row when it lags behind.                                            *)
(*                                                                         *)
(* The database has one connection, so a statement outside of transactions *)
(* or a whole transaction is one step. Of the four sums of a summary the   *)
(* model keeps two, successes and failures: total_requests is their sum,   *)
(* and total_tokens is added and subtracted by the same statements.        *)
(***************************************************************************)
EXTENDS Integers, FiniteSets

CONSTANTS
  Events,    \* events, by event_hash
  Failed,    \* the events that failed
  TimeOf,    \* timestamp_ms of each event
  Readers,   \* bound: concurrent calls of UsageSummary
  Writers,   \* bound: concurrent calls of InsertEvents and DeleteEventsBefore
  MaxId      \* bound: rows ever inserted

ASSUME UsageAssumption ==
  /\ IsFiniteSet(Events) /\ Failed \subseteq Events
  /\ TimeOf \in [Events -> Nat]
  /\ MaxId \in Nat

VARIABLES
  table,     \* usage_events: the id of each event that is in it
  sequence,  \* the autoincrement counter: the largest id ever given
  summary,   \* usage_summary: latest_event_id and the sums
  cache,     \* s.summaryCache, as [set, latest, sums]
  reader,    \* what each call of UsageSummary is doing
  pending,   \* writers that have committed and not yet invalidated the cache
  summaryTaint, \* history: the row was written from a count that was out of date
  cacheTaint    \* history: so was the cache, or it was set from such a row

vars == <<table, sequence, summary, cache, reader, pending, summaryTaint, cacheTaint>>

UpTo(t, id) == {e \in DOMAIN t : t[e] <= id}
Sums(S)     == [success |-> Cardinality(S \ Failed), failure |-> Cardinality(S \cap Failed)]
NoSums      == [success |-> 0, failure |-> 0]
Ids(t)      == {t[e] : e \in DOMAIN t}

\* select coalesce(max(id), 0)
Latest(t) == CHOOSE id \in Ids(t) \cup {0} : \A other \in Ids(t) : other <= id

NoTable  == [e \in {} |-> 0]
NoCache  == [set |-> FALSE, latest |-> 0, sums |-> NoSums]
Resting  == [pc |-> "idle", max |-> 0, sums |-> NoSums, cursor |-> 0,
             taint |-> FALSE, stale |-> FALSE, window |-> {}]

Init ==
  /\ table = NoTable /\ sequence = 0
  /\ summary = [latest |-> 0, sums |-> NoSums]
  /\ cache = NoCache
  /\ reader = [r \in Readers |-> Resting]
  /\ pending = [w \in Writers |-> {}]
  /\ summaryTaint = FALSE /\ cacheTaint = FALSE

-----------------------------------------------------------------------------
(* Writers.                                                                *)

\* History: what a commit that makes the table t means to the readers: the
\* sums their cursor now asks for, and that counts they hold are out of date.
Observed(t, outdated) ==
  [r \in Readers |->
    [reader[r] EXCEPT
       !.window = IF reader[r].pc = "idle" THEN @ ELSE @ \cup {Sums(UpTo(t, reader[r].max))},
       !.stale = @ \/ reader[r].pc \in outdated]]

Larger(m, n) == IF m < n THEN n ELSE m

Plus(x, y)  == [success |-> x.success + y.success, failure |-> x.failure + y.failure]

\* max(x - y, 0), per column
Minus(x, y) == [success |-> Larger(x.success - y.success, 0),
                failure |-> Larger(x.failure - y.failure, 0)]

\* Mutant of Insert: duplicates are counted as well.
Insert_CountsSkipped(w, batch) ==
  LET new == batch \ DOMAIN table
      n   == Cardinality(new)
  IN
  /\ pending[w] = {} /\ new # {} /\ sequence + n <= MaxId
  /\ \E ids \in [new -> sequence + 1 .. sequence + n] :
       /\ Ids(ids) = sequence + 1 .. sequence + n
       /\ table' = [e \in DOMAIN table \cup new |-> IF e \in new THEN ids[e] ELSE table[e]]
  /\ sequence' = sequence + n
  /\ summary' = [latest |-> Larger(summary.latest, sequence + n),
                 sums |-> Plus(summary.sums, Sums(batch))]
  /\ pending' = [pending EXCEPT ![w] = {table}]
  /\ reader' = Observed(table', {"write"})
  /\ UNCHANGED <<cache, summaryTaint, cacheTaint>>

\* InsertEvents: events whose hash is in the table are skipped; the sums of
\* the others are added to the row in the same transaction.
Insert(w, batch) ==
  LET new == batch \ DOMAIN table
      n   == Cardinality(new)
  IN
  /\ pending[w] = {} /\ new # {} /\ sequence + n <= MaxId
  /\ \E ids \in [new -> sequence + 1 .. sequence + n] :
       /\ Ids(ids) = sequence + 1 .. sequence + n
       /\ table' = [e \in DOMAIN table \cup new |-> IF e \in new THEN ids[e] ELSE table[e]]
  /\ sequence' = sequence + n
  /\ summary' = [latest |-> Larger(summary.latest, sequence + n),
                 sums |-> Plus(summary.sums, Sums(new))]
  /\ pending' = [pending EXCEPT ![w] = {table}]
  /\ reader' = Observed(table', {"write"})
  /\ UNCHANGED <<cache, summaryTaint, cacheTaint>>

\* DeleteEventsBefore, which retention calls.
Delete(w, before) ==
  LET old == {e \in DOMAIN table : TimeOf[e] < before} IN
  /\ pending[w] = {} /\ old # {}
  /\ table' = [e \in DOMAIN table \ old |-> table[e]]
  /\ summary' = [latest |-> Latest(table'), sums |-> Minus(summary.sums, Sums(old))]
  /\ pending' = [pending EXCEPT ![w] = {table}]
  /\ reader' = Observed(table', {"write", "store"})
  /\ UNCHANGED <<sequence, cache, summaryTaint, cacheTaint>>

\* Mutant of Invalidate: the cache stays as it is.
Invalidate_KeepsCache(w) ==
  /\ pending[w] # {}
  /\ pending' = [pending EXCEPT ![w] = {}]
  /\ UNCHANGED <<table, sequence, summary, cache, reader, summaryTaint, cacheTaint>>

\* invalidateUsageSummaryCache, after the commit.
Invalidate(w) ==
  /\ pending[w] # {}
  /\ pending' = [pending EXCEPT ![w] = {}]
  /\ cache' = NoCache /\ cacheTaint' = FALSE
  /\ UNCHANGED <<table, sequence, summary, reader, summaryTaint>>

\* The process ends, at any point, and the store is opened again: the row is
\* rebuilt if it names another latest event (ensureUsageSummary).
Reopen ==
  /\ cache' = NoCache /\ cacheTaint' = FALSE
  /\ reader' = [r \in Readers |-> Resting]
  /\ pending' = [w \in Writers |-> {}]
  /\ IF summary.latest = Latest(table) THEN UNCHANGED <<summary, summaryTaint>>
     ELSE /\ summary' = [latest |-> Latest(table), sums |-> Sums(DOMAIN table)]
          /\ summaryTaint' = FALSE
  /\ UNCHANGED <<table, sequence>>

-----------------------------------------------------------------------------
(* UsageSummary(maxID), for the latest id that handleUsage has read.       *)

Goto(r, fields) == reader' = [reader EXCEPT ![r] = fields]

\* History: the sums a call may answer are those of its cursor at some time
\* of the call; a writer that has not returned yet may count as not done.
Call(r) ==
  /\ reader[r].pc = "idle" /\ Latest(table) > 0
  /\ LET max == Latest(table) IN
     Goto(r, [Resting EXCEPT !.pc = "cursor", !.max = max,
                !.window = {Sums(UpTo(t, max)) : t \in {table} \cup UNION {pending[w] : w \in Writers}}])
  /\ UNCHANGED <<table, sequence, summary, cache, pending, summaryTaint, cacheTaint>>

ReadCursor(r) ==
  /\ reader[r].pc = "cursor"
  /\ Goto(r, [reader[r] EXCEPT !.cursor = Latest(table),
                !.pc = IF reader[r].max = Latest(table) THEN "cache" ELSE "count"])
  /\ UNCHANGED <<table, sequence, summary, cache, pending, summaryTaint, cacheTaint>>

\* Mutant of ReadCache: the cached cursor is not compared.
ReadCache_AnyCursor(r) ==
  /\ reader[r].pc = "cache"
  /\ IF cache.set
     THEN Goto(r, [reader[r] EXCEPT !.sums = cache.sums, !.taint = cacheTaint, !.pc = "answer"])
     ELSE Goto(r, [reader[r] EXCEPT !.pc = "row"])
  /\ UNCHANGED <<table, sequence, summary, cache, pending, summaryTaint, cacheTaint>>

ReadCache(r) ==
  /\ reader[r].pc = "cache"
  /\ IF cache.set /\ cache.latest = reader[r].max
     THEN Goto(r, [reader[r] EXCEPT !.sums = cache.sums, !.taint = cacheTaint, !.pc = "answer"])
     ELSE Goto(r, [reader[r] EXCEPT !.pc = "row"])
  /\ UNCHANGED <<table, sequence, summary, cache, pending, summaryTaint, cacheTaint>>

\* readUsageSummarySnapshot, before and after a rebuild.
ReadRow(r) ==
  /\ reader[r].pc \in {"row", "row again"}
  /\ IF summary.latest = reader[r].max
     THEN Goto(r, [reader[r] EXCEPT !.sums = summary.sums, !.taint = summaryTaint,
                     !.stale = FALSE, !.pc = "store"])
     ELSE Goto(r, [reader[r] EXCEPT !.pc = IF @ = "row" THEN "rebuild" ELSE "count latest"])
  /\ UNCHANGED <<table, sequence, summary, cache, pending, summaryTaint, cacheTaint>>

\* rebuildUsageSummary: a statement that counts, another one that writes.
RebuildRead(r) ==
  /\ reader[r].pc = "rebuild"
  /\ Goto(r, [reader[r] EXCEPT !.cursor = Latest(table), !.sums = Sums(DOMAIN table),
                !.stale = FALSE, !.pc = "write"])
  /\ UNCHANGED <<table, sequence, summary, cache, pending, summaryTaint, cacheTaint>>

RebuildWrite(r) ==
  /\ reader[r].pc = "write"
  /\ summary' = [latest |-> reader[r].cursor, sums |-> reader[r].sums]
  /\ summaryTaint' = reader[r].stale
  /\ Goto(r, [reader[r] EXCEPT !.pc = "invalidate"])
  /\ UNCHANGED <<table, sequence, cache, pending, cacheTaint>>

RebuildInvalidate(r) ==
  /\ reader[r].pc = "invalidate"
  /\ cache' = NoCache /\ cacheTaint' = FALSE
  /\ Goto(r, [reader[r] EXCEPT !.pc = "row again"])
  /\ UNCHANGED <<table, sequence, summary, pending, summaryTaint>>

\* The query over the events up to the cursor; cached when the cursor was
\* the latest one (and another commit has overtaken the rebuild).
Count(r) ==
  /\ reader[r].pc \in {"count", "count latest"}
  /\ Goto(r, [reader[r] EXCEPT !.sums = Sums(UpTo(table, reader[r].max)), !.taint = FALSE,
                !.stale = FALSE, !.pc = IF @ = "count" THEN "answer" ELSE "store"])
  /\ UNCHANGED <<table, sequence, summary, cache, pending, summaryTaint, cacheTaint>>

Store(r) ==
  /\ reader[r].pc = "store"
  /\ cache' = [set |-> TRUE, latest |-> reader[r].max, sums |-> reader[r].sums]
  /\ cacheTaint' = (reader[r].taint \/ reader[r].stale)
  /\ Goto(r, [reader[r] EXCEPT !.pc = "answer"])
  /\ UNCHANGED <<table, sequence, summary, pending, summaryTaint>>

Answer(r) ==
  /\ reader[r].pc = "answer"
  /\ Goto(r, Resting)
  /\ UNCHANGED <<table, sequence, summary, cache, pending, summaryTaint, cacheTaint>>

-----------------------------------------------------------------------------

Write(w) ==
  \/ \E batch \in SUBSET Events : Insert(w, batch)
  \/ \E before \in {TimeOf[e] + 1 : e \in DOMAIN table} : Delete(w, before)
  \/ Invalidate(w)

Read(r) ==
  \/ Call(r) \/ ReadCursor(r) \/ ReadCache(r) \/ ReadRow(r)
  \/ RebuildRead(r) \/ RebuildWrite(r) \/ RebuildInvalidate(r)
  \/ Count(r) \/ Store(r) \/ Answer(r)

Next == (\E w \in Writers : Write(w)) \/ (\E r \in Readers : Read(r)) \/ Reopen

Spec == Init /\ [][Next]_vars

-----------------------------------------------------------------------------
(* Properties.                                                             *)

Tables  == UNION {[S -> 1..MaxId] : S \in SUBSET Events}
SumsSet == [success : Nat, failure : Nat]

ReaderSet ==
  [pc : {"idle", "cursor", "cache", "row", "rebuild", "write", "invalidate",
         "row again", "count", "count latest", "store", "answer"},
   max : Nat, cursor : Nat, sums : SumsSet, taint : BOOLEAN, stale : BOOLEAN,
   window : SUBSET SumsSet]

\* The type invariant: in particular no sum goes below zero, even when events
\* are deleted that the row never counted.
TypeOK ==
  /\ table \in Tables /\ sequence \in 0..MaxId
  /\ summary \in [latest : Nat, sums : SumsSet]
  /\ cache \in [set : BOOLEAN, latest : Nat, sums : SumsSet]
  /\ reader \in [Readers -> ReaderSet]
  /\ pending \in [Writers -> SUBSET Tables]
  /\ summaryTaint \in BOOLEAN /\ cacheTaint \in BOOLEAN

\* The persisted row is the sums of the table, and names its latest event,
\* across duplicate inserts, deletions, crashes and rebuilds: only a rebuild
\* whose count another commit had overtaken can make it differ.
RowExact ==
  summaryTaint \/ summary = [latest |-> Latest(table), sums |-> Sums(DOMAIN table)]

\* A cached summary of the latest event is the sums of the table, except
\* between a commit and its invalidation, and except when it was stored from
\* a row that a deletion had overtaken, or from a row that was not exact.
CacheExact ==
  cache.set /\ cache.latest = Latest(table) =>
    \/ cacheTaint \/ \E w \in Writers : pending[w] # {}
    \/ cache.sums = Sums(DOMAIN table)

\* Outside of these two cases UsageSummary answers with the sums of the
\* events up to its cursor as they were at some time of the call.
AnswersCursor ==
  \A r \in Readers :
    reader[r].pc = "answer" => reader[r].taint \/ reader[r].sums \in reader[r].window
=============================================================================
