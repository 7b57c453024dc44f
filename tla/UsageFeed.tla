------------------------------- MODULE UsageFeed -------------------------------
(***************************************************************************)
(* The way of stored events to the monitoring page: the usage server,      *)
(* which answers snapshots and pages and feeds an event stream from a      *)
(* cursor of its own, and the hook useUsageData of one open page, which    *)
(* loads a snapshot, follows the stream and loads pages whenever it        *)
(* reconnects, finds itself behind, or is asked to.                        *)
(*                                                                         *)
(* JavaScript runs one handler at a time, so a handler is a function from  *)
(* the page's state to its next one, and a step is a handler, the server   *)
(* reading the table, or a message lost. What a payload adds to the totals *)
(* is kept as how often each event, by its id, is counted in them. Events  *)
(* only come: retention, which deletes them, is left to UsageStore.        *)
(***************************************************************************)
EXTENDS Integers, Sequences

CONSTANTS
  MaxId,         \* bound: events ever stored
  BatchSize,     \* events in a message of the stream
  PageLimit,     \* events in a page: USAGE_INCREMENTAL_LIMIT
  MaxInTransit,  \* bound: messages of the stream on their way
  MaxFailures    \* bound: requests that fail and streams that break

ASSUME FeedAssumption ==
  /\ MaxId \in Nat /\ MaxFailures \in Nat
  /\ {BatchSize, PageLimit, MaxInTransit} \subseteq Nat \ {0}

VARIABLES
  top,       \* the largest id in usage_events
  page,      \* the state of the hook, with its requests
  stream,    \* "new", "on", or "off" and waiting for the timer to reconnect
  cursor,    \* lastID of handleUsageStream
  transit,   \* messages of the stream that have not arrived
  failures   \* failures so far

vars == <<top, page, stream, cursor, transit, failures>>

Ids == 1..MaxId

\* Who calls loadUsage: the effect of the mount, or the loop of page loads.
Caller == {"mount", "loop"}

\* Payloads: the ids above a and up to b; nothing at all.
Payload(a, b) ==
  [set |-> TRUE, latest |-> b, times |-> [i \in Ids |-> IF a < i /\ i <= b THEN 1 ELSE 0]]
Nothing == [set |-> FALSE, latest |-> 0, times |-> [i \in Ids |-> 0]]

NotAsked == [pc |-> "none", upTo |-> 0, limited |-> FALSE]
Asked    == [NotAsked EXCEPT !.pc = "asked"]
Answer(upTo, limited) == [pc |-> "answered", upTo |-> upTo, limited |-> limited]

Least(m, n) == IF m < n THEN m ELSE n

-----------------------------------------------------------------------------
(* The functions of the hook.                                              *)

\* Mutant of MergeUsagePayload: latest_id stays what it was.
MergeUsagePayload_KeepsLatest(current, next) ==
  IF ~next.set THEN current
  ELSE IF ~current.set THEN next
  ELSE IF next.latest <= current.latest THEN current
  ELSE [current EXCEPT !.times = [i \in Ids |-> @[i] + next.times[i]]]

\* mergeUsagePayload adds the totals up.
MergeUsagePayload(current, next) ==
  IF ~next.set THEN current
  ELSE IF ~current.set THEN next
  ELSE IF next.latest <= current.latest THEN current
  ELSE [set |-> TRUE, latest |-> next.latest,
        times |-> [i \in Ids |-> current.times[i] + next.times[i]]]

\* applyUsagePayload: what is newer waits in the pending payload, whose timer
\* runs exactly while there is one.
ApplyUsagePayload(c, p) ==
  IF p.latest <= c.latest THEN c
  ELSE [c EXCEPT !.latest = p.latest, !.pending = MergeUsagePayload(c.pending, p)]

FlushPendingUsagePayload(c) ==
  [c EXCEPT !.usage = MergeUsagePayload(c.usage, c.pending), !.pending = Nothing]

\* loadUsage drops the pending payload; only the newest call will be heard.
\* History: dropped says that events the cursor has passed went with it.
LoadUsage(c, caller) ==
  [c EXCEPT !.pending = Nothing, !.newest = caller, !.snapshot[caller] = Asked,
            !.dropped = @ \/ (c.pending.set /\ c.pending.latest > c.usage.latest)]

\* One round of the loop of loadUsageIncremental.
Round(c) ==
  IF c.latest <= 0
  THEN LoadUsage([c EXCEPT !.again = FALSE, !.loop = "snapshot"], "loop")
  ELSE [c EXCEPT !.again = FALSE, !.loop = "events", !.after = c.latest, !.events = Asked]

LoadUsageIncremental(c) ==
  IF c.loop # "idle" THEN [c EXCEPT !.again = TRUE] ELSE Round(c)

EndRound(c) == IF c.again THEN Round(c) ELSE [c EXCEPT !.loop = "idle"]

\* loadUsageSnapshot after its await, for the newest call. History: an answer
\* from before the cursor takes it back.
TakeSnapshot(c, upTo) ==
  [c EXCEPT !.latest = upTo, !.usage = Payload(0, upTo),
            !.dropped = FALSE, !.rewound = upTo < c.latest]

\* The loop goes on when the call it awaits returns, heard or not.
Returned(c, caller) ==
  LET done == [c EXCEPT !.snapshot[caller] = NotAsked] IN
  IF caller = "loop" THEN EndRound(done) ELSE done

Init ==
  /\ top \in 0..MaxId
  /\ page = LoadUsage([latest |-> 0, usage |-> Nothing, pending |-> Nothing, newest |-> "mount",
                       snapshot |-> [caller \in Caller |-> NotAsked],
                       loop |-> "idle", again |-> FALSE, after |-> 0, events |-> NotAsked,
                       dropped |-> FALSE, rewound |-> FALSE], "mount")
  /\ stream = "new" /\ cursor = 0 /\ transit = << >>
  /\ failures = 0

-----------------------------------------------------------------------------
(* The server.                                                             *)

\* InsertEvents, one transaction.
Store(n) ==
  /\ top + n <= MaxId
  /\ top' = top + n
  /\ UNCHANGED <<page, stream, cursor, transit, failures>>

\* handleUsage; that it may answer so is what UsageStore is about.
AnswerSnapshot(caller) ==
  /\ page.snapshot[caller].pc = "asked"
  /\ page' = [page EXCEPT !.snapshot[caller] = Answer(top, FALSE)]
  /\ UNCHANGED <<top, stream, cursor, transit, failures>>

\* handleUsageEvents
AnswerEvents ==
  /\ page.events.pc = "asked"
  /\ LET upTo == Least(top, page.after + PageLimit) IN
       page' = [page EXCEPT !.events = Answer(upTo, upTo < top)]
  /\ UNCHANGED <<top, stream, cursor, transit, failures>>

\* Mutant of SendEvents: the cursor goes to the end of the table.
SendEvents_CursorAtTop ==
  /\ stream = "on" /\ top > cursor /\ Len(transit) < MaxInTransit
  /\ LET upTo == Least(top, cursor + BatchSize) IN
       /\ transit' = Append(transit, [after |-> cursor, upTo |-> upTo, limited |-> upTo < top])
       /\ cursor' = top
  /\ UNCHANGED <<top, page, stream, failures>>

\* handleUsageStream: at first, and at every tick.
SendEvents ==
  /\ stream = "on" /\ top > cursor /\ Len(transit) < MaxInTransit
  /\ LET upTo == Least(top, cursor + BatchSize) IN
       /\ transit' = Append(transit, [after |-> cursor, upTo |-> upTo, limited |-> upTo < top])
       /\ cursor' = upTo
  /\ UNCHANGED <<top, page, stream, failures>>

-----------------------------------------------------------------------------
(* The page.                                                               *)

SnapshotArrives(caller) ==
  /\ page.snapshot[caller].pc = "answered"
  /\ page' = Returned(IF page.newest = caller THEN TakeSnapshot(page, page.snapshot[caller].upTo)
                      ELSE page, caller)
  /\ UNCHANGED <<top, stream, cursor, transit, failures>>

EventsArrive ==
  /\ page.events.pc = "answered"
  /\ LET got == [page EXCEPT !.events = NotAsked, !.again = @ \/ page.events.limited] IN
       page' = EndRound(ApplyUsagePayload(got, Payload(page.after, page.events.upTo)))
  /\ UNCHANGED <<top, stream, cursor, transit, failures>>

Fails == failures < MaxFailures /\ failures' = failures + 1

\* A snapshot that fails leaves everything as it is, the pending payload
\* dropped included.
SnapshotFails(caller) ==
  /\ page.snapshot[caller].pc # "none" /\ Fails
  /\ page' = Returned(page, caller)
  /\ UNCHANGED <<top, stream, cursor, transit>>

\* The loop falls back on a snapshot.
EventsFail ==
  /\ page.events.pc # "none" /\ Fails
  /\ page' = LoadUsage([page EXCEPT !.events = NotAsked, !.loop = "snapshot"], "loop")
  /\ UNCHANGED <<top, stream, cursor, transit>>

\* The timer of the pending payload.
Flush ==
  /\ page.pending.set
  /\ page' = FlushPendingUsagePayload(page)
  /\ UNCHANGED <<top, stream, cursor, transit, failures>>

\* A message is applied; one that says there is more starts the loop.
MessageArrives ==
  /\ transit # << >>
  /\ LET message == Head(transit)
         applied == ApplyUsagePayload(page, Payload(message.after, message.upTo))
     IN page' = IF message.limited THEN LoadUsageIncremental(applied) ELSE applied
  /\ transit' = Tail(transit)
  /\ UNCHANGED <<top, stream, cursor, failures>>

\* The effect of the connection; the server takes up the cursor of the page.
Connect ==
  /\ stream = "new"
  /\ stream' = "on" /\ cursor' = page.latest
  /\ UNCHANGED <<top, page, transit, failures>>

\* The connection ends, with what was on its way.
StreamBreaks ==
  /\ stream = "on" /\ Fails
  /\ stream' = "off" /\ transit' = << >>
  /\ UNCHANGED <<top, page, cursor>>

\* The timer to reconnect.
Reconnect ==
  /\ stream = "off"
  /\ page' = LoadUsageIncremental(page)
  /\ stream' = "on" /\ cursor' = page'.latest
  /\ UNCHANGED <<top, transit, failures>>

\* The refresh button, or the automatic refresh.
Refresh ==
  /\ page' = LoadUsageIncremental(page)
  /\ UNCHANGED <<top, stream, cursor, transit, failures>>

-----------------------------------------------------------------------------

Server    == (\E caller \in Caller : AnswerSnapshot(caller)) \/ AnswerEvents \/ SendEvents
Arrivals  == (\E caller \in Caller : SnapshotArrives(caller)) \/ EventsArrive \/ MessageArrives
Failures  == (\E caller \in Caller : SnapshotFails(caller)) \/ EventsFail \/ StreamBreaks
Timers    == Flush \/ Connect \/ Reconnect

Next == (\E n \in 1..MaxId : Store(n)) \/ Server \/ Arrivals \/ Failures \/ Timers \/ Refresh

Spec == Init /\ [][Next]_vars

(***************************************************************************)
(* A server that is up answers and writes to its streams, what it sends    *)
(* arrives or fails, and timers fire. Events and refreshes are never owed. *)
(***************************************************************************)
Fairness ==
  /\ \A caller \in Caller :
       WF_vars(AnswerSnapshot(caller)) /\ WF_vars(SnapshotArrives(caller))
  /\ WF_vars(AnswerEvents) /\ WF_vars(EventsArrive)
  /\ WF_vars(SendEvents) /\ WF_vars(MessageArrives)
  /\ WF_vars(Flush) /\ WF_vars(Connect) /\ WF_vars(Reconnect)

FairSpec == Spec /\ Fairness

-----------------------------------------------------------------------------
(* Properties.                                                             *)

PayloadSet == [set : BOOLEAN, latest : 0..MaxId, times : [Ids -> Nat]]
Request    == [pc : {"none", "asked", "answered"}, upTo : 0..MaxId, limited : BOOLEAN]
PageSet ==
  [latest : 0..MaxId, usage : PayloadSet, pending : PayloadSet, newest : Caller,
   snapshot : [Caller -> Request], loop : {"idle", "events", "snapshot"}, again : BOOLEAN,
   after : 0..MaxId, events : Request, dropped : BOOLEAN, rewound : BOOLEAN]
Message == [after : 0..MaxId, upTo : 0..MaxId, limited : BOOLEAN]

\* The type invariant.
TypeOK ==
  /\ top \in 0..MaxId
  /\ page \in PageSet
  /\ stream \in {"new", "on", "off"} /\ cursor \in 0..MaxId
  /\ transit \in Seq(Message) /\ Len(transit) <= MaxInTransit
  /\ failures \in 0..MaxFailures

Counted(id) == page.usage.times[id] + page.pending.times[id]

\* No event is skipped: whatever order snapshots, pages and messages of the
\* stream arrive in, every event up to the cursor of the page is counted or
\* pending. The exceptions are a pending payload that was dropped for a
\* snapshot that has not come, and a snapshot older than the cursor.
NoneSkipped ==
  page.dropped \/ page.rewound \/ \A id \in 1..page.latest : Counted(id) >= 1

\* Once events and failures stop, the page shows every event, unless an old
\* snapshot took it back or a pending payload was dropped.
CatchesUp ==
  <>[](\/ page.dropped \/ page.rewound
       \/ page.usage.latest = top /\ ~page.pending.set /\ \A id \in 1..top : Counted(id) >= 1)

\* What the monitoring page shows: the requests there were, once each.
EventsCountedOnce == \A id \in Ids : page.usage.times[id] <= 1
=============================================================================
