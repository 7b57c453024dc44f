--------------------------- MODULE MonitoringProofs ---------------------------
(***************************************************************************)
(* Proofs about the monitoring page.                                       *)
(*                                                                         *)
(* UsageFeed, for any number of events, sizes of pages and messages, and   *)
(* failures: no event up to the page's cursor is skipped.                  *)
(*                                                                         *)
(* MonitoringPage, for any configurations, auth files, cards and prices:   *)
(* once nothing is under way the page shows the newest metadata and        *)
(* quotas, and the prices as the user left them.                           *)
(***************************************************************************)
EXTENDS UsageFeed, MonitoringPage, TLAPS

(* ------------------------------- the feed ------------------------------ *)

(***************************************************************************)
(* An event is kept if it is in the totals, or in a pending payload that   *)
(* the next flush will add to them. The rest says why what arrives starts  *)
(* at or below the cursor, and which requests can be out at the same time: *)
(* a snapshot takes the cursor back only while the page says so.           *)
(***************************************************************************)
Kept(c, id) ==
  \/ c.usage.times[id] >= 1
  \/ c.pending.set /\ c.pending.latest > c.usage.latest /\ c.pending.times[id] >= 1

Awaited(c) == c.snapshot[c.newest]

KeptInv(c)   == c.dropped \/ c.rewound \/ \A id \in 1..c.latest : Kept(c, id)
LatestInv(c) ==
  /\ ~c.rewound => c.usage.latest <= c.latest
  /\ (~c.rewound \/ Awaited(c).pc # "none") /\ c.pending.set => c.pending.latest <= c.latest
UnsetInv(c)  ==
  /\ ~c.usage.set => \A id \in Ids : c.usage.times[id] = 0
  /\ ~c.pending.set => \A id \in Ids : c.pending.times[id] = 0
LoopInv(c)   ==
  /\ c.events.pc # "none" => c.loop = "events" /\ (c.rewound \/ c.after <= c.latest)
  /\ c.snapshot["loop"].pc # "none" => c.loop = "snapshot"
  /\ c.newest = "mount" /\ c.snapshot["mount"].pc # "none" => ~c.rewound

PageOK(c) == KeptInv(c) /\ LatestInv(c) /\ UnsetInv(c) /\ LoopInv(c)

\* Nothing is known of events that are not stored.
Stored(c, n) ==
  c.latest <= n /\ c.events.upTo <= n /\ \A caller \in Caller : c.snapshot[caller].upTo <= n

\* Where what is to come on the stream starts.
Foremost == IF transit = << >> THEN cursor ELSE transit[1].after

FrontOK(c, front) ==
  /\ ~c.rewound => front <= c.latest
  /\ Awaited(c).pc = "answered" => front <= c.latest \/ front <= Awaited(c).upTo

StreamInv ==
  /\ stream # "on" => transit = << >>
  /\ cursor <= top
  /\ \A i \in 1..Len(transit) :
       /\ transit[i].after <= transit[i].upTo /\ transit[i].upTo <= top
       /\ transit[i].upTo = IF i = Len(transit) THEN cursor ELSE transit[i + 1].after
  /\ stream = "on" => FrontOK(page, Foremost)

Inv == TypeOK /\ PageOK(page) /\ Stored(page, top) /\ StreamInv

-----------------------------------------------------------------------------
(* Payloads and records.                                                   *)

LEMMA SizesAre == MaxId \in Nat /\ MaxFailures \in Nat /\ BatchSize \in Nat \ {0}
                  /\ PageLimit \in Nat \ {0} /\ MaxInTransit \in Nat \ {0}
BY FeedAssumption

LEMMA PayloadIs ==
  ASSUME NEW a \in 0..MaxId, NEW b \in 0..MaxId
  PROVE  /\ Payload(a, b) \in PayloadSet
         /\ Payload(a, b).set /\ Payload(a, b).latest = b
         /\ \A id \in Ids : a < id /\ id <= b => Payload(a, b).times[id] = 1
<1>1. \A id \in Ids : Payload(a, b).times[id] = IF a < id /\ id <= b THEN 1 ELSE 0
  BY DEF Payload
<1>2. Payload(a, b).times \in [Ids -> Nat]
  BY DEF Payload
<1>. QED  BY <1>1, <1>2 DEF Payload, PayloadSet

LEMMA NothingIs ==
  /\ Nothing \in PayloadSet /\ ~Nothing.set /\ Nothing.latest = 0
  /\ \A id \in Ids : Nothing.times[id] = 0
BY SizesAre DEF Nothing, PayloadSet

LEMMA MergeIs ==
  ASSUME NEW x \in PayloadSet, NEW y \in PayloadSet, NEW m, m = MergeUsagePayload(x, y)
  PROVE  /\ m \in PayloadSet
         /\ ~y.set => m = x
         /\ y.set /\ ~x.set => m = y
         /\ y.set /\ x.set /\ y.latest <= x.latest => m = x
         /\ y.set /\ x.set /\ ~(y.latest <= x.latest) =>
              /\ m.set /\ m.latest = y.latest
              /\ \A id \in Ids : m.times[id] = x.times[id] + y.times[id]
<1>1. CASE ~y.set \/ ~x.set \/ y.latest <= x.latest
  BY <1>1 DEF MergeUsagePayload
<1>2. CASE y.set /\ x.set /\ ~(y.latest <= x.latest)
  <2> DEFINE times == [i \in Ids |-> x.times[i] + y.times[i]]
  <2>1. m = [set |-> TRUE, latest |-> y.latest, times |-> times]
    BY <1>2 DEF MergeUsagePayload
  <2>2. times \in [Ids -> Nat] /\ \A id \in Ids : times[id] = x.times[id] + y.times[id]
    BY DEF PayloadSet
  <2> HIDE DEF times
  <2>. QED  BY <1>2, <2>1, <2>2 DEF PayloadSet
<1>. QED  BY <1>1, <1>2

LEMMA RequestsAre ==
  /\ NotAsked \in Request /\ NotAsked.pc = "none" /\ NotAsked.upTo = 0
  /\ Asked \in Request /\ Asked.pc = "asked" /\ Asked.upTo = 0
  /\ \A n \in 0..MaxId, limited \in BOOLEAN :
       Answer(n, limited) \in Request /\ Answer(n, limited).pc = "answered" /\ Answer(n, limited).upTo = n
<1>1. NotAsked \in Request /\ NotAsked.pc = "none" /\ NotAsked.upTo = 0
  BY SizesAre DEF NotAsked, Request
<1>2. Asked = [NotAsked EXCEPT !.pc = "asked"]
  BY DEF Asked
<1>3. Asked \in Request /\ Asked.pc = "asked" /\ Asked.upTo = 0
  BY <1>1, <1>2 DEF Request
<1>4. ASSUME NEW n \in 0..MaxId, NEW limited \in BOOLEAN
      PROVE  /\ Answer(n, limited) \in Request
             /\ Answer(n, limited).pc = "answered" /\ Answer(n, limited).upTo = n
  BY DEF Answer, Request
<1>. QED  BY <1>1, <1>3, <1>4

-----------------------------------------------------------------------------
(* The functions of the hook, each of them keeping a page in order.        *)

\* d is a page in order, for which nothing more must be stored than for c, and
\* no more of the stream must be still to come.
Follows(c, d) ==
  /\ d \in PageSet /\ PageOK(d)
  /\ \A n \in Nat : Stored(c, n) => Stored(d, n)
  /\ \A front \in Nat : FrontOK(c, front) => FrontOK(d, front)

LEMMA FollowsFollows ==
  ASSUME NEW c, NEW d, NEW e, Follows(c, d), Follows(d, e)
  PROVE  Follows(c, e)
BY DEF Follows

\* The loop has no request out.
AtRest(c) == c.events.pc = "none" /\ c.snapshot["loop"].pc = "none"

\* loadUsage by the loop.
LEMMA LoadUsageFollows ==
  ASSUME NEW c \in PageSet, PageOK(c), c.events.pc = "none", c.loop = "snapshot"
  PROVE  Follows(c, LoadUsage(c, "loop"))
<1> DEFINE d == LoadUsage(c, "loop")
           dropped == c.dropped \/ (c.pending.set /\ c.pending.latest > c.usage.latest)
<1>1. dropped \in BOOLEAN
  BY DEF PageSet
<1>2. d = [c EXCEPT !.pending = Nothing, !.newest = "loop", !.snapshot["loop"] = Asked,
                    !.dropped = dropped]
  BY DEF LoadUsage
<1> HIDE DEF d
<1>3. /\ d.pending = Nothing /\ d.newest = "loop" /\ d.snapshot["loop"] = Asked /\ d.dropped = dropped
      /\ d.snapshot["mount"] = c.snapshot["mount"] /\ d.latest = c.latest /\ d.usage = c.usage
      /\ d.loop = c.loop /\ d.after = c.after /\ d.events = c.events /\ d.rewound = c.rewound
  BY <1>2 DEF PageSet, Caller
<1>4. d \in PageSet
  <2>1. Nothing \in PayloadSet /\ Asked \in Request /\ "loop" \in Caller
    BY NothingIs, RequestsAre DEF Caller
  <2> HIDE DEF dropped
  <2>. QED  BY <1>1, <1>2, <2>1 DEF PageSet
<1>5. Awaited(d) = Asked
  BY <1>3 DEF Awaited
<1>6. KeptInv(d)
  <2>1. ASSUME ~d.dropped, ~d.rewound, NEW id \in 1..d.latest PROVE Kept(d, id)
    <3>1. ~c.dropped /\ ~c.rewound /\ ~(c.pending.set /\ c.pending.latest > c.usage.latest)
      BY <1>3, <2>1
    <3>. QED  BY <1>3, <2>1, <3>1 DEF PageOK, KeptInv, Kept
  <2>. QED  BY <2>1 DEF KeptInv
<1>7. LatestInv(d) /\ UnsetInv(d)
  BY <1>3, NothingIs DEF PageOK, LatestInv, UnsetInv
<1>8. LoopInv(d)
  BY <1>3 DEF LoopInv
<1>9. \A n \in Nat : Stored(c, n) => Stored(d, n)
  BY <1>3, RequestsAre DEF Stored, Caller
<1>10. \A front \in Nat : FrontOK(c, front) => FrontOK(d, front)
  BY <1>3, <1>5, RequestsAre DEF FrontOK
<1>11. Follows(c, d)
  BY <1>4, <1>6, <1>7, <1>8, <1>9, <1>10 DEF Follows, PageOK
<1>. QED  BY <1>11 DEF d

LEMMA RoundFollows ==
  ASSUME NEW c \in PageSet, PageOK(c), AtRest(c)
  PROVE  Follows(c, Round(c))
<1>1. CASE c.latest <= 0
  <2> DEFINE b == [c EXCEPT !.again = FALSE, !.loop = "snapshot"]
  <2>1. b \in PageSet
    BY DEF PageSet
  <2>2. /\ b.loop = "snapshot" /\ b.pending = c.pending /\ b.newest = c.newest
        /\ b.snapshot = c.snapshot /\ b.dropped = c.dropped /\ b.latest = c.latest
        /\ b.usage = c.usage /\ b.after = c.after /\ b.events = c.events /\ b.rewound = c.rewound
    BY DEF PageSet
  <2>3. Round(c) = LoadUsage(b, "loop")
    BY <1>1 DEF Round
  <2> HIDE DEF b
  <2>4. PageOK(b) /\ b.events.pc = "none"
    BY <2>2 DEF PageOK, KeptInv, Kept, LatestInv, Awaited, UnsetInv, LoopInv, AtRest
  <2>5. Follows(c, b)
    BY <2>1, <2>2, <2>4 DEF Follows, Stored, FrontOK, Awaited
  <2>. QED  BY <2>1, <2>2, <2>3, <2>4, <2>5, LoadUsageFollows, FollowsFollows
<1>2. CASE ~(c.latest <= 0)
  <2> DEFINE d == [c EXCEPT !.again = FALSE, !.loop = "events", !.after = c.latest, !.events = Asked]
  <2>1. d \in PageSet
    BY RequestsAre DEF PageSet
  <2>2. /\ d.loop = "events" /\ d.pending = c.pending /\ d.newest = c.newest
        /\ d.snapshot = c.snapshot /\ d.dropped = c.dropped /\ d.latest = c.latest
        /\ d.usage = c.usage /\ d.after = c.latest /\ d.events = Asked /\ d.rewound = c.rewound
    BY DEF PageSet
  <2>3. Round(c) = d
    BY <1>2 DEF Round
  <2> HIDE DEF d
  <2>4. c.latest \in Nat
    BY SizesAre DEF PageSet
  <2>5. PageOK(d)
    BY <2>2, <2>4 DEF PageOK, KeptInv, Kept, LatestInv, Awaited, UnsetInv, LoopInv, AtRest
  <2>6. Follows(c, d)
    BY <2>1, <2>2, <2>5, RequestsAre DEF Follows, Stored, FrontOK, Awaited
  <2>. QED  BY <2>3, <2>6
<1>. QED  BY <1>1, <1>2

LEMMA EndRoundFollows ==
  ASSUME NEW c \in PageSet, PageOK(c), AtRest(c)
  PROVE  Follows(c, EndRound(c))
<1>1. CASE c.again
  BY <1>1, RoundFollows DEF EndRound
<1>2. CASE ~c.again
  <2> DEFINE d == [c EXCEPT !.loop = "idle"]
  <2>1. d \in PageSet
    BY DEF PageSet
  <2>2. /\ d.loop = "idle" /\ d.pending = c.pending /\ d.newest = c.newest
        /\ d.snapshot = c.snapshot /\ d.dropped = c.dropped /\ d.latest = c.latest
        /\ d.usage = c.usage /\ d.after = c.after /\ d.events = c.events /\ d.rewound = c.rewound
    BY DEF PageSet
  <2>3. EndRound(c) = d
    BY <1>2 DEF EndRound
  <2> HIDE DEF d
  <2>4. PageOK(d)
    BY <2>2 DEF PageOK, KeptInv, Kept, LatestInv, Awaited, UnsetInv, LoopInv, AtRest
  <2>5. Follows(c, d)
    BY <2>1, <2>2, <2>4 DEF Follows, Stored, FrontOK, Awaited
  <2>. QED  BY <2>3, <2>5
<1>. QED  BY <1>1, <1>2

LEMMA LoadUsageIncrementalFollows ==
  ASSUME NEW c \in PageSet, PageOK(c)
  PROVE  Follows(c, LoadUsageIncremental(c))
<1>1. CASE c.loop # "idle"
  <2> DEFINE d == [c EXCEPT !.again = TRUE]
  <2>1. d \in PageSet
    BY DEF PageSet
  <2>2. /\ d.loop = c.loop /\ d.pending = c.pending /\ d.newest = c.newest
        /\ d.snapshot = c.snapshot /\ d.dropped = c.dropped /\ d.latest = c.latest
        /\ d.usage = c.usage /\ d.after = c.after /\ d.events = c.events /\ d.rewound = c.rewound
    BY DEF PageSet
  <2>3. LoadUsageIncremental(c) = d
    BY <1>1 DEF LoadUsageIncremental
  <2> HIDE DEF d
  <2>4. PageOK(d)
    BY <2>2 DEF PageOK, KeptInv, Kept, LatestInv, Awaited, UnsetInv, LoopInv
  <2>5. Follows(c, d)
    BY <2>1, <2>2, <2>4 DEF Follows, Stored, FrontOK, Awaited
  <2>. QED  BY <2>3, <2>5
<1>2. CASE c.loop = "idle"
  <2>1. AtRest(c)
    BY <1>2 DEF AtRest, PageOK, LoopInv
  <2>. QED  BY <1>2, <2>1, RoundFollows DEF LoadUsageIncremental
<1>. QED  BY <1>1, <1>2

\* A payload that starts at or below the cursor takes the cursor to its end.
LEMMA ApplyFollows ==
  ASSUME NEW c \in PageSet, PageOK(c), NEW a \in 0..MaxId, NEW b \in 0..MaxId,
         c.rewound \/ a <= c.latest,
         NEW d, d = ApplyUsagePayload(c, Payload(a, b))
  PROVE  /\ d \in PageSet /\ PageOK(d)
         /\ c.latest <= d.latest /\ b <= d.latest
         /\ d.events = c.events /\ d.snapshot = c.snapshot
         /\ d.rewound = c.rewound /\ d.newest = c.newest
         /\ \A n \in Nat : Stored(c, n) /\ b <= n => Stored(d, n)
<1> DEFINE p == Payload(a, b)
<1>1. /\ p \in PayloadSet /\ p.set /\ p.latest = b
      /\ \A id \in Ids : a < id /\ id <= b => p.times[id] = 1
  BY PayloadIs
<1> HIDE DEF p
<1>2. c.latest \in Nat /\ b \in Nat /\ a \in Nat /\ c.usage.latest \in Nat /\ c.pending.latest \in Nat
  BY SizesAre DEF PageSet, PayloadSet
<1>3. CASE b <= c.latest
  <2>1. d = c
    BY <1>1, <1>3 DEF ApplyUsagePayload, p
  <2>. QED  BY <1>2, <1>3, <2>1
<1>4. CASE ~(b <= c.latest)
  <2> DEFINE m == MergeUsagePayload(c.pending, p)
  <2>1. d = [c EXCEPT !.latest = b, !.pending = m]
    BY <1>1, <1>4 DEF ApplyUsagePayload, p
  <2>2. c.pending \in PayloadSet /\ c.usage \in PayloadSet
    BY DEF PageSet
  <2>3. /\ m \in PayloadSet
        /\ ~c.pending.set => m = p
        /\ c.pending.set /\ b <= c.pending.latest => m = c.pending
        /\ c.pending.set /\ ~(b <= c.pending.latest) =>
             /\ m.set /\ m.latest = b
             /\ \A id \in Ids : m.times[id] = c.pending.times[id] + p.times[id]
    BY <1>1, <2>2, MergeIs
  <2> HIDE DEF m
  <2>4. d \in PageSet
    BY <2>1, <2>3 DEF PageSet
  <2>5. /\ d.latest = b /\ d.pending = m /\ d.usage = c.usage /\ d.newest = c.newest
        /\ d.snapshot = c.snapshot /\ d.loop = c.loop /\ d.after = c.after /\ d.events = c.events
        /\ d.dropped = c.dropped /\ d.rewound = c.rewound
    BY <2>1 DEF PageSet
  <2>6. m.set
    BY <1>1, <2>3
  <2>7. Awaited(d) = Awaited(c)
    BY <2>5 DEF Awaited
  <2>8. \A id \in Ids : c.pending.times[id] \in Nat /\ p.times[id] \in Nat /\ c.usage.times[id] \in Nat
    BY <1>1, <2>2 DEF PayloadSet
  <2>9. KeptInv(d)
    <3> SUFFICES ASSUME ~c.dropped, ~c.rewound, NEW id \in 1..b
                 PROVE  c.usage.times[id] >= 1 \/ (m.latest > c.usage.latest /\ m.times[id] >= 1)
      BY <2>5, <2>6 DEF KeptInv, Kept
    <3>1. /\ \A i \in 1..c.latest : Kept(c, i)
          /\ c.usage.latest <= c.latest /\ a <= c.latest
          /\ c.pending.set => c.pending.latest <= c.latest
      BY DEF PageOK, KeptInv, LatestInv
    <3>2. id \in Ids /\ id \in Nat /\ id >= 1 /\ id <= b
      BY <1>2, SizesAre DEF Ids
    <3>3. m.latest = b
      BY <1>1, <1>2, <1>4, <2>3, <3>1
    <3>4. m.latest > c.usage.latest
      BY <1>2, <1>4, <3>1, <3>3
    <3>5. m.times[id] = IF c.pending.set THEN c.pending.times[id] + p.times[id] ELSE p.times[id]
      BY <1>2, <1>4, <2>3, <3>1, <3>2
    <3>6. CASE id <= c.latest
      <4>1. Kept(c, id)
        BY <1>2, <3>1, <3>2, <3>6
      <4>. QED  BY <2>8, <3>2, <3>4, <3>5, <4>1 DEF Kept
    <3>7. CASE ~(id <= c.latest)
      <4>1. p.times[id] = 1
        BY <1>1, <1>2, <3>1, <3>2, <3>7
      <4>. QED  BY <2>8, <3>2, <3>4, <3>5, <4>1
    <3>. QED  BY <3>6, <3>7
  <2>10. LatestInv(d)
    <3>1. (~c.rewound \/ Awaited(c).pc # "none") => m.latest <= b
      BY <1>1, <1>2, <1>4, <2>3 DEF PageOK, LatestInv
    <3>. QED  BY <1>2, <1>4, <2>5, <2>7, <3>1 DEF PageOK, LatestInv
  <2>11. UnsetInv(d)
    BY <2>5, <2>6 DEF PageOK, UnsetInv
  <2>12. LoopInv(d)
    <3>1. c.after \in Nat
      BY SizesAre DEF PageSet
    <3>. QED  BY <1>2, <1>4, <2>5, <3>1 DEF PageOK, LoopInv
  <2>13. \A n \in Nat : Stored(c, n) /\ b <= n => Stored(d, n)
    BY <2>5 DEF Stored
  <2>. QED  BY <1>2, <1>4, <2>4, <2>5, <2>9, <2>10, <2>11, <2>12, <2>13 DEF PageOK
<1>. QED  BY <1>3, <1>4

\* What was pending is counted.
LEMMA FlushFollows ==
  ASSUME NEW c \in PageSet, PageOK(c), c.pending.set
  PROVE  Follows(c, FlushPendingUsagePayload(c))
<1> DEFINE d == FlushPendingUsagePayload(c)
           m == MergeUsagePayload(c.usage, c.pending)
<1>1. d = [c EXCEPT !.usage = m, !.pending = Nothing]
  BY DEF FlushPendingUsagePayload
<1>2. c.usage \in PayloadSet /\ c.pending \in PayloadSet
  BY DEF PageSet
<1>3. /\ m \in PayloadSet
      /\ ~c.usage.set => m = c.pending
      /\ c.usage.set /\ c.pending.latest <= c.usage.latest => m = c.usage
      /\ c.usage.set /\ ~(c.pending.latest <= c.usage.latest) =>
           /\ m.set /\ m.latest = c.pending.latest
           /\ \A id \in Ids : m.times[id] = c.usage.times[id] + c.pending.times[id]
  BY <1>2, MergeIs
<1> HIDE DEF d, m
<1>4. d \in PageSet
  BY <1>1, <1>3, NothingIs DEF PageSet
<1>5. /\ d.usage = m /\ d.pending = Nothing /\ d.latest = c.latest /\ d.newest = c.newest
      /\ d.snapshot = c.snapshot /\ d.loop = c.loop /\ d.after = c.after /\ d.events = c.events
      /\ d.dropped = c.dropped /\ d.rewound = c.rewound
  BY <1>1 DEF PageSet
<1>6. /\ c.usage.latest \in Nat /\ c.pending.latest \in Nat /\ c.latest \in Nat
      /\ \A id \in Ids : c.pending.times[id] \in Nat /\ c.usage.times[id] \in Nat
  BY <1>2, SizesAre DEF PayloadSet, PageSet
<1>7. KeptInv(d)
  <2> SUFFICES ASSUME ~c.dropped, ~c.rewound, NEW id \in 1..c.latest
               PROVE  m.times[id] >= 1
    BY <1>5 DEF KeptInv, Kept
  <2>1. Kept(c, id)
    BY DEF PageOK, KeptInv
  <2>2. id \in Ids
    BY SizesAre DEF Ids, PageSet
  <2>3. ~c.usage.set => c.usage.times[id] = 0
    BY <2>2 DEF PageOK, UnsetInv
  <2>. QED  BY <1>3, <1>6, <2>1, <2>2, <2>3 DEF Kept
<1>8. LatestInv(d)
  <2>1. ~c.rewound => m.latest <= c.latest
    BY <1>3, <1>6 DEF PageOK, LatestInv
  <2>. QED  BY <1>5, <2>1, NothingIs DEF LatestInv
<1>9. UnsetInv(d)
  BY <1>3, <1>5, NothingIs DEF UnsetInv
<1>10. LoopInv(d)
  BY <1>5 DEF PageOK, LoopInv
<1>11. Follows(c, d)
  BY <1>4, <1>5, <1>7, <1>8, <1>9, <1>10 DEF Follows, PageOK, Stored, FrontOK, Awaited
<1>. QED  BY <1>11 DEF d

\* A call that returns without being heard.
LEMMA NotHeardFollows ==
  ASSUME NEW c \in PageSet, PageOK(c), NEW caller \in Caller,
         NEW d, d = [c EXCEPT !.snapshot[caller] = NotAsked]
  PROVE  Follows(c, d) /\ d.snapshot[caller] = NotAsked /\ d.events = c.events
<1>1. d \in PageSet
  BY RequestsAre DEF PageSet
<1>2. /\ d.usage = c.usage /\ d.pending = c.pending /\ d.latest = c.latest /\ d.newest = c.newest
      /\ d.loop = c.loop /\ d.after = c.after /\ d.events = c.events
      /\ d.dropped = c.dropped /\ d.rewound = c.rewound
      /\ d.snapshot = [c.snapshot EXCEPT ![caller] = NotAsked]
  BY DEF PageSet
<1>3. \A other \in Caller :
        d.snapshot[other] = IF other = caller THEN NotAsked ELSE c.snapshot[other]
  BY <1>2 DEF PageSet
<1>4. Awaited(d) = Awaited(c) \/ Awaited(d) = NotAsked
  BY <1>2, <1>3 DEF Awaited, PageSet
<1>5. KeptInv(d) /\ UnsetInv(d)
  BY <1>2 DEF PageOK, KeptInv, Kept, UnsetInv
<1>6. LatestInv(d)
  BY <1>2, <1>4, RequestsAre DEF PageOK, LatestInv
<1>7. LoopInv(d)
  BY <1>2, <1>3, RequestsAre DEF PageOK, LoopInv, Caller
<1>8. \A n \in Nat : Stored(c, n) => Stored(d, n)
  BY <1>2, <1>3, RequestsAre DEF Stored
<1>9. \A front \in Nat : FrontOK(c, front) => FrontOK(d, front)
  BY <1>2, <1>4, RequestsAre DEF FrontOK
<1>. QED  BY <1>1, <1>2, <1>3, <1>5, <1>6, <1>7, <1>8, <1>9 DEF Follows, PageOK

\* loadUsageSnapshot of the newest call, after its await.
LEMMA HeardFollows ==
  ASSUME NEW c \in PageSet, PageOK(c), NEW caller \in Caller,
         c.newest = caller, c.snapshot[caller].pc = "answered",
         NEW d, d = [TakeSnapshot(c, c.snapshot[caller].upTo) EXCEPT !.snapshot[caller] = NotAsked]
  PROVE  Follows(c, d) /\ d.snapshot[caller] = NotAsked /\ d.events = c.events
<1> DEFINE upTo == c.snapshot[caller].upTo
           rewound == upTo < c.latest
<1>1. /\ upTo \in 0..MaxId /\ upTo \in Nat /\ c.latest \in Nat /\ c.after \in Nat
      /\ c.pending.latest \in Nat /\ rewound \in BOOLEAN
  BY SizesAre DEF PageSet, Request, PayloadSet
<1>2. Payload(0, upTo) \in PayloadSet /\ Payload(0, upTo).set /\ Payload(0, upTo).latest = upTo
      /\ \A id \in Ids : 0 < id /\ id <= upTo => Payload(0, upTo).times[id] = 1
  BY <1>1, PayloadIs, SizesAre
<1>3. d = [c EXCEPT !.latest = upTo, !.usage = Payload(0, upTo), !.dropped = FALSE,
                    !.rewound = rewound, !.snapshot[caller] = NotAsked]
  BY DEF TakeSnapshot
<1>14. (rewound <=> ~(c.latest <= upTo)) /\ Awaited(c) = c.snapshot[caller] /\ Awaited(c).upTo = upTo
  BY <1>1 DEF Awaited
<1> HIDE DEF upTo, rewound
<1>4. d \in PageSet
  <2> DEFINE usage == Payload(0, upTo)
  <2>1. usage \in PayloadSet /\ NotAsked \in Request
    BY <1>2, RequestsAre
  <2> DEFINE e == [c EXCEPT !.latest = upTo, !.usage = usage, !.dropped = FALSE, !.rewound = rewound]
  <2>2. d = [e EXCEPT !.snapshot[caller] = NotAsked]
    BY <1>3
  <2> HIDE DEF usage
  <2>3. e \in PageSet
    BY <1>1, <2>1 DEF PageSet
  <2> HIDE DEF e
  <2>. QED  BY <2>1, <2>2, <2>3 DEF PageSet
<1>5. /\ d.usage = Payload(0, upTo) /\ d.pending = c.pending /\ d.latest = upTo
      /\ d.newest = c.newest /\ d.loop = c.loop /\ d.after = c.after /\ d.events = c.events
      /\ d.dropped = FALSE /\ d.rewound = rewound
      /\ d.snapshot = [c.snapshot EXCEPT ![caller] = NotAsked]
  BY <1>3 DEF PageSet
<1>6. \A other \in Caller :
        d.snapshot[other] = IF other = caller THEN NotAsked ELSE c.snapshot[other]
  BY <1>5 DEF PageSet
<1>7. Awaited(d) = NotAsked
  BY <1>5, <1>6 DEF Awaited
<1>8. KeptInv(d)
  <2> SUFFICES ASSUME NEW id \in 1..upTo PROVE Payload(0, upTo).times[id] >= 1
    BY <1>5 DEF KeptInv, Kept
  <2>. QED  BY <1>1, <1>2, SizesAre DEF Ids
<1>9. LatestInv(d)
  <2>1. c.pending.set => c.pending.latest <= c.latest
    BY <1>14 DEF PageOK, LatestInv
  <2>. QED  BY <1>1, <1>2, <1>5, <1>7, <1>14, <2>1, RequestsAre DEF LatestInv
<1>10. UnsetInv(d)
  BY <1>2, <1>5 DEF PageOK, UnsetInv
<1>11. LoopInv(d)
  <2>1. c.events.pc # "none" => c.loop = "events" /\ (c.rewound \/ c.after <= c.latest)
    BY DEF PageOK, LoopInv
  <2>2. c.events.pc # "none" => ~c.rewound
    BY <2>1 DEF PageOK, LoopInv, Caller
  <2>3. d.events.pc # "none" => d.loop = "events" /\ (d.rewound \/ d.after <= d.latest)
    BY <1>1, <1>5, <1>14, <2>1, <2>2
  <2>4. d.snapshot["loop"].pc # "none" => d.loop = "snapshot"
    BY <1>5, <1>6, RequestsAre DEF PageOK, LoopInv, Caller
  <2>5. d.newest = "mount" => d.snapshot["mount"].pc = "none"
    BY <1>5, <1>6, RequestsAre DEF Caller
  <2>. QED  BY <2>3, <2>4, <2>5 DEF LoopInv
<1>12. \A n \in Nat : Stored(c, n) => Stored(d, n)
  <2>1. \A n \in Nat : Stored(c, n) => upTo <= n
    BY DEF Stored, upTo
  <2>. QED  BY <1>5, <1>6, <2>1, RequestsAre DEF Stored
<1>13. \A front \in Nat : FrontOK(c, front) => FrontOK(d, front)
  <2> SUFFICES ASSUME NEW front \in Nat, FrontOK(c, front), ~rewound
               PROVE  front <= upTo
    BY <1>5, <1>7, RequestsAre DEF FrontOK
  <2>1. front <= c.latest \/ front <= upTo
    BY <1>14 DEF FrontOK
  <2>. QED  BY <1>1, <1>14, <2>1
<1>. QED  BY <1>4, <1>5, <1>6, <1>8, <1>9, <1>10, <1>11, <1>12, <1>13 DEF Follows, PageOK

\* The loop goes on when the call it awaited is over.
LEMMA ReturnedFollows ==
  ASSUME NEW c \in PageSet, NEW e, NEW caller \in Caller, NEW done,
         done = [e EXCEPT !.snapshot[caller] = NotAsked],
         PageOK(c), c.snapshot[caller].pc # "none",
         Follows(c, done), done.snapshot[caller] = NotAsked, done.events = c.events
  PROVE  Follows(c, Returned(e, caller))
<1>1. CASE caller = "loop"
  <2>1. AtRest(done)
    BY <1>1, RequestsAre DEF AtRest, PageOK, LoopInv
  <2>2. Follows(done, EndRound(done))
    BY <2>1, EndRoundFollows DEF Follows
  <2>3. Returned(e, caller) = EndRound(done)
    BY <1>1 DEF Returned
  <2>. QED  BY <2>2, <2>3, FollowsFollows
<1>2. CASE caller # "loop"
  <2>1. Returned(e, caller) = done
    BY <1>2 DEF Returned
  <2>. QED  BY <2>1
<1>. QED  BY <1>1, <1>2

-----------------------------------------------------------------------------
(* The steps.                                                              *)

LEMMA InitInv == Init => Inv
<1> SUFFICES ASSUME Init PROVE Inv
  OBVIOUS
<1> DEFINE c == [latest |-> 0, usage |-> Nothing, pending |-> Nothing, newest |-> "mount",
                 snapshot |-> [caller \in Caller |-> NotAsked],
                 loop |-> "idle", again |-> FALSE, after |-> 0, events |-> NotAsked,
                 dropped |-> FALSE, rewound |-> FALSE]
<1>1. c \in PageSet
  BY NothingIs, RequestsAre, SizesAre DEF PageSet, Caller
<1>2. /\ c.latest = 0 /\ c.usage = Nothing /\ c.pending = Nothing /\ c.after = 0
      /\ c.events = NotAsked /\ c.dropped = FALSE /\ c.rewound = FALSE
      /\ \A caller \in Caller : c.snapshot[caller] = NotAsked
  OBVIOUS
<1>3. page = LoadUsage(c, "mount")
  BY DEF Init
<1> HIDE DEF c
<1>4. page = [c EXCEPT !.pending = Nothing, !.newest = "mount", !.snapshot["mount"] = Asked,
                       !.dropped = FALSE]
  BY <1>2, <1>3, NothingIs DEF LoadUsage
<1>5. page \in PageSet
  BY <1>1, <1>4, NothingIs, RequestsAre DEF PageSet, Caller
<1>6. /\ page.latest = 0 /\ page.usage = Nothing /\ page.pending = Nothing /\ page.after = 0
      /\ page.events = NotAsked /\ page.dropped = FALSE /\ page.rewound = FALSE
      /\ page.newest = "mount" /\ page.snapshot = [c.snapshot EXCEPT !["mount"] = Asked]
  BY <1>1, <1>2, <1>4 DEF PageSet
<1>7. page.snapshot["mount"] = Asked /\ page.snapshot["loop"] = NotAsked
  BY <1>1, <1>2, <1>6 DEF PageSet, Caller
<1>8. PageOK(page)
  BY <1>6, <1>7, NothingIs, RequestsAre DEF PageOK, KeptInv, LatestInv, UnsetInv, LoopInv
<1>9. top \in 0..MaxId /\ top \in Nat
  BY SizesAre DEF Init
<1>10. Stored(page, top)
  BY <1>6, <1>7, <1>9, RequestsAre DEF Stored, Caller
<1>11. StreamInv
  BY <1>9 DEF Init, StreamInv
<1>12. TypeOK
  BY <1>5, SizesAre DEF Init, TypeOK
<1>. QED  BY <1>8, <1>10, <1>11, <1>12 DEF Inv

LEMMA FrontIs ==
  ASSUME Inv
  PROVE  Foremost \in 0..MaxId /\ Foremost \in Nat /\ Foremost <= top /\ top \in Nat
<1>1. top \in Nat /\ cursor \in Nat /\ cursor \in 0..MaxId /\ cursor <= top /\ transit \in Seq(Message)
  BY SizesAre DEF Inv, TypeOK, StreamInv
<1>2. CASE transit = << >>
  BY <1>1, <1>2 DEF Foremost
<1>3. CASE transit # << >>
  <2>1. 1 \in 1..Len(transit) /\ transit[1] \in Message
    BY <1>1, <1>3
  <2>2. transit[1].after <= transit[1].upTo /\ transit[1].upTo <= top
    BY <2>1 DEF Inv, StreamInv
  <2>3. transit[1].after \in 0..MaxId /\ transit[1].upTo \in Nat /\ transit[1].after \in Nat
    BY <2>1, SizesAre DEF Message
  <2>. QED  BY <1>1, <1>3, <2>2, <2>3 DEF Foremost
<1>. QED  BY <1>2, <1>3

\* A step of the page alone.
LEMMA PageStep ==
  ASSUME Inv, Follows(page, page'), UNCHANGED <<top, stream, cursor, transit>>,
         failures' \in 0..MaxFailures
  PROVE  Inv'
<1>1. page' \in PageSet /\ PageOK(page')
  BY DEF Follows
<1>2. Stored(page', top')
  BY FrontIs DEF Follows, Inv
<1>3. TypeOK'
  BY <1>1 DEF Inv, TypeOK
<1>4. Foremost' = Foremost
  BY DEF Foremost
<1>5. stream = "on" => FrontOK(page', Foremost)
  BY FrontIs DEF Follows, Inv, StreamInv
<1>6. StreamInv'
  BY <1>4, <1>5 DEF Inv, StreamInv
<1>. QED  BY <1>1, <1>2, <1>3, <1>6 DEF Inv

LEMMA StoreStep == ASSUME Inv, NEW n \in 1..MaxId, Store(n) PROVE Inv'
<1>1. top \in Nat /\ top <= top' /\ top' \in 0..MaxId
  BY SizesAre DEF Store, Inv, TypeOK
<1>2. UNCHANGED <<page, stream, cursor, transit, failures>>
  BY DEF Store
<1>3. Stored(page', top')
  <2>1. /\ page.latest \in Nat /\ page.events.upTo \in Nat
        /\ \A caller \in Caller : page.snapshot[caller].upTo \in Nat
    BY SizesAre DEF Inv, TypeOK, PageSet, Request
  <2>. QED  BY <1>1, <1>2, <2>1 DEF Inv, Stored
<1>4. Foremost' = Foremost
  BY <1>2 DEF Foremost
<1>5. StreamInv'
  <2>1. ASSUME NEW i \in 1..Len(transit)
        PROVE  transit[i].upTo \in Nat /\ transit[i].upTo <= top
    <3>1. transit[i] \in Message
      BY DEF Inv, TypeOK
    <3>. QED  BY <3>1, SizesAre DEF Inv, StreamInv, Message
  <2>2. cursor \in Nat /\ cursor <= top
    BY SizesAre DEF Inv, TypeOK, StreamInv
  <2>. QED  BY <1>1, <1>2, <1>4, <2>1, <2>2 DEF Inv, StreamInv
<1>6. TypeOK' /\ PageOK(page')
  BY <1>1, <1>2 DEF Inv, TypeOK
<1>. QED  BY <1>3, <1>5, <1>6 DEF Inv

\* An answer to a snapshot reaches as far as the stream has got.
LEMMA AnswerSnapshotStep == ASSUME Inv, NEW caller \in Caller, AnswerSnapshot(caller) PROVE Inv'
<1> DEFINE answer == Answer(top, FALSE)
<1>1. /\ page.snapshot[caller].pc = "asked"
      /\ page' = [page EXCEPT !.snapshot[caller] = answer]
      /\ UNCHANGED <<top, stream, cursor, transit, failures>>
  BY DEF AnswerSnapshot
<1>2. page \in PageSet /\ PageOK(page) /\ Stored(page, top) /\ top \in 0..MaxId /\ failures \in 0..MaxFailures
  BY DEF Inv, TypeOK
<1>3. answer \in Request /\ answer.pc = "answered" /\ answer.upTo = top
  BY <1>2, RequestsAre
<1> HIDE DEF answer
<1>4. page' \in PageSet
  BY <1>1, <1>2, <1>3 DEF PageSet
<1>5. /\ page'.usage = page.usage /\ page'.pending = page.pending /\ page'.latest = page.latest
      /\ page'.newest = page.newest /\ page'.loop = page.loop /\ page'.after = page.after
      /\ page'.events = page.events /\ page'.dropped = page.dropped
      /\ page'.rewound = page.rewound
      /\ page'.snapshot = [page.snapshot EXCEPT ![caller] = answer]
  BY <1>1, <1>2 DEF PageSet
<1>6. \A other \in Caller :
        page'.snapshot[other] = IF other = caller THEN answer ELSE page.snapshot[other]
  BY <1>2, <1>5 DEF PageSet
<1>7. \/ Awaited(page') = Awaited(page)
      \/ Awaited(page') = answer /\ Awaited(page).pc = "asked"
  BY <1>1, <1>2, <1>5, <1>6 DEF Awaited, PageSet
<1>8. KeptInv(page') /\ UnsetInv(page')
  BY <1>2, <1>5 DEF PageOK, KeptInv, Kept, UnsetInv
<1>9. LatestInv(page')
  BY <1>2, <1>3, <1>5, <1>7 DEF PageOK, LatestInv
<1>10. LoopInv(page')
  BY <1>1, <1>2, <1>3, <1>5, <1>6 DEF PageOK, LoopInv, Caller
<1>11. Stored(page', top')
  BY <1>1, <1>2, <1>3, <1>5, <1>6, FrontIs DEF Stored
<1>12. Foremost' = Foremost
  BY <1>1 DEF Foremost
<1>13. stream = "on" => FrontOK(page', Foremost)
  BY <1>3, <1>5, <1>7, FrontIs DEF Inv, StreamInv, FrontOK
<1>14. StreamInv'
  BY <1>1, <1>12, <1>13 DEF Inv, StreamInv
<1>15. TypeOK'
  BY <1>1, <1>4 DEF Inv, TypeOK
<1>. QED  BY <1>8, <1>9, <1>10, <1>11, <1>14, <1>15 DEF Inv, PageOK

LEMMA AnswerEventsStep == ASSUME Inv, AnswerEvents PROVE Inv'
<1> DEFINE upTo == Least(top, page.after + PageLimit)
           limited == upTo < top
           answer == Answer(upTo, limited)
<1>1. /\ page.events.pc = "asked"
      /\ page' = [page EXCEPT !.events = answer]
      /\ UNCHANGED <<top, stream, cursor, transit, failures>>
  BY DEF AnswerEvents
<1>2. page \in PageSet /\ PageOK(page) /\ Stored(page, top) /\ top \in 0..MaxId /\ failures \in 0..MaxFailures
  BY DEF Inv, TypeOK
<1>3. upTo \in 0..MaxId /\ upTo <= top /\ limited \in BOOLEAN
  BY <1>2, SizesAre DEF Least, PageSet
<1> HIDE DEF upTo, limited
<1>4. answer \in Request /\ answer.pc = "answered" /\ answer.upTo = upTo
  BY <1>3, RequestsAre
<1> HIDE DEF answer
<1>5. page' \in PageSet
  BY <1>1, <1>2, <1>4 DEF PageSet
<1>6. /\ page'.usage = page.usage /\ page'.pending = page.pending /\ page'.latest = page.latest
      /\ page'.newest = page.newest /\ page'.loop = page.loop /\ page'.after = page.after
      /\ page'.events = answer /\ page'.dropped = page.dropped
      /\ page'.rewound = page.rewound /\ page'.snapshot = page.snapshot
  BY <1>1, <1>2 DEF PageSet
<1>7. PageOK(page')
  BY <1>1, <1>2, <1>6 DEF PageOK, KeptInv, Kept, LatestInv, Awaited, UnsetInv, LoopInv
<1>8. Stored(page', top')
  BY <1>1, <1>2, <1>3, <1>4, <1>6 DEF Stored
<1>9. Foremost' = Foremost
  BY <1>1 DEF Foremost
<1>10. StreamInv'
  BY <1>1, <1>6, <1>9 DEF Inv, StreamInv, FrontOK, Awaited
<1>11. TypeOK'
  BY <1>1, <1>5 DEF Inv, TypeOK
<1>. QED  BY <1>7, <1>8, <1>10, <1>11 DEF Inv

LEMMA SendEventsStep == ASSUME Inv, SendEvents PROVE Inv'
<1> DEFINE upTo == Least(top, cursor + BatchSize)
           limited == upTo < top
           message == [after |-> cursor, upTo |-> upTo, limited |-> limited]
<1>1. /\ stream = "on" /\ top > cursor /\ Len(transit) < MaxInTransit
      /\ transit' = Append(transit, message) /\ cursor' = upTo
      /\ UNCHANGED <<top, page, stream, failures>>
  BY DEF SendEvents
<1>2. top \in 0..MaxId /\ cursor \in 0..MaxId /\ top \in Nat /\ cursor \in Nat
  BY SizesAre DEF Inv, TypeOK
<1>3. upTo \in 0..MaxId /\ upTo \in Nat /\ upTo <= top /\ cursor <= upTo /\ limited \in BOOLEAN
  BY <1>1, <1>2, SizesAre DEF Least
<1> HIDE DEF upTo, limited
<1>4. message \in Message /\ message.after = cursor /\ message.upTo = upTo
  BY <1>2, <1>3 DEF Message
<1> HIDE DEF message
<1>5. transit \in Seq(Message) /\ Len(transit) \in Nat /\ Len(transit) <= MaxInTransit
  BY DEF Inv, TypeOK
<1>6. /\ transit' \in Seq(Message) /\ Len(transit') = Len(transit) + 1
      /\ \A i \in 1..Len(transit) : transit'[i] = transit[i]
      /\ transit'[Len(transit) + 1] = message
  BY <1>1, <1>4, <1>5
<1>7. TypeOK'
  BY <1>1, <1>3, <1>5, <1>6, SizesAre DEF Inv, TypeOK
<1>8. Foremost' = Foremost
  <2>1. CASE transit = << >>
    BY <1>4, <1>6, <2>1 DEF Foremost
  <2>2. CASE transit # << >>
    BY <1>5, <1>6, <2>2 DEF Foremost
  <2>. QED  BY <2>1, <2>2
<1>9. ASSUME NEW i \in 1..Len(transit')
      PROVE  /\ transit'[i].after <= transit'[i].upTo /\ transit'[i].upTo <= top
             /\ transit'[i].upTo = IF i = Len(transit') THEN upTo ELSE transit'[i + 1].after
  <2>1. CASE i \in 1..Len(transit)
    <3>1. /\ transit[i].after <= transit[i].upTo /\ transit[i].upTo <= top
          /\ transit[i].upTo = IF i = Len(transit) THEN cursor ELSE transit[i + 1].after
      BY <2>1 DEF Inv, StreamInv
    <3>. QED  BY <1>4, <1>5, <1>6, <2>1, <3>1
  <2>2. CASE i = Len(transit) + 1
    BY <1>3, <1>4, <1>6, <2>2
  <2>. QED  BY <1>5, <1>6, <2>1, <2>2
<1>10. StreamInv'
  BY <1>1, <1>3, <1>8, <1>9 DEF Inv, StreamInv
<1>. QED  BY <1>1, <1>7, <1>10 DEF Inv

LEMMA SnapshotArrivesStep ==
  ASSUME Inv, NEW caller \in Caller, SnapshotArrives(caller) PROVE Inv'
<1>1. /\ page \in PageSet /\ PageOK(page) /\ page.snapshot[caller].pc = "answered"
      /\ UNCHANGED <<top, stream, cursor, transit, failures>> /\ failures \in 0..MaxFailures
  BY DEF Inv, TypeOK, SnapshotArrives
<1>2. CASE page.newest = caller
  <2> DEFINE e == TakeSnapshot(page, page.snapshot[caller].upTo)
             done == [e EXCEPT !.snapshot[caller] = NotAsked]
  <2>1. page' = Returned(e, caller)
    BY <1>2 DEF SnapshotArrives
  <2>2. Follows(page, done) /\ done.snapshot[caller] = NotAsked /\ done.events = page.events
    BY <1>1, <1>2, HeardFollows
  <2> HIDE DEF e
  <2>3. Follows(page, Returned(e, caller))
    BY <1>1, <2>2, ReturnedFollows
  <2>. QED  BY <1>1, <2>1, <2>3, PageStep
<1>3. CASE page.newest # caller
  <2> DEFINE done == [page EXCEPT !.snapshot[caller] = NotAsked]
  <2>1. page' = Returned(page, caller)
    BY <1>3 DEF SnapshotArrives
  <2>2. Follows(page, done) /\ done.snapshot[caller] = NotAsked /\ done.events = page.events
    BY <1>1, NotHeardFollows
  <2>3. Follows(page, Returned(page, caller))
    BY <1>1, <2>2, ReturnedFollows
  <2>. QED  BY <1>1, <2>1, <2>3, PageStep
<1>. QED  BY <1>2, <1>3

LEMMA FailuresAre == ASSUME Inv, Fails PROVE failures' \in 0..MaxFailures
BY SizesAre DEF Inv, TypeOK, Fails

LEMMA SnapshotFailsStep ==
  ASSUME Inv, NEW caller \in Caller, SnapshotFails(caller) PROVE Inv'
<1>1. /\ page \in PageSet /\ PageOK(page) /\ page.snapshot[caller].pc # "none"
      /\ page' = Returned(page, caller) /\ UNCHANGED <<top, stream, cursor, transit>>
      /\ failures' \in 0..MaxFailures
  BY FailuresAre DEF Inv, TypeOK, SnapshotFails
<1> DEFINE done == [page EXCEPT !.snapshot[caller] = NotAsked]
<1>2. Follows(page, done) /\ done.snapshot[caller] = NotAsked /\ done.events = page.events
  BY <1>1, NotHeardFollows
<1>3. Follows(page, Returned(page, caller))
  BY <1>1, <1>2, ReturnedFollows
<1>. QED  BY <1>1, <1>3, PageStep

\* The loop is done with its page of events.
EventsOver(c, again, loop) == [c EXCEPT !.events = NotAsked, !.again = again, !.loop = loop]

LEMMA EventsOverFollows ==
  ASSUME NEW c \in PageSet, PageOK(c), NEW again, again \in BOOLEAN, NEW loop,
         c.events.pc # "none", loop = c.loop \/ loop = "snapshot",
         NEW d, d = EventsOver(c, again, loop)
  PROVE  Follows(c, d) /\ AtRest(d) /\ d.loop = loop /\ d.latest = c.latest /\ d.rewound = c.rewound
<1> USE DEF EventsOver
<1>1. d \in PageSet
  BY RequestsAre DEF PageSet
<1>2. /\ d.usage = c.usage /\ d.pending = c.pending /\ d.latest = c.latest /\ d.newest = c.newest
      /\ d.snapshot = c.snapshot /\ d.loop = loop /\ d.after = c.after /\ d.events = NotAsked
      /\ d.dropped = c.dropped /\ d.rewound = c.rewound
  BY DEF PageSet
<1>3. AtRest(d)
  BY <1>2, RequestsAre DEF AtRest, PageOK, LoopInv
<1>4. PageOK(d)
  BY <1>2, <1>3 DEF PageOK, KeptInv, Kept, LatestInv, Awaited, UnsetInv, LoopInv, AtRest
<1>5. Follows(c, d)
  BY <1>1, <1>2, <1>4, RequestsAre DEF Follows, Stored, FrontOK, Awaited
<1>. QED  BY <1>2, <1>3, <1>5

LEMMA EventsArriveStep == ASSUME Inv, EventsArrive PROVE Inv'
<1> DEFINE again == page.again \/ page.events.limited
           got == [page EXCEPT !.events = NotAsked, !.again = again]
           taken == ApplyUsagePayload(got, Payload(page.after, page.events.upTo))
<1>1. /\ page \in PageSet /\ PageOK(page) /\ page.events.pc = "answered"
      /\ UNCHANGED <<top, stream, cursor, transit, failures>> /\ failures \in 0..MaxFailures
      /\ top \in Nat
  BY SizesAre DEF Inv, TypeOK, EventsArrive
<1>2. page' = EndRound(taken)
  BY DEF EventsArrive
<1>3. again \in BOOLEAN /\ page.loop = "events" /\ (page.rewound \/ page.after <= page.latest)
      /\ page.after \in 0..MaxId /\ page.events.upTo \in 0..MaxId
  BY <1>1 DEF PageSet, Request, PageOK, LoopInv
<1> HIDE DEF again
<1>4. got = EventsOver(page, again, page.loop)
  BY <1>1 DEF PageSet, EventsOver
<1> HIDE DEF got
<1>5. Follows(page, got) /\ AtRest(got) /\ got.latest = page.latest /\ got.rewound = page.rewound
  BY <1>1, <1>3, <1>4, EventsOverFollows
<1>6. got \in PageSet /\ PageOK(got)
  BY <1>5 DEF Follows
<1>7. /\ taken \in PageSet /\ PageOK(taken) /\ got.latest <= taken.latest
      /\ taken.events = got.events /\ taken.snapshot = got.snapshot
      /\ taken.rewound = got.rewound /\ taken.newest = got.newest
      /\ \A n \in Nat : Stored(got, n) /\ page.events.upTo <= n => Stored(taken, n)
  BY <1>3, <1>5, <1>6, ApplyFollows
<1> HIDE DEF taken
<1>8. AtRest(taken)
  BY <1>5, <1>7 DEF AtRest
<1>9. Follows(taken, EndRound(taken))
  BY <1>7, <1>8, EndRoundFollows
<1>10. page' \in PageSet /\ PageOK(page')
  BY <1>2, <1>9 DEF Follows
<1>11. Stored(page', top')
  <2>1. Stored(page, top) /\ page.events.upTo <= top
    BY DEF Inv, Stored
  <2>2. Stored(taken, top)
    BY <1>1, <1>5, <1>7, <2>1 DEF Follows
  <2>. QED  BY <1>1, <1>2, <1>9, <2>2 DEF Follows
<1>12. Foremost' = Foremost
  BY <1>1 DEF Foremost
<1>13. stream = "on" => FrontOK(page', Foremost)
  <2> SUFFICES ASSUME stream = "on" PROVE FrontOK(page', Foremost)
    OBVIOUS
  <2>1. Foremost \in Nat /\ FrontOK(got, Foremost)
    BY <1>5, FrontIs DEF Inv, StreamInv, Follows
  <2>2. got.latest \in Nat /\ taken.latest \in Nat
    BY <1>6, <1>7, SizesAre DEF PageSet
  <2>3. FrontOK(taken, Foremost)
    BY <1>7, <2>1, <2>2 DEF FrontOK, Awaited
  <2>. QED  BY <1>2, <1>9, <2>1, <2>3 DEF Follows
<1>14. StreamInv'
  BY <1>1, <1>12, <1>13 DEF Inv, StreamInv
<1>15. TypeOK'
  BY <1>1, <1>10 DEF Inv, TypeOK
<1>. QED  BY <1>10, <1>11, <1>14, <1>15 DEF Inv

LEMMA EventsFailStep == ASSUME Inv, EventsFail PROVE Inv'
<1> DEFINE b == [page EXCEPT !.events = NotAsked, !.loop = "snapshot"]
<1>1. /\ page \in PageSet /\ PageOK(page) /\ page.events.pc # "none"
      /\ page' = LoadUsage(b, "loop") /\ UNCHANGED <<top, stream, cursor, transit>>
      /\ failures' \in 0..MaxFailures /\ page.again \in BOOLEAN
  BY FailuresAre DEF Inv, TypeOK, EventsFail, PageSet
<1>2. b = EventsOver(page, page.again, "snapshot")
  BY <1>1 DEF PageSet, EventsOver
<1> HIDE DEF b
<1>3. Follows(page, b) /\ AtRest(b) /\ b.loop = "snapshot"
  BY <1>1, <1>2, EventsOverFollows
<1>4. Follows(b, LoadUsage(b, "loop"))
  BY <1>3, LoadUsageFollows DEF Follows, AtRest
<1>5. Follows(page, page')
  BY <1>1, <1>3, <1>4, FollowsFollows
<1>. QED  BY <1>1, <1>5, PageStep

LEMMA FlushStep == ASSUME Inv, Flush PROVE Inv'
<1>1. page \in PageSet /\ PageOK(page) /\ failures \in 0..MaxFailures
  BY DEF Inv, TypeOK
<1>. QED  BY <1>1, FlushFollows, PageStep DEF Flush

LEMMA RefreshStep == ASSUME Inv, Refresh PROVE Inv'
<1>1. page \in PageSet /\ PageOK(page) /\ failures \in 0..MaxFailures
  BY DEF Inv, TypeOK
<1>. QED  BY <1>1, LoadUsageIncrementalFollows, PageStep DEF Refresh

\* What arrives starts where the page is or below, and what comes after it
\* starts where it ends.
LEMMA MessageArrivesStep == ASSUME Inv, MessageArrives PROVE Inv'
<1> DEFINE message == Head(transit)
           taken == ApplyUsagePayload(page, Payload(message.after, message.upTo))
<1>1. /\ transit # << >> /\ transit' = Tail(transit)
      /\ page' = IF message.limited THEN LoadUsageIncremental(taken) ELSE taken
      /\ UNCHANGED <<top, stream, cursor, failures>>
  BY DEF MessageArrives
<1>2. /\ page \in PageSet /\ PageOK(page) /\ top \in Nat /\ cursor \in Nat /\ stream = "on"
      /\ transit \in Seq(Message) /\ Len(transit) <= MaxInTransit /\ Stored(page, top)
      /\ failures \in 0..MaxFailures
  BY <1>1, SizesAre DEF Inv, TypeOK, StreamInv
<1>3. Len(transit) \in Nat /\ Len(transit) >= 1 /\ message = transit[1] /\ message \in Message
  BY <1>1, <1>2
<1> HIDE DEF message
<1>4. message.after \in 0..MaxId /\ message.upTo \in 0..MaxId /\ message.upTo \in Nat /\ message.after \in Nat
  BY <1>3, SizesAre DEF Message
<1>5. /\ message.upTo <= top
      /\ message.upTo = IF Len(transit) = 1 THEN cursor ELSE transit[2].after
  <2>1. 1 \in 1..Len(transit)
    BY <1>3
  <2>2. /\ transit[1].upTo <= top
        /\ transit[1].upTo = IF 1 = Len(transit) THEN cursor ELSE transit[1 + 1].after
    BY <2>1 DEF Inv, StreamInv
  <2>. QED  BY <1>3, <2>2
<1>6. page.rewound \/ message.after <= page.latest
  BY <1>1, <1>2, <1>3 DEF Inv, StreamInv, FrontOK, Foremost
<1>7. /\ taken \in PageSet /\ PageOK(taken) /\ message.upTo <= taken.latest
      /\ \A n \in Nat : Stored(page, n) /\ message.upTo <= n => Stored(taken, n)
  BY <1>2, <1>4, <1>6, ApplyFollows
<1> HIDE DEF taken
<1>8. Follows(taken, page')
  <2>1. Follows(taken, taken)
    BY <1>7 DEF Follows
  <2>2. Follows(taken, LoadUsageIncremental(taken))
    BY <1>7, LoadUsageIncrementalFollows
  <2>. QED  BY <1>1, <2>1, <2>2
<1>9. page' \in PageSet /\ PageOK(page')
  BY <1>8 DEF Follows
<1>10. Stored(page', top')
  BY <1>1, <1>2, <1>5, <1>7, <1>8 DEF Follows
<1>11. /\ transit' \in Seq(Message) /\ Len(transit') = Len(transit) - 1
       /\ \A i \in 1..Len(transit') : transit'[i] = transit[i + 1]
  BY <1>1, <1>2
<1>12. Foremost' = message.upTo
  <2>1. CASE Len(transit) = 1
    <3>1. transit' = << >>
      BY <1>11, <2>1
    <3>. QED  BY <1>1, <1>5, <2>1, <3>1 DEF Foremost
  <2>2. CASE Len(transit) # 1
    <3>1. transit' # << >> /\ transit'[1] = transit[2]
      BY <1>3, <1>11, <2>2
    <3>. QED  BY <1>5, <2>2, <3>1 DEF Foremost
  <2>. QED  BY <2>1, <2>2
<1>13. FrontOK(page', Foremost')
  <2>1. FrontOK(taken, message.upTo)
    BY <1>7 DEF FrontOK
  <2>. QED  BY <1>4, <1>8, <1>12, <2>1 DEF Follows
<1>14. StreamInv'
  <2>1. cursor <= top
    BY DEF Inv, StreamInv
  <2>2. ASSUME NEW i \in 1..Len(transit')
        PROVE  /\ transit'[i].after <= transit'[i].upTo /\ transit'[i].upTo <= top
               /\ transit'[i].upTo = IF i = Len(transit') THEN cursor ELSE transit'[i + 1].after
    <3>1. i + 1 \in 1..Len(transit)
      BY <1>3, <1>11
    <3>2. /\ transit[i + 1].after <= transit[i + 1].upTo /\ transit[i + 1].upTo <= top
          /\ transit[i + 1].upTo = IF i + 1 = Len(transit) THEN cursor ELSE transit[(i + 1) + 1].after
      BY <3>1 DEF Inv, StreamInv
    <3>. QED  BY <1>3, <1>11, <3>1, <3>2
  <2>. QED  BY <1>1, <1>2, <1>13, <2>1, <2>2 DEF StreamInv
<1>15. TypeOK'
  <2>1. Len(transit') <= MaxInTransit
    BY <1>2, <1>3, <1>11, SizesAre
  <2>. QED  BY <1>1, <1>9, <1>11, <2>1 DEF Inv, TypeOK
<1>. QED  BY <1>9, <1>10, <1>14, <1>15 DEF Inv

\* A stream starts at the cursor of the page.
LEMMA StreamStarts ==
  ASSUME Inv, stream # "on", stream' = "on", page' \in PageSet, PageOK(page'), Stored(page', top),
         cursor' = page'.latest, UNCHANGED <<top, transit, failures>>
  PROVE  Inv'
<1>1. transit = << >> /\ cursor' \in 0..MaxId /\ cursor' \in Nat
  BY SizesAre DEF Inv, StreamInv, PageSet
<1>2. Foremost' = page'.latest
  BY <1>1 DEF Foremost
<1>3. FrontOK(page', Foremost')
  BY <1>1, <1>2 DEF FrontOK
<1>4. StreamInv'
  BY <1>1, <1>3 DEF StreamInv, Stored
<1>5. TypeOK'
  BY <1>1 DEF Inv, TypeOK
<1>. QED  BY <1>4, <1>5 DEF Inv

LEMMA ConnectStep == ASSUME Inv, Connect PROVE Inv'
<1>1. page' \in PageSet /\ PageOK(page') /\ Stored(page', top)
  BY DEF Inv, TypeOK, Connect
<1>. QED  BY <1>1, StreamStarts DEF Connect

LEMMA ReconnectStep == ASSUME Inv, Reconnect PROVE Inv'
<1>1. page \in PageSet /\ PageOK(page) /\ Stored(page, top) /\ top \in Nat
  BY SizesAre DEF Inv, TypeOK
<1>2. Follows(page, page')
  BY <1>1, LoadUsageIncrementalFollows DEF Reconnect
<1>3. page' \in PageSet /\ PageOK(page') /\ Stored(page', top)
  BY <1>1, <1>2 DEF Follows
<1>. QED  BY <1>3, StreamStarts DEF Reconnect

LEMMA StreamBreaksStep == ASSUME Inv, StreamBreaks PROVE Inv'
<1>1. failures' \in 0..MaxFailures
  BY FailuresAre DEF StreamBreaks
<1>2. TypeOK'
  BY <1>1, SizesAre DEF Inv, TypeOK, StreamBreaks
<1>3. StreamInv'
  BY DEF Inv, StreamInv, StreamBreaks
<1>. QED  BY <1>2, <1>3 DEF Inv, StreamBreaks

LEMMA StepInv == Inv /\ [Next]_vars => Inv'
<1> SUFFICES ASSUME Inv, [Next]_vars PROVE Inv'
  OBVIOUS
<1>1. CASE \E n \in 1..MaxId : Store(n)
  BY <1>1, StoreStep
<1>2. CASE Server
  BY <1>2, AnswerSnapshotStep, AnswerEventsStep, SendEventsStep DEF Server
<1>3. CASE Arrivals
  BY <1>3, SnapshotArrivesStep, EventsArriveStep, MessageArrivesStep DEF Arrivals
<1>4. CASE Failures
  BY <1>4, SnapshotFailsStep, EventsFailStep, StreamBreaksStep DEF Failures
<1>5. CASE Timers
  BY <1>5, FlushStep, ConnectStep, ReconnectStep DEF Timers
<1>6. CASE Refresh
  BY <1>6, RefreshStep
<1>7. CASE UNCHANGED vars
  <2>1. UNCHANGED <<top, page, stream, cursor, transit, failures>>
    BY <1>7 DEF vars
  <2>2. TypeOK'
    BY <2>1 DEF Inv, TypeOK
  <2>3. Foremost' = Foremost
    BY <2>1 DEF Foremost
  <2>4. StreamInv'
    BY <2>1, <2>3 DEF Inv, StreamInv
  <2>. QED  BY <2>1, <2>2, <2>4 DEF Inv
<1>. QED  BY <1>1, <1>2, <1>3, <1>4, <1>5, <1>6, <1>7 DEF Next

LEMMA InvAlways == Spec => []Inv
BY InitInv, StepInv, PTL DEF Spec

-----------------------------------------------------------------------------
(* The theorems.                                                           *)

\* The page, its requests and the messages on their way are of their types.
THEOREM TypeCorrect == Spec => []TypeOK
<1>1. Inv => TypeOK
  BY DEF Inv
<1>. QED  BY <1>1, InvAlways, PTL

\* No event up to the page's cursor is skipped, in whatever order snapshots,
\* pages of events and messages of the stream come and fail, unless the page
\* dropped a pending payload or took the cursor back, as useUsageData does
\* when it loads a snapshot.
THEOREM NothingIsSkipped == Spec => []NoneSkipped
<1>1. ASSUME Inv PROVE NoneSkipped
  <2> SUFFICES ASSUME ~page.dropped, ~page.rewound, NEW id \in 1..page.latest
               PROVE  Counted(id) >= 1
    BY DEF NoneSkipped
  <2>1. page \in PageSet /\ Kept(page, id)
    BY <1>1 DEF Inv, TypeOK, PageOK, KeptInv
  <2>2. id \in Ids
    BY <2>1, SizesAre DEF PageSet, Ids
  <2>3. page.usage.times[id] \in Nat /\ page.pending.times[id] \in Nat
    BY <2>1, <2>2 DEF PageSet, PayloadSet
  <2>. QED  BY <2>1, <2>3 DEF Kept, Counted
<1>2. Inv => NoneSkipped
  BY <1>1
<1>. QED  BY <1>2, InvAlways, PTL

(* ------------------------------- metadata ------------------------------ *)

\* Either the newest request is still under way, for the configuration rendered and not
\* cancelled, or its answer is shown, or an older one came last; a request of an effect
\* that is not cancelled is of that configuration; and the page is loading only while an
\* answer that will be applied is to come.
MetaInv ==
    /\ asked \in Nat /\ cfg \in Nat
    /\ \A q \in asks :
        /\ DOMAIN q = {"n", "kind", "cfg", "cancelled", "answer"}
        /\ q.n \in 1..asked /\ q.kind \in {"effect", "refresh"}
        /\ q.n = asked => ~q.cancelled /\ q.cfg = cfg
        /\ q.kind = "refresh" \/ q.cancelled \/ q.cfg = cfg
    /\ (\E q \in asks : q.n = asked) \/ (shown.n = asked /\ shown.cfg = cfg) \/ overtaken
    /\ metaLoading => \E q \in asks : ~q.cancelled

(* ----------------------------- model prices ---------------------------- *)

\* Unless an exception struck: until the read is done the page shows the browser's prices
\* and will end up with what is meant; from then on it shows what is meant, and so will the
\* database, for the newest write is under way or was applied last.
PriceInv ==
    /\ sent \in Nat /\ applied \in Nat
    /\ \A p \in puts : p.n \in 1..sent
    /\ excuses = {} /\ priceLoad.stage # "done" =>
        /\ puts = {} /\ prices = legacy /\ meant = Settled(stored, legacy)
        /\ priceLoad.stage = "answered" => priceLoad.value = stored
    /\ excuses = {} /\ priceLoad.stage = "done" =>
        /\ prices = meant
        /\ \A p \in puts : p.n = sent => p.value = meant
        /\ (\E p \in puts : p.n = sent) \/ (stored = meant /\ (puts = {} \/ applied = sent))

(* ---------------------------- account quotas --------------------------- *)

AllTargets == UNION {c.targets : c \in AllCards}
Status == {"none", "loading", "success", "error"}

QuotaTypes ==
    /\ requestIds \in [Accounts -> Nat]
    /\ accountQuota \in [Accounts -> [status : Status, targets : SUBSET AllTargets]]
    /\ DOMAIN store = AllKeys
    /\ \A l \in loads : l.account \in Accounts /\ l.targets \in SUBSET AllTargets

\* A loading account waits for its newest load, a loading quota for the newest load of some
\* account, unless its own was given up; what an account's quotas have from it is of its
\* newest load; and a settled account agrees with them.
AccountAwaits(a) == accountQuota[a].status = "loading" => \E l \in loads : l.account = a /\ ~Stale(l)
KeyAwaits(k) == store[k].status = "loading" /\ k \notin orphans => \E l \in loads : ~Stale(l) /\ k \in Keys(l.targets)
LoadedBy(a, k) == store[k].by # <<>> /\ store[k].by[1] = a
OwnNewest(a) == \A k \in Keys(accountQuota[a].targets) : LoadedBy(a, k) => store[k].by[2] = requestIds[a]
Agrees(a) ==
    LET keys == Keys(accountQuota[a].targets)
    IN  accountQuota[a].status # "loading" /\ keys # {} /\ (\A k \in keys : LoadedBy(a, k)) =>
            (accountQuota[a].status = "success" <=> \E k \in keys : store[k].status = "success")

QuotaInv ==
    /\ QuotaTypes
    /\ \A a \in Accounts : AccountAwaits(a) /\ OwnNewest(a) /\ Agrees(a)
    /\ \A k \in AllKeys : KeyAwaits(k)

LEMMA InitMeta == PageInit => MetaInv
<1>. SUFFICES ASSUME PageInit PROVE MetaInv
  OBVIOUS
<1>1. /\ cfg = 1 /\ metaLoading = TRUE /\ asked = 1
      /\ asks = {Ask(1, "effect", cfg)}
  BY DEF PageInit, Mounted
<1>. QED  BY <1>1 DEF MetaInv, Ask

LEMMA StepMeta == MetaInv /\ [PageNext]_pageVars => MetaInv'
<1>. SUFFICES ASSUME MetaInv, [PageNext]_pageVars PROVE MetaInv'
  OBVIOUS
<1>. USE DEF MetaInv
<1>1. CASE UNCHANGED metaVars
  BY <1>1 DEF metaVars
<1>2. CASE ConfigChanges
  <2>1. /\ cfg' = cfg + 1 /\ asked' = asked + 1
        /\ asks' = {Cancelled(q) : q \in asks} \cup {Ask(asked + 1, "effect", cfg + 1)}
    BY <1>2 DEF ConfigChanges
  <2>2. \A q \in asks : /\ DOMAIN Cancelled(q) = DOMAIN q
                        /\ Cancelled(q).n = q.n /\ Cancelled(q).kind = q.kind
                        /\ Cancelled(q).kind = "refresh" \/ Cancelled(q).cancelled
    BY DEF Cancelled
  <2>3. Ask(asked + 1, "effect", cfg + 1).n = asked + 1 /\ Ask(asked + 1, "effect", cfg + 1).cfg = cfg + 1
        /\ ~Ask(asked + 1, "effect", cfg + 1).cancelled /\ Ask(asked + 1, "effect", cfg + 1).kind = "effect"
        /\ DOMAIN Ask(asked + 1, "effect", cfg + 1) = {"n", "kind", "cfg", "cancelled", "answer"}
    BY DEF Ask
  <2>. QED  BY <2>1, <2>2, <2>3
<1>3. CASE RefreshAll
  <2>1. /\ asked' = asked + 1 /\ UNCHANGED <<cfg, shown, metaLoading, overtaken>>
        /\ asks' = asks \cup {Ask(asked + 1, "refresh", cfg)}
    BY <1>3 DEF RefreshAll
  <2>2. Ask(asked + 1, "refresh", cfg).n = asked + 1 /\ Ask(asked + 1, "refresh", cfg).cfg = cfg
        /\ ~Ask(asked + 1, "refresh", cfg).cancelled /\ Ask(asked + 1, "refresh", cfg).kind = "refresh"
        /\ DOMAIN Ask(asked + 1, "refresh", cfg) = {"n", "kind", "cfg", "cancelled", "answer"}
    BY DEF Ask
  <2>. QED  BY <2>1, <2>2
<1>4. CASE FilesChange
  BY <1>4 DEF FilesChange
<1>5. ASSUME NEW q \in asks, MetaAnswered(q) PROVE MetaInv'
  <2>1. PICK files : asks' = (asks \ {q}) \cup {[q EXCEPT !.answer = <<files>>]}
    BY <1>5 DEF MetaAnswered
  <2> DEFINE r == [q EXCEPT !.answer = <<files>>]
  <2>2. DOMAIN r = DOMAIN q /\ r.n = q.n /\ r.kind = q.kind /\ r.cfg = q.cfg /\ r.cancelled = q.cancelled
    OBVIOUS
  <2>3. UNCHANGED <<cfg, shown, metaLoading, asked, overtaken>>
    BY <1>5 DEF MetaAnswered
  <2>4. asks' = (asks \ {q}) \cup {r}
    BY <2>1
  <2> HIDE DEF r
  <2>. QED  BY <2>2, <2>3, <2>4
<1>6. ASSUME NEW q \in asks, MetaArrives(q) PROVE MetaInv'
  <2>1. asks' = asks \ {q} /\ UNCHANGED <<cfg, asked>>
    BY <1>6 DEF MetaArrives
  <2>2. CASE q.cancelled
    <3>1. UNCHANGED <<shown, metaLoading, overtaken>> /\ q.n # asked
      BY <1>6, <2>2 DEF MetaArrives
    <3>. QED  BY <2>1, <2>2, <3>1
  <2>3. CASE ~q.cancelled
    <3>1. /\ shown'.n = q.n /\ shown'.cfg = q.cfg /\ metaLoading' = FALSE
          /\ overtaken' = (q.n < asked /\ (overtaken \/ (q.n < shown.n /\ (q.kind = "refresh" \/ q.cfg = cfg))))
      BY <1>6, <2>3 DEF MetaArrives
    <3>2. (\E o \in asks' : o.n = asked) \/ (shown'.n = asked /\ shown'.cfg = cfg) \/ overtaken'
      <4>1. CASE q.n = asked
        BY <3>1, <4>1
      <4>2. CASE q.n # asked
        <5>1. q.n < asked
          BY <4>2
        <5>2. CASE \E o \in asks : o.n = asked
          BY <2>1, <4>2, <5>2
        <5>3. CASE overtaken
          BY <3>1, <5>1, <5>3
        <5>4. CASE shown.n = asked
          BY <2>3, <3>1, <5>1, <5>4
        <5>. QED  BY <5>2, <5>3, <5>4
      <4>. QED  BY <4>1, <4>2
    <3>. QED  BY <2>1, <3>1, <3>2
  <2>. QED  BY <2>2, <2>3
<1>7. CASE Reload
  <2>1. /\ asked' = asked + 1 /\ cfg' = cfg /\ asks' = {Ask(asked + 1, "effect", cfg)}
    BY <1>7 DEF Reload, Mounted
  <2>2. Ask(asked + 1, "effect", cfg).n = asked + 1 /\ Ask(asked + 1, "effect", cfg).cfg = cfg
        /\ ~Ask(asked + 1, "effect", cfg).cancelled /\ Ask(asked + 1, "effect", cfg).kind = "effect"
        /\ DOMAIN Ask(asked + 1, "effect", cfg) = {"n", "kind", "cfg", "cancelled", "answer"}
    BY DEF Ask
  <2>. QED  BY <2>1, <2>2
<1>8. ASSUME NEW a \in Accounts, ToggleAccount(a) \/ RefreshQuota(a) PROVE MetaInv'
  BY <1>1, <1>8 DEF ToggleAccount, RefreshQuota
<1>9. ASSUME NEW l \in loads, LoadSettles(l) PROVE MetaInv'
  BY <1>1, <1>9 DEF LoadSettles
<1>10. CASE \/ PricesAnswered \/ PricesArrive \/ OthersPrice
            \/ \E m \in Models : SelectModel(m) \/ DeletePrice(m)
            \/ \E price \in Prices : SavePrice(price)
            \/ \E p \in puts : PutApplied(p) \/ PutLost(p)
  BY <1>1, <1>10 DEF PricesAnswered, PricesArrive, OthersPrice, SelectModel, DeletePrice, SavePrice,
                     PutApplied, PutLost
<1>11. CASE UNCHANGED pageVars
  BY <1>1, <1>11 DEF pageVars
<1>. QED  BY <1>2, <1>3, <1>4, <1>5, <1>6, <1>7, <1>8, <1>9, <1>10, <1>11 DEF PageNext

\* Once no request for metadata is under way the page shows its newest answer, unless an
\* uncancelled older one came last (useMonitoringData's effect and refreshMeta).
THEOREM MetaSettled == PageSpec => []MetaSettles
<1>1. MetaInv => MetaSettles
  BY DEF MetaInv, MetaSettles
<1>. QED  BY <1>1, InitMeta, StepMeta, PTL DEF PageSpec

LEMMA InitPrices == PageInit => PriceInv
<1>. SUFFICES ASSUME PageInit PROVE PriceInv
  OBVIOUS
<1>1. /\ prices = legacy /\ priceLoad.stage = "asked" /\ puts = {} /\ sent = 0 /\ applied = 0
      /\ meant = Settled(stored, legacy)
  BY DEF PageInit, Mounted
<1>. QED  BY <1>1 DEF PriceInv

LEMMA StepPrices == PriceInv /\ [PageNext]_pageVars => PriceInv'
<1>. SUFFICES ASSUME PriceInv, [PageNext]_pageVars PROVE PriceInv'
  OBVIOUS
<1>. USE DEF PriceInv
<1>1. CASE UNCHANGED priceVars
  BY <1>1 DEF priceVars, Settled
<1>2. CASE PricesAnswered
  <2>1. /\ UNCHANGED <<prices, stored, legacy, puts, sent, meant, excuses, applied>>
        /\ priceLoad.stage = "asked"
        /\ \/ priceLoad'.stage = "answered" /\ priceLoad'.value = stored
           \/ priceLoad'.stage = "failed"
    BY <1>2 DEF PricesAnswered
  <2>. QED  BY <2>1 DEF Settled
<1>3. CASE PricesArrive
  <2> DEFINE migrate == priceLoad.stage = "answered" /\ priceLoad.value = NoPrices /\ legacy # NoPrices
  <2>1. /\ priceLoad.stage \in {"answered", "failed"} /\ priceLoad'.stage = "done"
        /\ prices' = IF priceLoad.value # NoPrices THEN priceLoad.value ELSE prices
        /\ sent' = IF migrate THEN sent + 1 ELSE sent
        /\ puts' = IF migrate THEN puts \cup {Put(sent + 1, legacy)} ELSE puts
        /\ excuses' = IF priceLoad.stage = "failed" THEN excuses \cup {"unread"} ELSE excuses
        /\ UNCHANGED <<stored, legacy, meant, applied>>
    BY <1>3 DEF PricesArrive
  <2>2. Put(sent + 1, legacy).n = sent + 1 /\ Put(sent + 1, legacy).value = legacy
    BY DEF Put
  <2>3. CASE excuses' # {}
    <3>1. \A p \in puts' : p.n \in 1..sent'
      BY <2>1, <2>2
    <3>. QED  BY <2>1, <2>3, <3>1
  <2>4. CASE excuses' = {}
    <3>1. /\ excuses = {} /\ priceLoad.stage = "answered" /\ priceLoad.value = stored
          /\ puts = {} /\ prices = legacy /\ meant = Settled(stored, legacy)
      BY <2>1, <2>4
    <3>2. prices' = meant'
      BY <2>1, <3>1 DEF Settled
    <3>3. CASE migrate
      <4>1. sent' = sent + 1 /\ puts' = {Put(sent + 1, legacy)} /\ meant' = legacy
        BY <2>1, <3>1, <3>3 DEF Settled
      <4>. QED  BY <2>1, <2>2, <3>2, <4>1
    <3>4. CASE ~migrate
      <4>1. sent' = sent /\ puts' = {} /\ stored' = meant'
        BY <2>1, <3>1, <3>4 DEF Settled
      <4>. QED  BY <2>1, <3>2, <4>1
    <3>. QED  BY <3>3, <3>4
  <2>. QED  BY <2>3, <2>4
<1>4. ASSUME NEW map, NEW left1, SetModelPrices(map), meant' = left1, prices = meant => map = left1,
             UNCHANGED <<stored, legacy, priceLoad, applied>>
      PROVE  PriceInv'
  <2>1. /\ prices' = map /\ sent' = sent + 1 /\ puts' = puts \cup {Put(sent + 1, map)}
        /\ excuses' = IF priceLoad.stage = "done" THEN excuses ELSE excuses \cup {"early"}
    BY <1>4 DEF SetModelPrices
  <2>2. Put(sent + 1, map).n = sent + 1 /\ Put(sent + 1, map).value = map
    BY DEF Put
  <2>3. \A p \in puts' : p.n \in 1..sent'
    BY <2>1, <2>2
  <2>4. CASE excuses' # {}
    BY <1>4, <2>1, <2>3, <2>4
  <2>5. CASE excuses' = {}
    <3>1. excuses = {} /\ priceLoad.stage = "done" /\ prices = meant
      BY <2>1, <2>5
    <3>2. prices' = meant'
      BY <1>4, <2>1, <3>1
    <3>3. \A p \in puts' : p.n = sent' => p.value = meant'
      BY <1>4, <2>1, <2>2, <3>1
    <3>4. \E p \in puts' : p.n = sent'
      BY <2>1, <2>2
    <3>. QED  BY <1>4, <2>1, <2>3, <3>1, <3>2, <3>3, <3>4
  <2>. QED  BY <2>4, <2>5
<1>5. CASE \E price \in Prices : SavePrice(price)
  <2>1. PICK price \in Prices : SavePrice(price)
    BY <1>5
  <2>2. /\ SetModelPrices(With(prices, editor, price)) /\ meant' = With(meant, editor, price)
        /\ UNCHANGED <<stored, legacy, priceLoad, applied>>
    BY <2>1 DEF SavePrice
  <2>3. prices = meant => With(prices, editor, price) = With(meant, editor, price)
    OBVIOUS
  <2>. QED  BY <1>4, <2>2, <2>3
<1>6. CASE \E m \in Models : DeletePrice(m)
  <2>1. PICK m \in Models : DeletePrice(m)
    BY <1>6
  <2>2. /\ SetModelPrices(Without(prices, m)) /\ meant' = Without(meant, m)
        /\ UNCHANGED <<stored, legacy, priceLoad, applied>>
    BY <2>1 DEF DeletePrice
  <2>3. prices = meant => Without(prices, m) = Without(meant, m)
    OBVIOUS
  <2>. QED  BY <1>4, <2>2, <2>3
<1>7. ASSUME NEW p \in puts, PutApplied(p) PROVE PriceInv'
  <2>1. /\ puts' = puts \ {p} /\ stored' = p.value /\ applied' = Larger(applied, p.n)
        /\ excuses' = IF p.n < applied THEN excuses \cup {"overtaken"} ELSE excuses
        /\ UNCHANGED <<prices, legacy, priceLoad, sent, meant>>
    BY <1>7 DEF PutApplied
  <2>2. p.n \in 1..sent /\ applied' \in Nat /\ (~(p.n < applied) => applied' = p.n)
    BY <2>1 DEF Larger
  <2>3. CASE excuses' # {}
    BY <2>1, <2>2, <2>3
  <2>4. CASE excuses' = {}
    <3>1. excuses = {} /\ ~(p.n < applied) /\ applied' = p.n
      BY <2>1, <2>2, <2>4
    <3>2. priceLoad.stage = "done"
      BY <3>1
    <3>3. (\E o \in puts' : o.n = sent) \/ (stored' = meant /\ (puts' = {} \/ applied' = sent))
      <4>1. CASE p.n = sent
        BY <2>1, <3>1, <3>2, <4>1
      <4>2. CASE p.n # sent
        <5>1. ~(applied = sent)
          BY <2>2, <3>1, <4>2
        <5>2. PICK o \in puts : o.n = sent
          BY <3>1, <3>2, <5>1
        <5>. QED  BY <2>1, <4>2, <5>2
      <4>. QED  BY <4>1, <4>2
    <3>. QED  BY <2>1, <2>2, <3>1, <3>2, <3>3
  <2>. QED  BY <2>3, <2>4
<1>8. ASSUME NEW p \in puts, PutLost(p) PROVE PriceInv'
  <2>1. puts' = puts \ {p} /\ excuses' # {} /\ UNCHANGED <<sent, applied>>
    BY <1>8 DEF PutLost
  <2>. QED  BY <2>1
<1>9. CASE OthersPrice
  <2>1. excuses' # {} /\ UNCHANGED <<puts, sent, applied>>
    BY <1>9 DEF OthersPrice
  <2>. QED  BY <2>1
<1>10. CASE Reload
  <2> DEFINE sure == puts = {} /\ excuses = {} /\ priceLoad.stage = "done"
  <2>1. /\ UNCHANGED <<stored, legacy, puts, sent, applied>>
        /\ prices' = legacy /\ priceLoad'.stage = "asked"
        /\ meant' = IF sure THEN meant ELSE Settled(stored, legacy)
        /\ excuses' = (IF puts # {} THEN {"unsaved"} ELSE {})
                        \cup (IF sure /\ meant = NoPrices /\ legacy # NoPrices THEN {"reborn"} ELSE {})
    BY <1>10 DEF Reload, Mounted
  <2>2. CASE excuses' # {}
    BY <2>1, <2>2
  <2>3. CASE excuses' = {}
    <3>1. puts = {} /\ ~(sure /\ meant = NoPrices /\ legacy # NoPrices)
      BY <2>1, <2>3
    <3>2. meant' = Settled(stored, legacy)
      <4>1. CASE sure
        BY <2>1, <3>1, <4>1 DEF Settled
      <4>2. CASE ~sure
        BY <2>1, <4>2
      <4>. QED  BY <4>1, <4>2
    <3>. QED  BY <2>1, <3>1, <3>2
  <2>. QED  BY <2>2, <2>3
<1>11. ASSUME NEW q \in asks, MetaAnswered(q) \/ MetaArrives(q) PROVE PriceInv'
  BY <1>1, <1>11 DEF MetaAnswered, MetaArrives
<1>12. ASSUME NEW a \in Accounts, ToggleAccount(a) \/ RefreshQuota(a) PROVE PriceInv'
  BY <1>1, <1>12 DEF ToggleAccount, RefreshQuota
<1>13. ASSUME NEW l \in loads, LoadSettles(l) PROVE PriceInv'
  BY <1>1, <1>13 DEF LoadSettles
<1>14. CASE ConfigChanges \/ RefreshAll \/ FilesChange \/ UNCHANGED pageVars
  BY <1>1, <1>14 DEF ConfigChanges, RefreshAll, FilesChange, pageVars
<1>15. ASSUME NEW m \in Models, SelectModel(m) PROVE PriceInv'
  <2>1. UNCHANGED <<prices, stored, legacy, priceLoad, puts, sent, meant, excuses, applied>>
    BY <1>15 DEF SelectModel
  <2>. QED  BY <2>1 DEF Settled
<1>. QED  BY <1>2, <1>3, <1>5, <1>6, <1>7, <1>8, <1>9, <1>10, <1>11, <1>12, <1>13, <1>14, <1>15
          DEF PageNext

\* Once the prices are read and written, page and database hold them as the user left them,
\* outside of the named exceptions (useUsageData, saveModelPricesToSqlite).
THEOREM PricesSaved == PageSpec => []PricesAsSaved
<1>1. PriceInv => PricesAsSaved
  BY DEF PriceInv, PricesAsSaved
<1>. QED  BY <1>1, InitPrices, StepPrices, PTL DEF PageSpec

LEMMA KeysKnown ==
  /\ \A targets \in SUBSET AllTargets : Keys(targets) \subseteq AllKeys
  /\ \A a : Targets(a) \subseteq AllTargets
<1>1. ASSUME NEW targets \in SUBSET AllTargets, NEW k \in Keys(targets) PROVE k \in AllKeys
  <2>1. PICK t \in targets : k = Key(t)
    BY DEF Keys
  <2>2. PICK c \in AllCards : t \in c.targets
    BY DEF AllTargets
  <2>3. k \in Keys(c.targets)
    BY <2>1, <2>2 DEF Keys
  <2>. QED  BY <2>3 DEF AllKeys
<1>2. ASSUME NEW a, NEW t \in Targets(a) PROVE t \in AllTargets
  BY DEF Targets, CardsNow, AllTargets
<1>. QED  BY <1>1, <1>2

LEMMA NoQuotaYet ==
  ASSUME accountQuota' = [a \in Accounts |-> NoQuota], requestIds' = [a \in Accounts |-> 0],
         store' = [k \in AllKeys |-> NoEntry], loads' = {}
  PROVE  QuotaInv'
<1>1. NoQuota \in [status : Status, targets : SUBSET AllTargets] /\ NoQuota.status = "none" /\ NoQuota.targets = {}
  BY DEF NoQuota, Status
<1>2. NoEntry.status = "none"
  BY DEF NoEntry
<1>3. Keys({}) = {}
  BY DEF Keys
<1>4. QuotaTypes'
  BY <1>1 DEF QuotaTypes
<1>5. \A a \in Accounts : accountQuota'[a].status = "none" /\ accountQuota'[a].targets = {}
  BY <1>1
<1>6. \A k \in AllKeys : store'[k].status = "none"
  BY <1>2
<1>7. \A a \in Accounts : AccountAwaits(a)' /\ OwnNewest(a)' /\ Agrees(a)'
  BY <1>3, <1>5 DEF AccountAwaits, OwnNewest, Agrees
<1>8. \A k \in AllKeys : KeyAwaits(k)'
  BY <1>6 DEF KeyAwaits
<1>. QED  BY <1>4, <1>7, <1>8 DEF QuotaInv

LEMMA InitQuota == PageInit => QuotaInv
<1>. SUFFICES ASSUME PageInit PROVE QuotaInv
  OBVIOUS
<1>1. /\ accountQuota = [a \in Accounts |-> NoQuota] /\ requestIds = [a \in Accounts |-> 0]
      /\ store = [k \in AllKeys |-> NoEntry] /\ loads = {}
  BY DEF PageInit, Mounted
<1>2. NoQuota \in [status : Status, targets : SUBSET AllTargets] /\ NoQuota.status = "none" /\ NoQuota.targets = {}
  BY DEF NoQuota, Status
<1>3. NoEntry.status = "none" /\ Keys({}) = {}
  BY DEF NoEntry, Keys
<1>4. QuotaTypes
  BY <1>1, <1>2 DEF QuotaTypes
<1>5. \A a \in Accounts : accountQuota[a].status = "none" /\ accountQuota[a].targets = {}
  BY <1>1, <1>2
<1>6. \A k \in AllKeys : store[k].status = "none"
  BY <1>1, <1>3
<1>7. \A a \in Accounts : AccountAwaits(a) /\ OwnNewest(a) /\ Agrees(a)
  BY <1>3, <1>5 DEF AccountAwaits, OwnNewest, Agrees
<1>8. \A k \in AllKeys : KeyAwaits(k)
  BY <1>6 DEF KeyAwaits
<1>. QED  BY <1>4, <1>7, <1>8 DEF QuotaInv

\* A load begins: its account and quotas wait for it, those of others keep theirs.
LEMMA StepLoad ==
  ASSUME QuotaInv, NEW a \in Accounts, LoadAccountQuota(a)
  PROVE  QuotaInv'
<1> DEFINE targets == Targets(a)
           id == requestIds[a] + 1
           fresh == [account |-> a, id |-> id, targets |-> targets]
           stale == {l \in loads : l.account = a /\ l.id = requestIds[a]}
<1>1. /\ requestIds' = [requestIds EXCEPT ![a] = id]
      /\ accountQuota' = [accountQuota EXCEPT ![a] =
            [status |-> IF targets = {} THEN "success" ELSE "loading", targets |-> targets]]
      /\ store' = [k \in AllKeys |-> IF k \in Keys(targets) THEN [status |-> "loading", by |-> <<a, id>>] ELSE store[k]]
      /\ loads' = IF targets = {} THEN loads ELSE loads \cup {fresh}
      /\ orphans' = (orphans \cup UNION {Keys(l.targets) : l \in stale}) \ Keys(targets)
  BY DEF LoadAccountQuota
<1>2. /\ requestIds \in [Accounts -> Nat]
      /\ accountQuota \in [Accounts -> [status : Status, targets : SUBSET AllTargets]]
      /\ \A l \in loads : l.account \in Accounts /\ l.targets \in SUBSET AllTargets
  BY DEF QuotaInv, QuotaTypes
<1>3. targets \subseteq AllTargets /\ \A t \in SUBSET AllTargets : Keys(t) \subseteq AllKeys
  BY KeysKnown
<1>4. fresh.account = a /\ fresh.id = id /\ fresh.targets = targets
  OBVIOUS
<1>5. Keys({}) = {}
  BY DEF Keys
<1> HIDE DEF targets, id, fresh, stale
<1>a. stale = {l \in loads : l.account = a /\ l.id = requestIds[a]} /\ id = requestIds[a] + 1
  BY DEF stale, id
<1>6. id \in Nat /\ requestIds'[a] = id /\ \A b \in Accounts : b # a => requestIds'[b] = requestIds[b]
  BY <1>1, <1>2, <1>a
<1>7. /\ accountQuota'[a].status = (IF targets = {} THEN "success" ELSE "loading")
      /\ accountQuota'[a].targets = targets
      /\ \A b \in Accounts : b # a => accountQuota'[b] = accountQuota[b]
  BY <1>1, <1>2
<1>8. /\ \A k \in Keys(targets) : store'[k].status = "loading" /\ store'[k].by = <<a, id>>
      /\ \A k \in AllKeys : k \notin Keys(targets) => store'[k] = store[k]
  BY <1>1, <1>3
<1>9. QuotaTypes'
  <2>1. requestIds' \in [Accounts -> Nat]
    BY <1>1, <1>2, <1>6
  <2>2. [status |-> IF targets = {} THEN "success" ELSE "loading", targets |-> targets]
          \in [status : Status, targets : SUBSET AllTargets]
    BY <1>3 DEF Status
  <2>3. accountQuota' \in [Accounts -> [status : Status, targets : SUBSET AllTargets]]
    BY <1>1, <1>2, <2>2
  <2>4. \A l \in loads' : l.account \in Accounts /\ l.targets \in SUBSET AllTargets
    BY <1>1, <1>2, <1>3, <1>4
  <2>. QED  BY <1>1, <2>1, <2>3, <2>4 DEF QuotaTypes
<1>10. \A l \in loads : l.account # a => Stale(l)' = Stale(l)
  BY <1>2, <1>6 DEF Stale
<1>11. targets # {} => fresh \in loads'
  BY <1>1
<1>12. targets # {} => \E l \in loads' : l.account = a /\ l.targets = targets /\ ~Stale(l)'
  <2>1. requestIds'[fresh.account] = fresh.id
    BY <1>4, <1>6
  <2>. QED  BY <1>4, <1>11, <2>1, Zenon DEF Stale
<1>13. loads \subseteq loads'
  BY <1>1
<1>14. ASSUME NEW b \in Accounts PROVE AccountAwaits(b)' /\ OwnNewest(b)' /\ Agrees(b)'
  <2>1. CASE b = a
    <3>1. AccountAwaits(b)'
      BY <1>7, <1>12, <2>1 DEF AccountAwaits
    <3>2. OwnNewest(b)'
      BY <1>6, <1>7, <1>8, <2>1 DEF OwnNewest
    <3>3. Agrees(b)'
      BY <1>5, <1>7, <2>1 DEF Agrees
    <3>. QED  BY <3>1, <3>2, <3>3
  <2>2. CASE b # a
    <3>0. AccountAwaits(b) /\ OwnNewest(b) /\ Agrees(b)
      BY DEF QuotaInv
    <3>1. AccountAwaits(b)'
      BY <1>7, <1>10, <1>13, <2>2, <3>0 DEF AccountAwaits
    <3>2. accountQuota'[b] = accountQuota[b] /\ requestIds'[b] = requestIds[b]
      BY <1>6, <1>7, <2>2
    <3>3. Keys(accountQuota[b].targets) \subseteq AllKeys
      BY <1>2, <1>3
    <3>4. \A k \in AllKeys : LoadedBy(b, k)' => store'[k] = store[k] /\ LoadedBy(b, k)
      BY <1>8, <2>2 DEF LoadedBy
    <3>5. OwnNewest(b)'
      BY <3>0, <3>2, <3>3, <3>4 DEF OwnNewest
    <3>6. Agrees(b)'
      BY <3>0, <3>2, <3>3, <3>4 DEF Agrees
    <3>. QED  BY <3>1, <3>5, <3>6
  <2>. QED  BY <2>1, <2>2
<1>15. ASSUME NEW k \in AllKeys PROVE KeyAwaits(k)'
  <2>1. CASE k \in Keys(targets)
    <3>1. targets # {}
      BY <1>5, <2>1
    <3>. QED  BY <1>12, <2>1, <3>1 DEF KeyAwaits
  <2>2. CASE k \notin Keys(targets)
    <3>1. SUFFICES ASSUME store'[k].status = "loading", k \notin orphans'
                   PROVE  \E l \in loads' : ~Stale(l)' /\ k \in Keys(l.targets)
      BY DEF KeyAwaits
    <3>2. store[k].status = "loading" /\ k \notin orphans /\ \A l \in stale : k \notin Keys(l.targets)
      BY <1>1, <1>8, <2>2, <3>1
    <3>3. PICK l \in loads : ~Stale(l) /\ k \in Keys(l.targets)
      BY <3>2 DEF QuotaInv, KeyAwaits
    <3>4. l.account # a
      BY <1>a, <3>2, <3>3 DEF Stale
    <3>5. ~Stale(l)'
      BY <1>10, <3>3, <3>4
    <3>. QED  BY <1>13, <3>3, <3>5
  <2>. QED  BY <2>1, <2>2
<1>. QED  BY <1>9, <1>14, <1>15 DEF QuotaInv

\* A load settles: a stale one leaves everything to the newer one.
LEMMA StepSettles ==
  ASSUME QuotaInv, NEW l \in loads, LoadSettles(l)
  PROVE  QuotaInv'
<1> DEFINE keys == Keys(l.targets)
           a == l.account
<1>1. loads' = loads \ {l} /\ requestIds' = requestIds
  BY DEF LoadSettles
<1>2. /\ requestIds \in [Accounts -> Nat]
      /\ accountQuota \in [Accounts -> [status : Status, targets : SUBSET AllTargets]]
      /\ DOMAIN store = AllKeys
      /\ \A o \in loads : o.account \in Accounts /\ o.targets \in SUBSET AllTargets
  BY DEF QuotaInv, QuotaTypes
<1>3. \A t \in SUBSET AllTargets : Keys(t) \subseteq AllKeys
  BY KeysKnown
<1>4. \A o : Stale(o)' = Stale(o)
  BY <1>1 DEF Stale
<1>5. CASE Stale(l)
  <2>1. UNCHANGED <<accountQuota, store, orphans>>
    BY <1>5 DEF LoadSettles
  <2>2. QuotaTypes'
    BY <1>1, <1>2, <2>1 DEF QuotaTypes
  <2>3. \A b \in Accounts : AccountAwaits(b)'
    BY <1>1, <1>4, <1>5, <2>1 DEF QuotaInv, AccountAwaits
  <2>4. \A b \in Accounts : OwnNewest(b)' /\ Agrees(b)'
    BY <1>1, <2>1 DEF QuotaInv, OwnNewest, Agrees, LoadedBy
  <2>5. \A k \in AllKeys : KeyAwaits(k)'
    BY <1>1, <1>4, <1>5, <2>1 DEF QuotaInv, KeyAwaits
  <2>. QED  BY <2>2, <2>3, <2>4, <2>5 DEF QuotaInv
<1>6. CASE ~Stale(l)
  <2>1. PICK outcome \in [keys -> {"success", "error"}] :
          /\ store' = [k \in AllKeys |-> IF k \in keys THEN [status |-> outcome[k], by |-> <<a, l.id>>] ELSE store[k]]
          /\ accountQuota' = [accountQuota EXCEPT
                ![a].status = IF \E k \in keys : outcome[k] = "success" THEN "success" ELSE "error",
                ![a].targets = l.targets]
          /\ orphans' = orphans \ keys
    BY <1>6 DEF LoadSettles
  <2>2. a \in Accounts /\ l.targets \in SUBSET AllTargets /\ keys \subseteq AllKeys
    BY <1>2, <1>3
  <2>3. l.id = requestIds[a]
    BY <1>6 DEF Stale
  <2>a. \A k \in keys : outcome[k] \in {"success", "error"}
    BY <2>1
  <2> DEFINE result == IF \E k \in keys : outcome[k] = "success" THEN "success" ELSE "error"
  <2>b. result \in {"success", "error"} /\ (result = "success" <=> \E k \in keys : outcome[k] = "success")
    OBVIOUS
  <2>c. accountQuota' = [accountQuota EXCEPT ![a].status = result, ![a].targets = l.targets]
    BY <2>1
  <2>k. keys = Keys(l.targets)
    OBVIOUS
  <2> HIDE DEF keys, a, result
  <2>4. /\ accountQuota'[a].status = result /\ accountQuota'[a].targets = l.targets
        /\ \A b \in Accounts : b # a => accountQuota'[b] = accountQuota[b]
    BY <1>2, <2>2, <2>c
  <2>5. /\ \A k \in keys : store'[k].status = outcome[k] /\ store'[k].by = <<a, l.id>>
        /\ \A k \in AllKeys : k \notin keys => store'[k] = store[k]
    BY <2>1, <2>2
  <2>6. QuotaTypes'
    <3>1. accountQuota' \in [Accounts -> [status : Status, targets : SUBSET AllTargets]]
      BY <1>2, <2>2, <2>b, <2>c DEF Status
    <3>2. DOMAIN store' = AllKeys
      BY <2>1
    <3>. QED  BY <1>1, <1>2, <3>1, <3>2 DEF QuotaTypes
  <2>7. ASSUME NEW b \in Accounts PROVE AccountAwaits(b)' /\ OwnNewest(b)' /\ Agrees(b)'
    <3>1. CASE b = a
      <4>1. AccountAwaits(b)'
        BY <2>4, <2>b, <3>1 DEF AccountAwaits
      <4>2. OwnNewest(b)'
        BY <1>1, <2>3, <2>4, <2>5, <2>k, <3>1 DEF OwnNewest
      <4>3. Agrees(b)'
        BY <2>4, <2>5, <2>b, <2>k, <3>1 DEF Agrees
      <4>. QED  BY <4>1, <4>2, <4>3
    <3>2. CASE b # a
      <4>0. AccountAwaits(b) /\ OwnNewest(b) /\ Agrees(b)
        BY DEF QuotaInv
      <4>1. accountQuota'[b] = accountQuota[b] /\ requestIds'[b] = requestIds[b]
        BY <1>1, <2>4, <3>2
      <4>2. AccountAwaits(b)'
        <5>1. \A o \in loads : o.account = b => o # l
          BY <3>2 DEF a
        <5>. QED  BY <1>1, <1>4, <4>0, <4>1, <5>1 DEF AccountAwaits
      <4>3. Keys(accountQuota[b].targets) \subseteq AllKeys
        BY <1>2, <1>3
      <4>4. \A k \in AllKeys : LoadedBy(b, k)' => store'[k] = store[k] /\ LoadedBy(b, k)
        BY <2>5, <3>2 DEF LoadedBy
      <4>5. OwnNewest(b)'
        BY <4>0, <4>1, <4>3, <4>4 DEF OwnNewest
      <4>6. Agrees(b)'
        BY <4>0, <4>1, <4>3, <4>4 DEF Agrees
      <4>. QED  BY <4>2, <4>5, <4>6
    <3>. QED  BY <3>1, <3>2
  <2>8. ASSUME NEW k \in AllKeys PROVE KeyAwaits(k)'
    <3>1. CASE k \in keys
      <4>1. store'[k].status # "loading"
        BY <2>5, <2>a, <3>1
      <4>. QED  BY <4>1 DEF KeyAwaits
    <3>2. CASE k \notin keys
      <4>1. SUFFICES ASSUME store'[k].status = "loading", k \notin orphans'
                     PROVE  \E o \in loads' : ~Stale(o)' /\ k \in Keys(o.targets)
        BY DEF KeyAwaits
      <4>2. store[k].status = "loading" /\ k \notin orphans
        BY <2>1, <2>5, <3>2, <4>1
      <4>3. PICK o \in loads : ~Stale(o) /\ k \in Keys(o.targets)
        BY <4>2 DEF QuotaInv, KeyAwaits
      <4>4. o # l
        BY <2>k, <3>2, <4>3
      <4>. QED  BY <1>1, <1>4, <4>3, <4>4
    <3>. QED  BY <3>1, <3>2
  <2>. QED  BY <2>6, <2>7, <2>8 DEF QuotaInv
<1>. QED  BY <1>5, <1>6

LEMMA StepQuota == QuotaInv /\ [PageNext]_pageVars => QuotaInv'
<1>. SUFFICES ASSUME QuotaInv, [PageNext]_pageVars PROVE QuotaInv'
  OBVIOUS
<1>1. ASSUME UNCHANGED <<accountQuota, requestIds, loads, store, orphans>> PROVE QuotaInv'
  <2>1. QuotaTypes'
    BY <1>1 DEF QuotaInv, QuotaTypes
  <2>2. \A a \in Accounts : AccountAwaits(a)' /\ OwnNewest(a)' /\ Agrees(a)'
    BY <1>1 DEF QuotaInv, AccountAwaits, OwnNewest, Agrees, LoadedBy, Stale
  <2>3. \A k \in AllKeys : KeyAwaits(k)'
    BY <1>1 DEF QuotaInv, KeyAwaits, Stale
  <2>. QED  BY <2>1, <2>2, <2>3 DEF QuotaInv
<1>2. ASSUME NEW a \in Accounts, ToggleAccount(a) \/ RefreshQuota(a) PROVE QuotaInv'
  <2>1. UNCHANGED <<accountQuota, requestIds, loads, store, orphans>> \/ LoadAccountQuota(a)
    BY <1>2 DEF ToggleAccount, RefreshQuota
  <2>. QED  BY <1>1, <2>1, StepLoad
<1>3. ASSUME NEW l \in loads, LoadSettles(l) PROVE QuotaInv'
  BY <1>3, StepSettles
<1>4. CASE Reload
  <2>1. /\ accountQuota' = [a \in Accounts |-> NoQuota] /\ requestIds' = [a \in Accounts |-> 0]
        /\ store' = [k \in AllKeys |-> NoEntry] /\ loads' = {}
    BY <1>4 DEF Reload, Mounted
  <2>. QED  BY <2>1, NoQuotaYet
<1>5. ASSUME NEW q \in asks, MetaAnswered(q) \/ MetaArrives(q) PROVE QuotaInv'
  BY <1>1, <1>5 DEF MetaAnswered, MetaArrives, quotaVars
<1>6. CASE ConfigChanges \/ RefreshAll \/ FilesChange \/ UNCHANGED pageVars
  BY <1>1, <1>6 DEF ConfigChanges, RefreshAll, FilesChange, pageVars, quotaVars
<1>7. CASE \/ PricesAnswered \/ PricesArrive \/ OthersPrice
           \/ \E m \in Models : SelectModel(m) \/ DeletePrice(m)
           \/ \E price \in Prices : SavePrice(price)
           \/ \E p \in puts : PutApplied(p) \/ PutLost(p)
  BY <1>1, <1>7 DEF PricesAnswered, PricesArrive, OthersPrice, SelectModel, DeletePrice, SavePrice,
                    PutApplied, PutLost, quotaVars
<1>. QED  BY <1>2, <1>3, <1>4, <1>5, <1>6, <1>7 DEF PageNext

\* Once no quota load is under way no account is left loading, no quota is but one whose
\* load was given up, and accounts and quotas agree on their newest load (loadAccountQuota).
THEOREM QuotaSettled == PageSpec => []QuotaSettles
<1>1. ASSUME QuotaInv PROVE QuotaSettles
  <2>. SUFFICES ASSUME loads = {} PROVE QuotaSettles
    BY DEF QuotaSettles
  <2>1. \A a \in Accounts : accountQuota[a].status # "loading"
    BY <1>1 DEF QuotaInv, AccountAwaits
  <2>2. \A k \in AllKeys : store[k].status = "loading" => k \in orphans
    BY <1>1 DEF QuotaInv, KeyAwaits
  <2>3. \A a \in Accounts : \A k \in Keys(accountQuota[a].targets) :
          LoadedBy(a, k) => store[k].by[2] = requestIds[a]
    BY <1>1 DEF QuotaInv, OwnNewest
  <2>4. ASSUME NEW a \in Accounts, Keys(accountQuota[a].targets) # {},
               \A k \in Keys(accountQuota[a].targets) : LoadedBy(a, k)
        PROVE  accountQuota[a].status = "success"
                 <=> \E k \in Keys(accountQuota[a].targets) : store[k].status = "success"
    BY <1>1, <2>1, <2>4 DEF QuotaInv, Agrees
  <2>. QED  BY <2>1, <2>2, <2>3, <2>4 DEF QuotaSettles, LoadedBy
<1>. QED  BY <1>1, InitQuota, StepQuota, PTL DEF PageSpec
=============================================================================
