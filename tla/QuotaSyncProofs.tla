---------------------------- MODULE QuotaSyncProofs ----------------------------
(***************************************************************************)
(* Proofs about QuotaSync for any finite set of quotas, any providers and  *)
(* any number of events: no quota the page shows is forgotten, and         *)
(* loadedThrough names what was loaded.                                    *)
(***************************************************************************)
EXTENDS QuotaSync, FiniteSetTheorems, SequenceTheorems, WellFoundedInduction, TLAPS

Flight  == [key : Keys, at : Nat \ {0}, done : BOOLEAN]
Preload == [pc : {"idle", "asked", "answered"}, rows : [Keys -> Int], at : Nat]
Fresh   == [pc : {"idle", "waiting", "asked", "answered", "preloading"}, at : Nat]
Touched    == {"loaded", "changed", "listed"}

TypeInv ==
  /\ clock \in Nat \ {0}
  /\ store \in [Keys -> Int] /\ server \in [Keys -> Int]
  /\ running \in BOOLEAN /\ unseen \in SUBSET Providers /\ synced \in [Keys -> Nat]
  /\ queue \in Seq(Keys) /\ (flight = NoFlight \/ flight \in Flight)
  /\ preload \in Preload /\ fresh \in Fresh /\ reload \in Nat /\ through \in Nat
  /\ erasing \in SUBSET Keys /\ unsaved \in SUBSET Keys /\ lost \in SUBSET Keys
  /\ touched \in [Keys -> Touched] /\ swallowed \in BOOLEAN
  /\ stamped \in SUBSET (Keys \X (Nat \ {0}))

(***************************************************************************)
(* What the page holds for saved, or has been told by the table, is in the *)
(* table, but for the rows that were erased or set back.                   *)
(***************************************************************************)
Held(k, time) == time > 0 => server[k] >= time \/ k \in lost

FlushInv == flight = NoFlight => queue = << >>

HeldInv ==
  /\ flight.done => Held(flight.key, flight.at)
  /\ \A k \in Keys : Held(k, synced[k]) /\ Held(k, preload.rows[k])

(***************************************************************************)
(* An entry the page has neither changed nor saved since, nor the backend  *)
(* written behind the load, is the row that the answer on its way lists,   *)
(* unless the row is gone or newer.                                        *)
(***************************************************************************)
TouchedInv ==
  \A k \in Keys :
    /\ flight.key = k \/ k \in Range(queue) => touched[k] = "changed"
    /\ touched[k] = "listed" => preload.pc = "answered"

AnswerInv ==
  preload.pc = "answered" /\ ~swallowed =>
    \A k \in Keys :
      touched[k] # "changed" =>
        server[k] = preload.rows[k] \/ server[k] <= 0 \/ server[k] > LoadedThrough

-----------------------------------------------------------------------------
(* Sequences and numbers.                                                  *)

LEMMA MaxIs ==
  ASSUME NEW S \in SUBSET Int, IsFiniteSet(S), S # {}
  PROVE  Max(S) \in S /\ \A x \in S : x <= Max(S)
<1> DEFINE Above(m) == {x \in S : x > m}
           T == {Above(m) : m \in S}
<1>1. T \subseteq FiniteSubsetsOf(S) /\ T # {}
  <2>1. \A m \in S : Above(m) \in FiniteSubsetsOf(S)
    BY FS_Subset DEF FiniteSubsetsOf
  <2>. QED  BY <2>1
<1>2. \E U \in T : \A V \in T : ~(<<V, U>> \in StrictSubsetOrdering(S))
  <2> HIDE DEF T
  <2>. QED  BY <1>1, FS_StrictSubsetOrderingWellFounded, WFMin
<1>3. PICK m \in S : \A V \in T : ~(<<V, Above(m)>> \in StrictSubsetOrdering(S))
  BY <1>2
<1>4. ASSUME NEW x \in S, x > m PROVE FALSE
  <2>1. Above(x) \in T /\ Above(x) \subseteq Above(m) /\ x \in Above(m) /\ x \notin Above(x)
    <3>1. \A y \in S : y > x => y > m
      BY <1>4
    <3>2. ~(x > x)
      OBVIOUS
    <3>. QED  BY <1>4, <3>1, <3>2
  <2>2. <<Above(x), Above(m)>> \in StrictSubsetOrdering(S)
    BY <2>1 DEF StrictSubsetOrdering
  <2>. QED  BY <1>3, <2>1, <2>2
<1>5. \A y \in S : m >= y
  BY <1>4
<1>6. Max(S) \in S /\ \A y \in S : Max(S) >= y
  BY <1>5 DEF Max
<1>. QED  BY <1>6

LEMMA LeastExists ==
  ASSUME NEW S \in SUBSET Nat, S # {}
  PROVE  \E m \in S : \A x \in S : m <= x
<1> DEFINE R == OpToRel(<, Nat)
<1>1. IsWellFoundedOn(R, Nat)
  BY NatLessThanWellFounded
<1>2. \A x, y \in Nat : x < y => <<x, y>> \in R
  BY DEF OpToRel
<1> HIDE DEF R
<1>3. PICK m \in S : \A x \in S : ~(<<x, m>> \in R)
  BY <1>1, WFMin
<1>4. ASSUME NEW x \in S PROVE m <= x
  <2>1. x \in Nat /\ m \in Nat
    OBVIOUS
  <2>2. ~(x < m)
    BY <1>2, <1>3, <2>1, Zenon
  <2>. QED  BY <2>1, <2>2
<1>. QED  BY <1>4

LEMMA SequenceIs ==
  ASSUME NEW s \in Seq(Keys)
  PROVE  /\ Len(s) \in Nat /\ DOMAIN s = 1..Len(s) /\ \A i \in 1..Len(s) : s[i] \in Keys
         /\ Range(s) \in SUBSET Keys
BY DEF Range

\* Whatever its order, the sequence holds all of the set.
LEMMA SetToSeqsIs ==
  ASSUME NEW S \in SUBSET Keys, NEW s \in SetToSeqs(S)
  PROVE  s \in Seq(Keys) /\ Range(s) = S
<1> DEFINE n == Cardinality(S)
<1>1. IsFiniteSet(S) /\ n \in Nat
  BY SyncAssumption, FS_Subset, FS_CardinalityType
<1>2. s \in [1..n -> S] /\ \A i, j \in 1..n : i # j => s[i] # s[j]
  BY DEF SetToSeqs
<1>3. s \in Injection(1..n, S)
  BY <1>2 DEF Injection, IsInjective
<1>4. Cardinality(1..n) = n
  <2>1. 1 \in Int /\ n \in Int
    BY <1>1
  <2> HIDE DEF n
  <2>2. Cardinality(1..n) = IF 1 > n THEN 0 ELSE n - 1 + 1
    BY <2>1, FS_Interval
  <2>. QED  BY <1>1, <2>2
<1>5. s \in Surjection(1..n, S)
  BY <1>1, <1>3, <1>4, FS_Injection
<1>6. Range(s) = S
  BY <1>2, <1>5 DEF Surjection, Range
<1>7. s \in Seq(Keys)
  <2>1. s \in [1..n -> Keys]
    BY <1>2
  <2> HIDE DEF n
  <2>. QED  BY <1>1, <2>1
<1>. QED  BY <1>6, <1>7

LEMMA ConcatIs ==
  ASSUME NEW s \in Seq(Keys), NEW t \in Seq(Keys)
  PROVE  s \o t \in Seq(Keys) /\ Range(s \o t) = Range(s) \cup Range(t)
<1>1. /\ s \o t \in Seq(Keys) /\ Len(s \o t) = Len(s) + Len(t)
      /\ \A i \in 1..Len(s) + Len(t) :
           (s \o t)[i] = IF i <= Len(s) THEN s[i] ELSE t[i - Len(s)]
  BY ConcatProperties
<1>2. /\ Len(s) \in Nat /\ Len(t) \in Nat
      /\ DOMAIN s = 1..Len(s) /\ DOMAIN t = 1..Len(t)
  BY SequenceIs
<1>3. DOMAIN (s \o t) = 1..(Len(s) + Len(t))
  BY <1>1, SequenceIs
<1> DEFINE u == s \o t
<1>4. \A i \in DOMAIN u : u[i] \in Range(s) \cup Range(t)
  <2>1. ASSUME NEW i \in 1..(Len(s) + Len(t)), i <= Len(s) PROVE u[i] \in Range(s)
    BY <1>1, <1>2, <2>1 DEF Range
  <2>2. ASSUME NEW i \in 1..(Len(s) + Len(t)), ~(i <= Len(s)) PROVE u[i] \in Range(t)
    <3>1. i - Len(s) \in DOMAIN t /\ u[i] = t[i - Len(s)]
      BY <1>1, <1>2, <2>2
    <3>. QED  BY <3>1 DEF Range
  <2>. QED  BY <1>3, <2>1, <2>2
<1>5. \A i \in DOMAIN s : s[i] \in Range(u)
  <2>1. ASSUME NEW i \in DOMAIN s PROVE i \in DOMAIN u /\ u[i] = s[i]
    BY <1>1, <1>2, <1>3
  <2> HIDE DEF u
  <2>. QED  BY <2>1 DEF Range
<1>6. \A i \in DOMAIN t : t[i] \in Range(u)
  <2>1. ASSUME NEW i \in DOMAIN t PROVE i + Len(s) \in DOMAIN u /\ u[i + Len(s)] = t[i]
    <3> DEFINE j == i + Len(s)
    <3>1. j \in 1..(Len(s) + Len(t)) /\ ~(j <= Len(s)) /\ j - Len(s) = i
      BY <1>2
    <3>2. u[j] = t[j - Len(s)]
      BY <1>1, <3>1
    <3>. QED  BY <1>3, <3>1, <3>2
  <2> HIDE DEF u
  <2>. QED  BY <2>1 DEF Range
<1> HIDE DEF u
<1>7. Range(u) = Range(s) \cup Range(t)
  BY <1>4, <1>5, <1>6 DEF Range
<1>. QED  BY <1>1, <1>7 DEF u

-----------------------------------------------------------------------------
(* The flush.                                                              *)

LEMMA NoFlightIs == NoFlight.at = 0 /\ NoFlight.done = FALSE /\ NoFlight.key \notin Keys
BY SyncAssumption DEF NoFlight

\* Flush forgets no success: it is sent, or stays in the queue behind one that is.
LEMMA FlushIs ==
  ASSUME NEW q \in Seq(Keys), NEW st \in [Keys -> Int]
  PROVE  LET next == Flush(q, st)
         IN  /\ next.queue \in Seq(Keys) /\ Range(next.queue) \subseteq Range(q)
             /\ \/ /\ next.flight = NoFlight /\ next.queue = << >>
                   /\ \A k \in Range(q) : st[k] <= 0
                \/ /\ next.flight \in Flight /\ next.flight.key \in Range(q)
                   /\ next.flight.at = st[next.flight.key] /\ ~next.flight.done
                   /\ \A k \in Range(q) : st[k] <= 0 \/ k \in Range(next.queue) \/ next.flight.key = k
<1> DEFINE ready == {i \in DOMAIN q : st[q[i]] > 0}
           i == Min(ready)
           rest == SubSeq(q, i + 1, Len(q))
           next == Flush(q, st)
<1>1. Len(q) \in Nat /\ DOMAIN q = 1..Len(q) /\ \A j \in 1..Len(q) : q[j] \in Keys
  BY SequenceIs
<1>2. CASE ready = {}
  <2>1. next = [queue |-> << >>, flight |-> NoFlight]
    BY <1>2 DEF Flush
  <2>2. next.queue = << >> /\ next.flight = NoFlight
    BY <2>1
  <2>3. << >> \in Seq(Keys) /\ Range(<< >>) = {}
    BY DEF Range
  <2>4. \A k \in Range(q) : st[k] <= 0
    <3>1. \A j \in DOMAIN q : ~(st[q[j]] > 0)
      BY <1>2
    <3>. QED  BY <1>1, <3>1 DEF Range
  <2> HIDE DEF next
  <2>. QED  BY <2>2, <2>3, <2>4 DEF next
<1>3. CASE ready # {}
  <2>1. i \in ready /\ \A j \in ready : i <= j
    <3>1. ready \in SUBSET Nat
      BY <1>1
    <3> HIDE DEF ready
    <3>2. \E m \in ready : \A x \in ready : m <= x
      BY <1>3, <3>1, LeastExists
    <3>. QED  BY <3>2 DEF Min
  <2>2. next = [queue |-> rest, flight |-> [key |-> q[i], at |-> st[q[i]], done |-> FALSE]]
    BY <1>3 DEF Flush
  <2>3. i \in 1..Len(q) /\ st[q[i]] > 0 /\ q[i] \in Range(q)
    BY <1>1, <2>1 DEF Range
  <2>4. \A j \in 1..Len(q) : st[q[j]] > 0 => i <= j
    BY <1>1, <2>1
  <2> HIDE DEF i
  <2>5. /\ rest \in Seq(Keys)
        /\ Len(rest) = IF i + 1 <= Len(q) THEN Len(q) - (i + 1) + 1 ELSE 0
        /\ \A j \in 1..(Len(q) - (i + 1) + 1) : rest[j] = q[(i + 1) + j - 1]
    <3>1. i + 1 \in Int /\ Len(q) \in Int /\ \A j \in (i + 1)..Len(q) : q[j] \in Keys
      BY <1>1, <2>3
    <3>. QED  BY <3>1, SubSeqProperties
  <2>6. DOMAIN rest = 1..Len(rest)
    BY <2>5, SequenceIs
  <2>7. \A j \in 1..Len(q) : j > i => q[j] \in Range(rest)
    <3>1. ASSUME NEW j \in 1..Len(q), j > i PROVE q[j] \in Range(rest)
      <4> DEFINE m == j - i
      <4>1. m \in 1..(Len(q) - (i + 1) + 1) /\ (i + 1) + m - 1 = j /\ i + 1 <= Len(q)
        BY <1>1, <2>3, <3>1
      <4>2. m \in DOMAIN rest /\ rest[m] = q[j]
        BY <1>1, <2>3, <2>5, <2>6, <4>1
      <4> HIDE DEF m, rest
      <4>. QED  BY <4>2 DEF Range
    <3>. QED  BY <3>1
  <2>8. Range(rest) \subseteq Range(q)
    <3>1. ASSUME NEW m \in DOMAIN rest PROVE rest[m] \in Range(q)
      <4> DEFINE j == (i + 1) + m - 1
      <4> HIDE DEF rest
      <4>3. m \in 1..Len(rest)
        BY <2>6
      <4>4. m \in 1..(Len(q) - (i + 1) + 1)
        <5>1. CASE i + 1 <= Len(q)
          BY <1>1, <2>3, <2>5, <4>3, <5>1
        <5>2. CASE ~(i + 1 <= Len(q))
          BY <1>1, <2>3, <2>5, <4>3, <5>2
        <5>. QED  BY <5>1, <5>2
      <4>1. j \in DOMAIN q /\ m \in 1..(Len(q) - (i + 1) + 1)
        BY <1>1, <2>3, <4>4
      <4>2. rest[m] = q[j]
        BY <2>5, <4>1
      <4> HIDE DEF j
      <4>. QED  BY <4>1, <4>2 DEF Range
    <3> HIDE DEF rest
    <3>. QED  BY <3>1 DEF Range
  <2>9. \A k \in Range(q) : st[k] <= 0 \/ k \in Range(rest) \/ q[i] = k
    <3>1. ASSUME NEW j \in 1..Len(q) PROVE st[q[j]] <= 0 \/ q[j] \in Range(rest) \/ q[i] = q[j]
      <4>1. CASE j > i
        BY <2>7, <4>1
      <4>2. CASE j = i
        BY <4>2
      <4>3. CASE j < i
        <5>1. ~(st[q[j]] > 0)
          BY <2>3, <2>4, <4>3
        <5>2. st[q[j]] \in Int
          BY <1>1
        <5>. QED  BY <5>1, <5>2
      <4>. QED  BY <2>3, <4>1, <4>2, <4>3
    <3>. QED  BY <1>1, <3>1 DEF Range
  <2> DEFINE flown == [key |-> q[i], at |-> st[q[i]], done |-> FALSE]
  <2>10. flown \in Flight
    BY <1>1, <2>3 DEF Flight
  <2>12. flown.key = q[i] /\ flown.at = st[q[i]] /\ flown.done = FALSE
    OBVIOUS
  <2>13. next = [queue |-> rest, flight |-> flown]
    BY <2>2
  <2> HIDE DEF flown, rest, next
  <2>11. next.queue = rest /\ next.flight = flown
    BY <2>13
  <2> HIDE DEF flown, rest, next
  <2>. QED  BY <2>3, <2>5, <2>8, <2>9, <2>10, <2>11, <2>12 DEF next
<1>. QED  BY <1>2, <1>3

\* What one run of the flush loop makes of the queue q when no request is under way.
Sends(q, st, rest, flown) ==
  \/ flown = NoFlight /\ rest = << >> /\ \A k \in Range(q) : st[k] <= 0
  \/ /\ flown \in Flight /\ flown.key \in Range(q)
     /\ flown.at = st[flown.key] /\ ~flown.done
     /\ \A k \in Range(q) : st[k] <= 0 \/ k \in Range(rest) \/ flown.key = k

\* What it leaves: the sequence q, and the request under way or a new one.
Leaves(q, st) ==
  /\ queue' \in Seq(Keys) /\ Range(queue') \subseteq Range(q)
  /\ flight' = NoFlight => queue' = << >>
  /\ \/ ~Idle /\ flight' = flight /\ queue' = q
     \/ Idle /\ Sends(q, st, queue', flight')

LEMMA FlushedIs ==
  ASSUME NEW q \in Seq(Keys), NEW st \in [Keys -> Int], Flushed(q, st)
  PROVE  Leaves(q, st)
<1>1. CASE Idle
  <2>1. queue' = Flush(q, st).queue /\ flight' = Flush(q, st).flight
    BY <1>1 DEF Flushed
  <2>2. /\ Flush(q, st).queue \in Seq(Keys) /\ Range(Flush(q, st).queue) \subseteq Range(q)
        /\ Sends(q, st, Flush(q, st).queue, Flush(q, st).flight)
    BY FlushIs DEF Sends
  <2>3. /\ queue' \in Seq(Keys) /\ Range(queue') \subseteq Range(q)
        /\ Sends(q, st, queue', flight')
    BY <2>1, <2>2
  <2>4. flight' \in Flight => flight' # NoFlight
    BY NoFlightIs DEF Flight
  <2>5. flight' = NoFlight => queue' = << >>
    BY <2>3, <2>4 DEF Sends
  <2>. QED  BY <1>1, <2>3, <2>5 DEF Leaves
<1>2. CASE ~Idle
  <2> DEFINE next == [queue |-> q, flight |-> flight]
  <2>1. queue' = next.queue /\ flight' = next.flight
    BY <1>2 DEF Flushed
  <2>2. queue' = q /\ flight' = flight
    BY <2>1
  <2>. QED  BY <1>2, <2>2 DEF Leaves, Idle
<1>. QED  BY <1>1, <1>2

LEMMA AfterFlightIs ==
  ASSUME TypeInv, AfterFlight
  PROVE  /\ queue' \in Seq(Keys) /\ Range(queue') \subseteq Range(queue)
         /\ flight' = NoFlight => queue' = << >>
         /\ Sends(queue, store, queue', flight')
<1>1. queue \in Seq(Keys) /\ store \in [Keys -> Int]
  BY DEF TypeInv
<1>2. queue' = Flush(queue, store).queue /\ flight' = Flush(queue, store).flight
  BY DEF AfterFlight
<1>3. /\ Flush(queue, store).queue \in Seq(Keys)
      /\ Range(Flush(queue, store).queue) \subseteq Range(queue)
      /\ Sends(queue, store, Flush(queue, store).queue, Flush(queue, store).flight)
  BY <1>1, FlushIs DEF Sends
<1>4. /\ queue' \in Seq(Keys) /\ Range(queue') \subseteq Range(queue)
      /\ Sends(queue, store, queue', flight')
  BY <1>2, <1>3
<1>5. flight' \in Flight => flight' # NoFlight
  BY NoFlightIs DEF Flight
<1>. QED  BY <1>4, <1>5 DEF Sends

-----------------------------------------------------------------------------
(* The subscriber.                                                         *)

\* Either it syncs, with the queue some sequence that begins with the old one
\* and holds every success to be synced, or it puts the providers aside.
LEMMA SubscriberIs ==
  ASSUME TypeInv, NEW ps, NEW st \in [Keys -> Int], Subscriber(ps, st)
  PROVE  \/ /\ \E q \in Seq(Keys) :
                 /\ Range(q) = Range(queue) \cup ToSync(unseen \cup ps, st)
                 /\ Leaves(q, st)
            /\ \A k \in Keys : synced'[k] = synced[k] \/ synced'[k] = 0
            /\ synced' \in [Keys -> Nat]
            /\ unsaved' = unsaved \ ToSync(unseen \cup ps, st)
            /\ unseen' = {}
         \/ unseen' = unseen \cup ps /\ UNCHANGED <<queue, flight, synced, unsaved>>
<1>1. CASE running /\ preload.pc = "idle"
  <2> DEFINE asked == ToSync(unseen \cup ps, st)
             new == asked \ Range(queue)
  <2>1. SyncProviders(unseen \cup ps, st) /\ unseen' = {}
    BY <1>1 DEF Subscriber
  <2>2. PICK s \in SetToSeqs(new) : Flushed(queue \o s, st)
    BY <2>1 DEF SyncProviders
  <2>3. asked \subseteq Keys
    BY DEF ToSync
  <2>4. s \in Seq(Keys) /\ Range(s) = new
    <3>1. new \in SUBSET Keys
      BY <2>3
    <3> HIDE DEF new
    <3>. QED  BY <2>2, <3>1, SetToSeqsIs
  <2>5. queue \in Seq(Keys)
    BY DEF TypeInv
  <2>6. queue \o s \in Seq(Keys) /\ Range(queue \o s) = Range(queue) \cup Range(s)
    BY <2>4, <2>5, ConcatIs
  <2>7. Range(queue \o s) = Range(queue) \cup asked
    BY <2>4, <2>6
  <2>8. Leaves(queue \o s, st)
    BY <2>2, <2>6, FlushedIs
  <2>9. \E q \in Seq(Keys) : Range(q) = Range(queue) \cup asked /\ Leaves(q, st)
    BY <2>6, <2>7, <2>8
  <2>10. /\ synced' = [k \in Keys |-> IF ProviderOf[k] \in unseen \cup ps /\ st[k] = 0
                                      THEN 0 ELSE synced[k]]
         /\ unsaved' = unsaved \ asked
    BY <2>1 DEF SyncProviders
  <2>11. synced \in [Keys -> Nat]
    BY DEF TypeInv
  <2>12. /\ \A k \in Keys : synced'[k] = synced[k] \/ synced'[k] = 0
         /\ synced' \in [Keys -> Nat]
    BY <2>10, <2>11
  <2> HIDE DEF asked
  <2>. QED  BY <2>1, <2>9, <2>10, <2>12 DEF asked
<1>2. CASE ~(running /\ preload.pc = "idle")
  BY <1>2 DEF Subscriber
<1>. QED  BY <1>1, <1>2

\* After either, every success is kept somewhere, whatever the providers compared.
LEMMA SubscriberKeeps ==
  ASSUME TypeInv, FlushInv, HeldInv, NothingForgotten,
         NEW ps, NEW st \in [Keys -> Int], Subscriber(ps, st),
         \A k \in Keys : ProviderOf[k] \in ps \/ st[k] = store[k],
         store' = st, UNCHANGED <<server, lost>>
  PROVE  NothingForgotten'
<1>1. /\ server \in [Keys -> Int] /\ synced \in [Keys -> Nat]
      /\ flight = NoFlight \/ flight \in Flight
  BY DEF TypeInv
<1> SUFFICES ASSUME NEW k \in Keys, st[k] > 0
             PROVE  \/ server[k] >= st[k]
                    \/ flight'.key = k /\ flight'.at = st[k]
                    \/ k \in Range(queue') /\ flight' # NoFlight
                    \/ ProviderOf[k] \in unseen'
                    \/ k \in unsaved' \cup lost
  BY DEF NothingForgotten, Idle
<1>2. st[k] \in Int
  OBVIOUS
<1>3. st[k] = store[k] =>
        \/ server[k] >= st[k]
        \/ flight.key = k /\ flight.at = st[k]
        \/ k \in Range(queue) /\ flight # NoFlight
        \/ ProviderOf[k] \in unseen
        \/ k \in unsaved \cup lost
  BY DEF NothingForgotten, Idle
<1>4. CASE unseen' = unseen \cup ps /\ UNCHANGED <<queue, flight, synced, unsaved>>
  BY <1>3, <1>4
<1>5. ASSUME NEW q \in Seq(Keys),
             Range(q) = Range(queue) \cup ToSync(unseen \cup ps, st), Leaves(q, st),
             unsaved' = unsaved \ ToSync(unseen \cup ps, st)
      PROVE  \/ server[k] >= st[k]
             \/ flight'.key = k /\ flight'.at = st[k]
             \/ k \in Range(queue') /\ flight' # NoFlight
             \/ k \in unsaved' \cup lost
  <2>1. flight' \in Flight => flight' # NoFlight
    BY NoFlightIs DEF Flight
  <2>2. k \in Range(q) => \/ flight'.key = k /\ flight'.at = st[k]
                          \/ k \in Range(queue') /\ flight' # NoFlight
    <3>1. CASE ~Idle /\ flight' = flight /\ queue' = q
      BY <3>1 DEF Idle
    <3>2. CASE Sends(q, st, queue', flight')
      <4>1. CASE \A x \in Range(q) : st[x] <= 0
        BY <1>2, <4>1
      <4>2. CASE /\ flight' \in Flight /\ flight'.at = st[flight'.key]
                 /\ \A x \in Range(q) : st[x] <= 0 \/ x \in Range(queue') \/ flight'.key = x
        BY <1>2, <2>1, <4>2
      <4>. QED  BY <3>2, <4>1, <4>2 DEF Sends
    <3>. QED  BY <1>5, <3>1, <3>2 DEF Leaves
  <2>3. CASE ProviderOf[k] \in unseen \cup ps /\ synced[k] # st[k]
    <3>1. k \in ToSync(unseen \cup ps, st)
      BY <2>3 DEF ToSync
    <3>. QED  BY <1>5, <2>2, <3>1
  <2>4. CASE synced[k] = st[k]
    BY <2>4 DEF HeldInv, Held
  <2>5. CASE ~(ProviderOf[k] \in unseen \cup ps)
    <3>1. k \notin ToSync(unseen \cup ps, st)
      BY <2>5 DEF ToSync
    <3>2. st[k] = store[k] /\ ProviderOf[k] \notin unseen
      BY <2>5
    <3>3. flight.key = k => flight' = flight
      <4>1. flight.key = k => ~Idle
        BY NoFlightIs DEF Idle
      <4>2. Idle \/ flight' = flight
        BY <1>5 DEF Leaves
      <4>. QED  BY <4>1, <4>2 DEF Idle
    <3>. QED  BY <1>3, <1>5, <2>2, <3>1, <3>2, <3>3
  <2>. QED  BY <2>3, <2>4, <2>5
<1>6. CASE \E q \in Seq(Keys) : /\ Range(q) = Range(queue) \cup ToSync(unseen \cup ps, st)
                               /\ Leaves(q, st)
                               /\ unsaved' = unsaved \ ToSync(unseen \cup ps, st)
  BY <1>5, <1>6
<1>. QED  BY <1>4, <1>6, SubscriberIs

-----------------------------------------------------------------------------
(* What a flush leaves is well formed.                                     *)

LEMMA LeavesTyped ==
  ASSUME TypeInv, NEW q \in Seq(Keys), NEW st \in [Keys -> Int], Leaves(q, st)
  PROVE  /\ queue' \in Seq(Keys) /\ (flight' = NoFlight \/ flight' \in Flight) /\ FlushInv'
         /\ flight' = flight \/ flight' = NoFlight
            \/ (flight' \in Flight /\ flight'.at = st[flight'.key] /\ ~flight'.done
                /\ flight'.key \in Range(q))
<1>1. flight = NoFlight \/ flight \in Flight
  BY DEF TypeInv
<1>. QED  BY <1>1 DEF Leaves, Sends, FlushInv

LEMMA SubscriberTyped ==
  ASSUME TypeInv, FlushInv, NEW ps \in SUBSET Providers, NEW st \in [Keys -> Int],
         Subscriber(ps, st)
  PROVE  /\ queue' \in Seq(Keys) /\ (flight' = NoFlight \/ flight' \in Flight) /\ FlushInv'
         /\ flight' = flight \/ flight' = NoFlight
            \/ (flight' \in Flight /\ flight'.at = st[flight'.key] /\ ~flight'.done)
         /\ synced' \in [Keys -> Nat] /\ \A k \in Keys : synced'[k] = synced[k] \/ synced'[k] = 0
         /\ unseen' \in SUBSET Providers /\ unsaved' \in SUBSET Keys
<1>1. /\ queue \in Seq(Keys) /\ (flight = NoFlight \/ flight \in Flight)
      /\ synced \in [Keys -> Nat] /\ unseen \in SUBSET Providers /\ unsaved \in SUBSET Keys
  BY DEF TypeInv
<1>2. CASE unseen' = unseen \cup ps /\ UNCHANGED <<queue, flight, synced, unsaved>>
  BY <1>1, <1>2 DEF FlushInv
<1>3. ASSUME NEW q \in Seq(Keys), Leaves(q, st)
      PROVE  /\ queue' \in Seq(Keys) /\ (flight' = NoFlight \/ flight' \in Flight) /\ FlushInv'
             /\ flight' = flight \/ flight' = NoFlight
                \/ (flight' \in Flight /\ flight'.at = st[flight'.key] /\ ~flight'.done)
  BY <1>3, LeavesTyped
<1>4. CASE /\ \E q \in Seq(Keys) : Leaves(q, st)
           /\ \A k \in Keys : synced'[k] = synced[k] \/ synced'[k] = 0
           /\ synced' \in [Keys -> Nat]
           /\ unsaved' = unsaved \ ToSync(unseen \cup ps, st)
           /\ unseen' = {}
  BY <1>1, <1>3, <1>4
<1>. QED  BY <1>2, <1>4, SubscriberIs

LEMMA SentTyped ==
  ASSUME TypeInv, AfterFlight
  PROVE  /\ queue' \in Seq(Keys) /\ (flight' = NoFlight \/ flight' \in Flight) /\ FlushInv'
         /\ flight' = NoFlight
            \/ (flight' \in Flight /\ flight'.at = store[flight'.key] /\ ~flight'.done
                /\ flight'.key \in Range(queue))
BY AfterFlightIs DEF Sends, FlushInv

-----------------------------------------------------------------------------
(* The times of a list of rows.                                            *)

LEMMA LatestIs ==
  ASSUME NEW rows \in [Keys -> Int]
  PROVE  /\ Latest(rows) \in Nat
         /\ \A k \in Keys : rows[k] <= Latest(rows)
         /\ \A c \in Nat \ {0} : (\A k \in Keys : rows[k] <= c) => Latest(rows) <= c
<1> DEFINE T == {RowTime(rows[k]) : k \in Keys}
           S == T \cup {0}
<1>1. \A k \in Keys : RowTime(rows[k]) \in Int /\ rows[k] <= RowTime(rows[k])
  BY DEF RowTime, Bad
<1>2. IsFiniteSet(T)
  <2> DEFINE f == [k \in Keys |-> RowTime(rows[k])]
  <2>1. f \in Surjection(Keys, T)
    BY DEF Surjection
  <2> HIDE DEF f
  <2>. QED  BY <2>1, SyncAssumption, FS_Surjection
<1>3. IsFiniteSet(S) /\ S \in SUBSET Int /\ S # {}
  <2>1. IsFiniteSet(S)
    <3> HIDE DEF T
    <3>. QED  BY <1>2, FS_AddElement
  <2>. QED  BY <1>1, <2>1
<1>4. Latest(rows) = Max(S)
  BY DEF Latest
<1> HIDE DEF S
<1>5. Latest(rows) \in S /\ \A x \in S : x <= Latest(rows)
  BY <1>3, <1>4, MaxIs
<1> USE DEF S
<1>6. Latest(rows) \in Int /\ Latest(rows) >= 0
  <2>1. Latest(rows) \in Int
    BY <1>3, <1>5
  <2>2. 0 <= Latest(rows)
    BY <1>5
  <2>. QED  BY <2>1, <2>2
<1>7. ASSUME NEW k \in Keys PROVE rows[k] <= Latest(rows)
  <2>1. RowTime(rows[k]) <= Latest(rows)
    BY <1>5
  <2>. QED  BY <1>1, <1>6, <2>1
<1>8. ASSUME NEW c \in Nat \ {0}, \A k \in Keys : rows[k] <= c PROVE Latest(rows) <= c
  <2>1. \A k \in Keys : RowTime(rows[k]) <= c
    BY <1>8 DEF RowTime, Bad
  <2>. QED  BY <1>5, <2>1
<1>. QED  BY <1>6, <1>7, <1>8

LEMMA MaxOf ==
  ASSUME NEW a \in Nat, NEW b \in Nat, NEW c \in Nat
  PROVE  /\ Max({a, b, c}) \in {a, b, c}
         /\ a <= Max({a, b, c}) /\ b <= Max({a, b, c}) /\ c <= Max({a, b, c})
<1> DEFINE S == {a, b, c}
<1>1. IsFiniteSet(S)
  <2>1. IsFiniteSet({a, b})
    <3>1. IsFiniteSet({a}) /\ {a, b} = {a} \cup {b}
      BY FS_Singleton
    <3>. QED  BY <3>1, FS_AddElement
  <2>2. S = {a, b} \cup {c}
    OBVIOUS
  <2>. QED  BY <2>1, <2>2, FS_AddElement
<1>2. S \in SUBSET Int /\ S # {}
  OBVIOUS
<1>3. Max(S) \in S /\ \A x \in S : x <= Max(S)
  <2> HIDE DEF S
  <2>. QED  BY <1>1, <1>2, MaxIs
<1>. QED  BY <1>3

LEMMA LaterOf ==
  ASSUME NEW a \in Nat, NEW b \in Nat
  PROVE  Max({a, b}) \in {a, b}
<1>1. {a, b} = {a, b, b}
  OBVIOUS
<1>. QED  BY <1>1, MaxOf

\* loadedThrough moves on, up to the rows of the answer.
LEMMA LoadedThroughIs ==
  ASSUME TypeInv
  PROVE  /\ LoadedThrough \in Nat /\ \A k \in Keys : preload.rows[k] <= LoadedThrough
         /\ ListedThrough \in Nat /\ through <= ListedThrough
         /\ preload.pc = "answered" => ListedThrough = LoadedThrough
<1>1. preload.rows \in [Keys -> Int] /\ preload.at \in Nat /\ through \in Nat
  BY DEF TypeInv, Preload
<1>2. Latest(preload.rows) \in Nat /\ \A k \in Keys : preload.rows[k] <= Latest(preload.rows)
  BY <1>1, LatestIs
<1> DEFINE latest == Latest(preload.rows)
<1>3. /\ LoadedThrough \in {through, latest, preload.at}
      /\ latest <= LoadedThrough /\ through <= LoadedThrough
  BY <1>1, <1>2, MaxOf DEF LoadedThrough
<1>4. LoadedThrough \in Nat
  BY <1>1, <1>2, <1>3
<1>5. ASSUME NEW k \in Keys PROVE preload.rows[k] <= LoadedThrough
  <2>1. preload.rows[k] \in Int /\ preload.rows[k] <= latest
    BY <1>1, <1>2
  <2>. QED  BY <1>2, <1>3, <1>4, <2>1
<1>6. CASE preload.pc = "answered"
  <2>1. {through} \cup {latest, preload.at} = {through, latest, preload.at}
    OBVIOUS
  <2>2. ListedThrough = LoadedThrough
    BY <1>6, <2>1 DEF ListedThrough, LoadedThrough
  <2>. QED  BY <1>3, <1>4, <1>5, <2>2
<1>7. CASE preload.pc # "answered"
  <2>1. {through} \cup {} = {through, through}
    OBVIOUS
  <2>2. ListedThrough = Max({through, through})
    BY <1>7, <2>1 DEF ListedThrough
  <2>3. ListedThrough = through
    BY <1>1, <2>2, LaterOf
  <2>. QED  BY <1>1, <1>4, <1>5, <1>7, <2>3
<1>. QED  BY <1>6, <1>7

-----------------------------------------------------------------------------
(* The type invariant, and the queue that is never left behind.            *)

LEMMA ConstantsTyped ==
  /\ NoRows \in [Keys -> Int] /\ NoRows \in [Keys -> Nat] /\ \A k \in Keys : NoRows[k] = 0
  /\ NoPreload \in Preload /\ NoPreload.pc = "idle" /\ NoPreload.at = 0
  /\ NoPreload.rows = NoRows
  /\ NotAsked \in Fresh /\ NotAsked.at = 0
  /\ \A k \in Keys : ProviderOf[k] \in Providers
BY DEF NoRows, NoPreload, Preload, NotAsked, Fresh, Providers

LEMMA PreloadingIs ==
  ASSUME NEW at \in Nat
  PROVE  /\ Preloading(at) \in Preload /\ Preloading(at).pc = "asked"
         /\ Preloading(at).at = at /\ Preloading(at).rows = NoRows
BY ConstantsTyped DEF Preloading, Preload

\* A change of the store: what the subscriber does, and what is marked as changed.
LEMMA ChangeTyped ==
  ASSUME TypeInv, FlushInv, NEW ks \in SUBSET Keys, NEW st \in [Keys -> Int], Change(ks, st)
  PROVE  /\ queue' \in Seq(Keys) /\ (flight' = NoFlight \/ flight' \in Flight) /\ FlushInv'
         /\ flight' = flight \/ flight' = NoFlight
            \/ (flight' \in Flight /\ flight'.at = st[flight'.key] /\ ~flight'.done)
         /\ synced' \in [Keys -> Nat] /\ \A k \in Keys : synced'[k] = synced[k] \/ synced'[k] = 0
         /\ unseen' \in SUBSET Providers /\ unsaved' \in SUBSET Keys
         /\ touched' \in [Keys -> Touched]
<1> DEFINE ps == {ProviderOf[k] : k \in ks}
<1>1. ps \in SUBSET Providers
  BY DEF Providers
<1>2. Subscriber(ps, st)
  BY DEF Change
<1>3. touched \in [Keys -> Touched]
  BY DEF TypeInv
<1>4. touched' \in [Keys -> Touched]
  BY <1>3 DEF Change, Touched
<1> HIDE DEF ps
<1>. QED  BY <1>1, <1>2, <1>4, SubscriberTyped

LEMMA ChangeTypes ==
  ASSUME TypeInv, FlushInv, NEW ks \in SUBSET Keys, NEW st \in [Keys -> Int], Change(ks, st),
         clock' \in Nat \ {0}
  PROVE  TypeInv' /\ FlushInv'
<1>1. store' = st /\ UNCHANGED <<running, loads, table, lost, swallowed>>
  BY DEF Change
<1>2. /\ queue' \in Seq(Keys) /\ (flight' = NoFlight \/ flight' \in Flight) /\ FlushInv'
      /\ synced' \in [Keys -> Nat] /\ unseen' \in SUBSET Providers /\ unsaved' \in SUBSET Keys
      /\ touched' \in [Keys -> Touched]
  BY ChangeTyped
<1>. QED  BY <1>1, <1>2 DEF TypeInv, loads, table

LEMMA TypeInit == Init => TypeInv /\ FlushInv
<1> SUFFICES ASSUME Init PROVE TypeInv /\ FlushInv
  OBVIOUS
<1>1. server \in [Keys -> Int]
  BY DEF Init, Bad
<1>2. << >> \in Seq(Keys)
  OBVIOUS
<1>3. store \in [Keys -> Int] /\ synced \in [Keys -> Nat] /\ preload \in Preload /\ fresh \in Fresh
  BY ConstantsTyped DEF Init
<1>4. touched \in [Keys -> Touched]
  BY DEF Init, Touched
<1>5. /\ clock \in Nat \ {0} /\ running \in BOOLEAN /\ unseen \in SUBSET Providers
      /\ queue = << >> /\ flight = NoFlight /\ reload \in Nat /\ through \in Nat
      /\ erasing \in SUBSET Keys /\ unsaved \in SUBSET Keys /\ lost \in SUBSET Keys
      /\ swallowed \in BOOLEAN /\ stamped = {}
  <2>1. /\ clock = 1 /\ reload = 0 /\ through = 0
        /\ unseen = Providers /\ erasing = {} /\ unsaved = {} /\ lost = {}
    BY DEF Init
  <2>2. queue = << >> /\ flight = NoFlight
    BY DEF Init
  <2>3. running \in BOOLEAN /\ swallowed \in BOOLEAN /\ stamped = {}
    BY DEF Init
  <2>. QED  BY <2>1, <2>2, <2>3
<1>. QED  BY <1>1, <1>2, <1>3, <1>4, <1>5 DEF TypeInv, FlushInv

LEMMA TypeStep == TypeInv /\ FlushInv /\ [Next]_vars => TypeInv' /\ FlushInv'
<1> SUFFICES ASSUME TypeInv, FlushInv, [Next]_vars PROVE TypeInv' /\ FlushInv'
  OBVIOUS
<1>1. ASSUME NEW k \in Keys, StartFetch(k) PROVE TypeInv' /\ FlushInv'
  <2> DEFINE st == [store EXCEPT ![k] = Busy]
  <2>1. st \in [Keys -> Int] /\ Change({k}, st) /\ clock' \in Nat \ {0}
    BY <1>1 DEF StartFetch, TypeInv, Busy
  <2> HIDE DEF st
  <2>. QED  BY <2>1, ChangeTypes
<1>2. ASSUME NEW k \in Keys, FetchSucceeds(k) PROVE TypeInv' /\ FlushInv'
  <2> DEFINE st == [store EXCEPT ![k] = clock + 1]
  <2>1. st \in [Keys -> Int] /\ Change({k}, st) /\ clock' \in Nat \ {0}
    BY <1>2 DEF FetchSucceeds, TypeInv
  <2> HIDE DEF st
  <2>. QED  BY <2>1, ChangeTypes
<1>3. CASE ClearStore
  BY <1>3, ChangeTypes, ConstantsTyped DEF ClearStore, TypeInv
<1>4. ASSUME NEW k \in Keys, BackendStamps(k) PROVE TypeInv' /\ FlushInv'
  <2>1. clock' \in Nat \ {0} /\ stamped' \in SUBSET (Keys \X (Nat \ {0}))
    BY <1>4 DEF BackendStamps, TypeInv
  <2>. QED  BY <1>4, <2>1 DEF BackendStamps, TypeInv, FlushInv, loads, ghosts
<1>5. CASE ServerSets
  <2>1. flight \in Flight
    BY <1>5 DEF ServerSets, Idle, TypeInv
  <2>2. flight.key \in Keys /\ flight.at \in Nat \ {0}
    BY <2>1 DEF Flight
  <2>3. flight' \in Flight
    BY <1>5, <2>1 DEF ServerSets, Flight
  <2>4. flight' # NoFlight
    BY <2>3, NoFlightIs DEF Flight
  <2>5. server' \in [Keys -> Int] /\ lost' \in SUBSET Keys
    BY <1>5, <2>2 DEF ServerSets, TypeInv
  <2>. QED  BY <1>5, <2>3, <2>4, <2>5 DEF ServerSets, TypeInv, FlushInv, loads
<1>6. CASE SetSucceeded
  <2>1. flight \in Flight
    BY <1>6 DEF SetSucceeded, Idle, TypeInv
  <2>2. synced' \in [Keys -> Nat]
    BY <1>6, <2>1 DEF SetSucceeded, TypeInv, Flight
  <2>3. /\ queue' \in Seq(Keys) /\ (flight' = NoFlight \/ flight' \in Flight) /\ FlushInv'
    BY <1>6, SentTyped DEF SetSucceeded
  <2>. QED  BY <1>6, <2>2, <2>3 DEF SetSucceeded, TypeInv, loads, table, ghosts
<1>7. CASE SetFailed
  <2>1. flight \in Flight
    BY <1>7 DEF SetFailed, Idle, TypeInv
  <2>2. unsaved' \in SUBSET Keys
    BY <1>7, <2>1 DEF SetFailed, TypeInv, Flight
  <2>3. /\ queue' \in Seq(Keys) /\ (flight' = NoFlight \/ flight' \in Flight) /\ FlushInv'
    BY <1>7, SentTyped DEF SetFailed
  <2>. QED  BY <1>7, <2>2, <2>3 DEF SetFailed, TypeInv, loads, table, ghosts
<1>8. CASE ServerLists
  <2>1. preload \in Preload /\ server \in [Keys -> Int] /\ touched \in [Keys -> Touched]
    BY DEF TypeInv
  <2>2. preload' \in Preload
    BY <1>8, <2>1 DEF ServerLists, Preload
  <2>3. touched' \in [Keys -> Touched]
    BY <1>8, <2>1 DEF ServerLists, Touched
  <2>4. swallowed' \in BOOLEAN
    BY <1>8 DEF ServerLists, TypeInv
  <2>. QED  BY <1>8, <2>2, <2>3, <2>4 DEF ServerLists, TypeInv, FlushInv, table
<1>9. CASE PreloadDone
  <2>1. preload \in Preload /\ fresh \in Fresh /\ touched \in [Keys -> Touched]
        /\ store \in [Keys -> Int] /\ synced \in [Keys -> Nat]
    BY DEF TypeInv
  <2>2. preload.rows \in [Keys -> Int] /\ preload.at \in Nat
    BY <2>1 DEF Preload
  <2>3. store' \in [Keys -> Int]
    BY <1>9, <2>1, <2>2 DEF PreloadDone
  <2>4. synced' \in [Keys -> Nat]
    BY <1>9, <2>1, <2>2 DEF PreloadDone, Loaded
  <2>5. unseen' \in SUBSET Providers
    BY <1>9 DEF PreloadDone, TypeInv, Providers, Loaded
  <2>6. erasing' \in SUBSET Keys
    BY <1>9 DEF PreloadDone, TypeInv
  <2>7. through' \in Nat
    <3>1. Latest(preload.rows) \in Nat /\ through \in Nat
      BY <2>2, LatestIs DEF TypeInv
    <3>2. LoadedThrough \in {through, Latest(preload.rows), preload.at}
      BY <2>2, <3>1, MaxOf DEF LoadedThrough
    <3>. QED  BY <1>9, <2>2, <3>1, <3>2 DEF PreloadDone
  <2>8. fresh' \in Fresh
    BY <1>9, <2>1, ConstantsTyped DEF PreloadDone, Fresh
  <2>9. touched' \in [Keys -> Touched]
    BY <1>9, <2>1 DEF PreloadDone, Touched
  <2>10. preload' \in Preload
    BY <1>9, ConstantsTyped DEF PreloadDone
  <2>11. UNCHANGED <<clock, running, queue, flight, reload, server, stamped, unsaved, lost, swallowed>>
    BY <1>9 DEF PreloadDone
  <2>. QED  BY <2>3, <2>4, <2>5, <2>6, <2>7, <2>8, <2>9, <2>10, <2>11 DEF TypeInv, FlushInv
<1>10. ASSUME NEW k \in Keys, ServerErases(k) PROVE TypeInv' /\ FlushInv'
  <2>1. server' \in [Keys -> Int] /\ lost' \in SUBSET Keys /\ erasing' \in SUBSET Keys
    BY <1>10 DEF ServerErases, TypeInv
  <2>. QED  BY <1>10, <2>1 DEF ServerErases, TypeInv, FlushInv, loads
<1>11. CASE EnsureFresh
  <2>1. fresh' \in Fresh
    BY <1>11 DEF EnsureFresh, NotAsked, Fresh
  <2>. QED  BY <1>11, <2>1 DEF EnsureFresh, TypeInv, FlushInv, table, ghosts
<1>12. CASE ServerStats
  <2>1. server \in [Keys -> Int]
    BY DEF TypeInv
  <2>2. Latest(server) \in Nat
    BY <2>1, LatestIs
  <2>3. fresh' \in Fresh
    BY <1>12, <2>2 DEF ServerStats, Fresh
  <2>. QED  BY <1>12, <2>3 DEF ServerStats, TypeInv, FlushInv, table, ghosts
<1>13. CASE DecideFresh
  <2>1. fresh \in Fresh /\ reload \in Nat /\ preload \in Preload
    BY DEF TypeInv
  <2>2. Target \in Nat
    <3>1. fresh.at \in Nat
      BY <2>1 DEF Fresh
    <3>. QED  BY <2>1, <3>1, LaterOf DEF Target
  <2>3. fresh' \in Fresh
    BY <1>13, ConstantsTyped DEF DecideFresh, Fresh, NotAsked
  <2>4. preload' \in Preload
    BY <1>13, <2>1, <2>2, PreloadingIs DEF DecideFresh
  <2>. QED  BY <1>13, <2>3, <2>4 DEF DecideFresh, TypeInv, FlushInv, table, ghosts
<1>14. CASE MarkStale
  <2>1. reload \in Nat /\ clock \in Nat
    BY DEF TypeInv
  <2>2. reload' \in Nat
    BY <1>14, <2>1, LaterOf DEF MarkStale
  <2>. QED  BY <1>14, <2>2 DEF MarkStale, TypeInv, FlushInv, table, ghosts
<1>15. CASE Start
  <2>1. preload' \in Preload
    <3>1. clock \in Nat /\ preload \in Preload
      BY DEF TypeInv
    <3>. QED  BY <1>15, <3>1, PreloadingIs DEF Start
  <2>. QED  BY <1>15, <2>1 DEF Start, TypeInv, FlushInv, table, ghosts
<1>16. CASE Stop
  <2>1. queue \in Seq(Keys) /\ store \in [Keys -> Int]
    BY DEF TypeInv
  <2>2. Leaves(queue, store)
    BY <1>16, <2>1, FlushedIs DEF Stop
  <2>3. /\ queue' \in Seq(Keys) /\ (flight' = NoFlight \/ flight' \in Flight) /\ FlushInv'
    BY <2>1, <2>2, LeavesTyped
  <2>. QED  BY <1>16, <2>3, ConstantsTyped DEF Stop, TypeInv, loads, table, ghosts
<1>17. CASE Reload
  <2>1. << >> \in Seq(Keys)
    OBVIOUS
  <2>. QED  BY <1>17, <2>1, ConstantsTyped DEF Reload, TypeInv, FlushInv, Touched, table
<1>18. ASSUME NEW save \in stamped, BackendWrites(save[1], save[2]) PROVE TypeInv' /\ FlushInv'
  <2>1. save[1] \in Keys /\ save[2] \in Int
    BY DEF TypeInv
  <2>2. server' \in [Keys -> Int] /\ lost' \in SUBSET Keys
    BY <1>18, <2>1 DEF BackendWrites, TypeInv
  <2>3. touched' \in [Keys -> Touched]
    BY <1>18, <2>1 DEF BackendWrites, TypeInv, Touched
  <2>4. stamped' \in SUBSET (Keys \X (Nat \ {0}))
    BY <1>18 DEF BackendWrites, TypeInv
  <2>. QED  BY <1>18, <2>2, <2>3, <2>4 DEF BackendWrites, TypeInv, FlushInv, loads
<1>19. CASE UNCHANGED vars
  BY <1>19 DEF vars, TypeInv, FlushInv, loads, table, ghosts
<1>. QED  BY <1>1, <1>2, <1>3, <1>4, <1>5, <1>6, <1>7, <1>8, <1>9, <1>10, <1>11, <1>12,
             <1>13, <1>14, <1>15, <1>16, <1>17, <1>18, <1>19 DEF Next, Event, Step

-----------------------------------------------------------------------------
(* What is held for saved.                                                 *)

\* A save of the backend leaves no row older, unless the row counts as lost.
LEMMA WriteKeeps ==
  ASSUME TypeInv, NEW save \in stamped, BackendWrites(save[1], save[2])
  PROVE  /\ server' \in [Keys -> Int] /\ lost \subseteq lost'
         /\ \A x \in Keys : server[x] <= server'[x] \/ x \in lost'
<1>1. save[1] \in Keys /\ save[2] \in Int /\ server \in [Keys -> Int]
  BY DEF TypeInv
<1>2. CASE UNCHANGED <<server, lost>>
  BY <1>1, <1>2
<1>3. CASE /\ server' = [server EXCEPT ![save[1]] = save[2]]
           /\ lost' = IF save[2] < server[save[1]] THEN lost \cup {save[1]} ELSE lost
  <2> SUFFICES ASSUME NEW x \in Keys
               PROVE  server' \in [Keys -> Int] /\ lost \subseteq lost'
                      /\ (server[x] <= server'[x] \/ x \in lost')
    BY <1>1, <1>3
  <2>. QED  BY <1>1, <1>3
<1>. QED  BY <1>2, <1>3 DEF BackendWrites

LEMMA HeldInit == Init => HeldInv
BY NoFlightIs, ConstantsTyped DEF Init, HeldInv, Held

LEMMA ChangeHeld ==
  ASSUME TypeInv, FlushInv, HeldInv, NEW ks \in SUBSET Keys, NEW st \in [Keys -> Int],
         Change(ks, st)
  PROVE  HeldInv'
<1>1. UNCHANGED <<server, lost, preload>>
  BY DEF Change, loads, table
<1>2. ASSUME flight'.done PROVE Held(flight.key, flight.at)'
  <2>1. flight' = flight
    BY <1>2, ChangeTyped, NoFlightIs
  <2>. QED  BY <1>1, <1>2, <2>1 DEF HeldInv, Held
<1>3. ASSUME NEW k \in Keys PROVE Held(k, synced[k])'
  <2>1. synced'[k] = synced[k] \/ synced'[k] = 0
    BY ChangeTyped
  <2>. QED  BY <1>1, <2>1 DEF HeldInv, Held
<1>4. \A k \in Keys : Held(k, preload.rows[k])'
  BY <1>1 DEF HeldInv, Held
<1>. QED  BY <1>2, <1>3, <1>4 DEF HeldInv, Held

LEMMA HeldStep == TypeInv /\ FlushInv /\ HeldInv /\ [Next]_vars => HeldInv'
<1> SUFFICES ASSUME TypeInv, FlushInv, HeldInv, [Next]_vars PROVE HeldInv'
  OBVIOUS
<1>0. clock \in Nat \ {0} /\ store \in [Keys -> Int] /\ server \in [Keys -> Int]
      /\ synced \in [Keys -> Nat] /\ preload.rows \in [Keys -> Int]
  BY DEF TypeInv, Preload
<1>00. /\ \A k \in Keys : Held(k, synced[k])
       /\ flight.done => Held(flight.key, flight.at)
       /\ \A k \in Keys : Held(k, preload.rows[k])
  BY DEF HeldInv
<1>1. ASSUME NEW k \in Keys, StartFetch(k) PROVE HeldInv'
  <2> DEFINE st == [store EXCEPT ![k] = Busy]
  <2>1. st \in [Keys -> Int] /\ Change({k}, st)
    BY <1>0, <1>1 DEF StartFetch, Busy
  <2> HIDE DEF st
  <2>. QED  BY <2>1, ChangeHeld
<1>2. ASSUME NEW k \in Keys, FetchSucceeds(k) PROVE HeldInv'
  <2> DEFINE st == [store EXCEPT ![k] = clock + 1]
  <2>1. st \in [Keys -> Int] /\ Change({k}, st)
    BY <1>0, <1>2 DEF FetchSucceeds
  <2> HIDE DEF st
  <2>. QED  BY <2>1, ChangeHeld
<1>3. CASE ClearStore
  BY <1>3, ChangeHeld, ConstantsTyped DEF ClearStore
<1>4. ASSUME NEW k \in Keys, BackendStamps(k) PROVE HeldInv'
  BY <1>4 DEF BackendStamps, HeldInv, Held, loads, ghosts
<1>5. CASE ServerSets
  <2>1. flight \in Flight
    BY <1>5 DEF ServerSets, Idle, TypeInv
  <2>2. flight.key \in Keys /\ flight.at \in Nat
    BY <2>1 DEF Flight
  <2>3. flight'.key = flight.key /\ flight'.at = flight.at
    BY <1>5, <2>1 DEF ServerSets, Flight
  <2>4. server' = [server EXCEPT ![flight.key] = flight.at] /\ UNCHANGED <<synced, preload>>
        /\ lost' = IF flight.at < server[flight.key] THEN lost \cup {flight.key} ELSE lost
    BY <1>5 DEF ServerSets, loads
  <2>5. ASSUME NEW x \in Keys, NEW t \in Int, Held(x, t) PROVE Held(x, t)'
    <3>1. CASE x = flight.key
      <4>1. server'[x] = flight.at
        BY <1>0, <2>2, <2>4, <3>1
      <4>2. CASE flight.at < server[x]
        <5>1. x \in lost'
          BY <2>4, <3>1, <4>2
        <5>. QED  BY <5>1 DEF Held
      <4>3. CASE ~(flight.at < server[x])
        BY <1>0, <2>2, <2>4, <2>5, <4>1, <4>3 DEF Held
      <4>. QED  BY <4>2, <4>3
    <3>2. CASE x # flight.key
      <4>1. server'[x] = server[x] /\ (x \in lost => x \in lost')
        BY <1>0, <2>2, <2>4, <3>2
      <4>. QED  BY <2>5, <4>1 DEF Held
    <3>. QED  BY <3>1, <3>2
  <2>6. Held(flight.key, flight.at)'
    <3>1. server'[flight.key] = flight.at
      BY <1>0, <2>2, <2>4
    <3>. QED  BY <2>2, <2>3, <3>1 DEF Held
  <2>7. \A x \in Keys : Held(x, synced[x])'
    BY <1>0, <1>00, <2>4, <2>5
  <2>8. \A x \in Keys : Held(x, preload.rows[x])'
    BY <1>0, <1>00, <2>4, <2>5
  <2>. QED  BY <2>3, <2>4, <2>6, <2>7, <2>8 DEF HeldInv, Held
<1>6. CASE SetSucceeded
  <2>1. flight \in Flight /\ flight.done
    BY <1>6 DEF SetSucceeded, Idle, TypeInv
  <2>2. ~flight'.done
    BY <1>6, SentTyped, NoFlightIs DEF SetSucceeded
  <2>3. synced' = [synced EXCEPT ![flight.key] = flight.at]
        /\ UNCHANGED <<server, lost, preload>>
    BY <1>6 DEF SetSucceeded, loads, table, ghosts
  <2>4. ASSUME NEW x \in Keys PROVE Held(x, synced[x])'
    <3>1. CASE x = flight.key
      <4>1. synced'[x] = flight.at
        BY <1>0, <2>3, <3>1
      <4>. QED  BY <1>00, <2>1, <2>3, <3>1, <4>1 DEF Held
    <3>2. CASE x # flight.key
      <4>1. synced'[x] = synced[x]
        BY <1>0, <2>3, <3>2
      <4>. QED  BY <1>00, <2>3, <4>1 DEF Held
    <3>. QED  BY <3>1, <3>2
  <2>. QED  BY <1>00, <2>2, <2>3, <2>4 DEF HeldInv, Held
<1>7. CASE SetFailed
  <2>1. ~flight'.done
    BY <1>7, SentTyped, NoFlightIs DEF SetFailed
  <2>2. UNCHANGED <<server, lost, preload, synced>>
    BY <1>7 DEF SetFailed, loads, table, ghosts
  <2>. QED  BY <1>00, <2>1, <2>2 DEF HeldInv, Held
<1>8. CASE ServerLists
  <2>1. preload \in Preload
    BY DEF TypeInv
  <2>2. UNCHANGED <<server, lost, synced, flight>>
    BY <1>8 DEF ServerLists, table
  <2>3. preload'.rows = preload.rows \/ preload'.rows = server
    BY <1>8, <2>1 DEF ServerLists, Preload
  <2>4. \A x \in Keys : Held(x, preload.rows[x])'
    <3>1. CASE preload'.rows = server
      BY <1>0, <2>2, <3>1 DEF Held
    <3>2. CASE preload'.rows = preload.rows
      BY <1>00, <2>2, <3>2 DEF Held
    <3>. QED  BY <2>3, <3>1, <3>2
  <2>. QED  BY <1>00, <2>2, <2>4 DEF HeldInv, Held
<1>9. CASE PreloadDone
  <2>1. /\ synced' = [k \in Keys |-> IF k \in Loaded THEN preload.rows[k] ELSE synced[k]]
        /\ preload' = NoPreload /\ UNCHANGED <<server, lost, flight>>
    BY <1>9 DEF PreloadDone
  <2>2. \A x \in Keys : Held(x, synced[x])'
    BY <1>00, <2>1 DEF Held
  <2>3. \A x \in Keys : Held(x, preload.rows[x])'
    BY <2>1, ConstantsTyped DEF Held
  <2>. QED  BY <1>00, <2>1, <2>2, <2>3 DEF HeldInv, Held
<1>10. ASSUME NEW k \in Keys, ServerErases(k) PROVE HeldInv'
  <2>1. UNCHANGED <<synced, preload, flight>>
    BY <1>10 DEF ServerErases, loads
  <2>2. ASSUME NEW x, NEW t, x \in Keys, Held(x, t) PROVE Held(x, t)'
    BY <1>0, <1>10, <2>2 DEF ServerErases, Held
  <2>3. flight.done => flight.key \in Keys
    BY NoFlightIs DEF TypeInv, Flight
  <2>. QED  BY <1>00, <2>1, <2>2, <2>3 DEF HeldInv, Held
<1>11. CASE EnsureFresh
  BY <1>11 DEF EnsureFresh, HeldInv, Held, table, ghosts
<1>12. CASE ServerStats
  BY <1>12 DEF ServerStats, HeldInv, Held, table, ghosts
<1>13. CASE DecideFresh
  <2>1. \A k \in Keys : preload'.rows[k] = preload.rows[k] \/ preload'.rows[k] = 0
    <3>1. preload' = preload \/ preload' = Preloading(Target)
      BY <1>13 DEF DecideFresh
    <3>. QED  BY <3>1, ConstantsTyped DEF Preloading
  <2>2. UNCHANGED <<server, lost, flight, synced>>
    BY <1>13 DEF DecideFresh, table, ghosts
  <2>. QED  BY <1>00, <2>1, <2>2 DEF HeldInv, Held
<1>14. CASE MarkStale
  BY <1>14 DEF MarkStale, HeldInv, Held, table, ghosts
<1>15. CASE Start
  <2>1. \A k \in Keys : preload'.rows[k] = preload.rows[k] \/ preload'.rows[k] = 0
    <3>1. preload' = preload \/ preload' = Preloading(clock)
      BY <1>15 DEF Start
    <3>. QED  BY <3>1, ConstantsTyped DEF Preloading
  <2>2. UNCHANGED <<server, lost, flight, synced>>
    BY <1>15 DEF Start, table, ghosts
  <2>. QED  BY <1>00, <2>1, <2>2 DEF HeldInv, Held
<1>16. CASE Stop
  <2>1. queue \in Seq(Keys)
    BY DEF TypeInv
  <2>2. Leaves(queue, store)
    BY <1>0, <1>16, <2>1, FlushedIs DEF Stop
  <2>3. flight' = flight \/ ~flight'.done
    BY <1>0, <2>1, <2>2, LeavesTyped, NoFlightIs
  <2>4. UNCHANGED <<server, lost, preload>> /\ synced' = NoRows
    BY <1>16 DEF Stop, loads, table, ghosts
  <2>5. flight'.done => Held(flight.key, flight.at)'
    BY <1>00, <2>3, <2>4 DEF Held
  <2>6. \A x \in Keys : Held(x, synced[x])'
    BY <2>4, ConstantsTyped DEF Held
  <2>7. \A x \in Keys : Held(x, preload.rows[x])'
    BY <1>00, <2>4 DEF Held
  <2>. QED  BY <2>5, <2>6, <2>7 DEF HeldInv
<1>17. CASE Reload
  BY <1>17, ConstantsTyped, NoFlightIs DEF Reload, HeldInv, Held
<1>18. ASSUME NEW save \in stamped, BackendWrites(save[1], save[2]) PROVE HeldInv'
  <2>1. UNCHANGED <<synced, flight, preload>>
    BY <1>18 DEF BackendWrites, loads
  <2>2. ASSUME NEW x \in Keys, NEW t \in Int, Held(x, t) PROVE Held(x, t)'
    <3>1. server'[x] \in Int /\ (server[x] <= server'[x] \/ x \in lost') /\ lost \subseteq lost'
      BY <1>18, WriteKeeps
    <3>. QED  BY <1>0, <2>2, <3>1 DEF Held
  <2>3. flight.done => flight.key \in Keys /\ flight.at \in Int
    BY NoFlightIs DEF TypeInv, Flight
  <2>4. flight'.done => Held(flight.key, flight.at)'
    BY <1>00, <2>1, <2>2, <2>3
  <2>5. \A x \in Keys : Held(x, synced[x])'
    BY <1>0, <1>00, <2>1, <2>2
  <2>6. \A x \in Keys : Held(x, preload.rows[x])'
    BY <1>0, <1>00, <2>1, <2>2
  <2>. QED  BY <2>1, <2>4, <2>5, <2>6 DEF HeldInv, Held
<1>19. CASE UNCHANGED vars
  BY <1>19 DEF vars, HeldInv, Held, loads, table, ghosts
<1>. QED  BY <1>1, <1>2, <1>3, <1>4, <1>5, <1>6, <1>7, <1>8, <1>9, <1>10, <1>11, <1>12,
             <1>13, <1>14, <1>15, <1>16, <1>17, <1>18, <1>19 DEF Next, Event, Step

-----------------------------------------------------------------------------
(* The entries that are as they were loaded.                               *)

LEMMA TouchedInit == Init => TouchedInv
<1>1. Range(<< >>) = {}
  BY DEF Range
<1>. QED  BY <1>1, NoFlightIs DEF Init, TouchedInv

\* The queue and the request shrink to keys they already held.
LEMMA TouchedShrinks ==
  ASSUME TouchedInv, UNCHANGED touched, preload.pc = "answered" => preload'.pc = "answered",
         Range(queue') \subseteq Range(queue),
         flight'.key = flight.key \/ flight' = NoFlight \/ flight'.key \in Range(queue)
  PROVE  TouchedInv'
<1> SUFFICES ASSUME NEW k \in Keys
             PROVE  /\ flight'.key = k \/ k \in Range(queue') => touched[k] = "changed"
                    /\ touched[k] = "listed" => preload'.pc = "answered"
  BY DEF TouchedInv
<1>. QED  BY NoFlightIs DEF TouchedInv

LEMMA ChangeTouched ==
  ASSUME TypeInv, TouchedInv, NEW ks \in SUBSET Keys, NEW st, Change(ks, st)
  PROVE  TouchedInv'
<1>1. \A k \in Keys : touched'[k] = IF k \in ks \/ flight'.key = k \/ k \in Range(queue')
                                 THEN "changed" ELSE touched[k]
  BY DEF Change
<1>2. UNCHANGED preload
  BY DEF Change, loads
<1>. QED  BY <1>1, <1>2 DEF TouchedInv

LEMMA TouchedStep == TypeInv /\ FlushInv /\ TouchedInv /\ [Next]_vars => TouchedInv'
<1> SUFFICES ASSUME TypeInv, FlushInv, TouchedInv, [Next]_vars PROVE TouchedInv'
  OBVIOUS
<1>0. queue \in Seq(Keys) /\ store \in [Keys -> Int] /\ preload \in Preload
  BY DEF TypeInv
<1>1. ASSUME NEW k \in Keys, StartFetch(k) PROVE TouchedInv'
  BY <1>1, ChangeTouched DEF StartFetch
<1>2. ASSUME NEW k \in Keys, FetchSucceeds(k) PROVE TouchedInv'
  BY <1>2, ChangeTouched DEF FetchSucceeds
<1>3. CASE ClearStore
  BY <1>3, ChangeTouched DEF ClearStore
<1>4. ASSUME NEW k \in Keys, BackendStamps(k) PROVE TouchedInv'
  BY <1>4 DEF BackendStamps, TouchedInv, loads, ghosts
<1>5. CASE ServerSets
  <2>1. flight \in Flight
    BY <1>5 DEF ServerSets, Idle, TypeInv
  <2>2. flight'.key = flight.key
    BY <1>5, <2>1 DEF ServerSets, Flight
  <2>. QED  BY <1>5, <2>2 DEF ServerSets, TouchedInv, loads
<1>6. CASE SetSucceeded
  <2>1. AfterFlight /\ UNCHANGED <<touched, preload>>
    BY <1>6 DEF SetSucceeded, ghosts, loads
  <2>. QED  BY <2>1, AfterFlightIs, SentTyped, TouchedShrinks
<1>7. CASE SetFailed
  <2>1. AfterFlight /\ UNCHANGED <<touched, preload>>
    BY <1>7 DEF SetFailed, ghosts, loads
  <2>. QED  BY <2>1, AfterFlightIs, SentTyped, TouchedShrinks
<1>8. CASE ServerLists
  <2>1. preload'.pc = "answered" /\ UNCHANGED <<queue, flight>>
    BY <1>0, <1>8 DEF ServerLists, Preload
  <2>2. \A k \in Keys : flight.key = k \/ k \in Range(queue) => touched'[k] = "changed"
    BY <1>8 DEF ServerLists, Saving, TouchedInv
  <2>. QED  BY <2>1, <2>2 DEF TouchedInv
<1>9. CASE PreloadDone
  <2>1. touched' = [k \in Keys |-> IF touched[k] = "listed" THEN "loaded" ELSE touched[k]]
        /\ UNCHANGED <<queue, flight>>
    BY <1>9 DEF PreloadDone
  <2>. QED  BY <2>1 DEF TouchedInv
<1>10. ASSUME NEW k \in Keys, ServerErases(k) PROVE TouchedInv'
  BY <1>10 DEF ServerErases, TouchedInv, loads
<1>11. CASE EnsureFresh
  BY <1>11 DEF EnsureFresh, TouchedInv, ghosts
<1>12. CASE ServerStats
  BY <1>12 DEF ServerStats, TouchedInv, ghosts
<1>13. CASE DecideFresh
  <2>1. preload.pc = "answered" => preload'.pc = "answered"
    BY <1>13 DEF DecideFresh
  <2>. QED  BY <1>13, <2>1 DEF DecideFresh, TouchedInv, ghosts
<1>14. CASE MarkStale
  BY <1>14 DEF MarkStale, TouchedInv, ghosts
<1>15. CASE Start
  <2>1. preload.pc = "answered" => preload'.pc = "answered"
    BY <1>15 DEF Start
  <2>. QED  BY <1>15, <2>1 DEF Start, TouchedInv, ghosts
<1>16. CASE Stop
  <2>1. Flushed(queue, store) /\ UNCHANGED <<touched, preload>>
    BY <1>16 DEF Stop, ghosts, loads
  <2>2. Leaves(queue, store)
    BY <1>0, <2>1, FlushedIs
  <2>3. flight' = flight \/ flight' = NoFlight \/ flight'.key \in Range(queue)
    BY <1>0, <2>2, LeavesTyped
  <2>4. Range(queue') \subseteq Range(queue)
    BY <2>2 DEF Leaves
  <2>. QED  BY <2>1, <2>3, <2>4, TouchedShrinks
<1>17. CASE Reload
  <2>1. Range(<< >>) = {}
    BY DEF Range
  <2>. QED  BY <1>17, <2>1, NoFlightIs DEF Reload, TouchedInv
<1>18. ASSUME NEW save \in stamped, BackendWrites(save[1], save[2]) PROVE TouchedInv'
  <2>1. \A k \in Keys : touched'[k] = touched[k] \/ touched'[k] = "changed"
    BY <1>18 DEF BackendWrites, TypeInv
  <2>. QED  BY <1>18, <2>1 DEF BackendWrites, TouchedInv, loads
<1>19. CASE UNCHANGED vars
  BY <1>19 DEF vars, TouchedInv, loads, ghosts
<1>. QED  BY <1>1, <1>2, <1>3, <1>4, <1>5, <1>6, <1>7, <1>8, <1>9, <1>10, <1>11, <1>12,
             <1>13, <1>14, <1>15, <1>16, <1>17, <1>18, <1>19 DEF Next, Event, Step

-----------------------------------------------------------------------------
(* The answer on its way, and what was loaded.                             *)

LEMMA LoadInit == Init => AnswerInv /\ LoadedThroughHonest
BY ConstantsTyped DEF Init, AnswerInv, LoadedThroughHonest

\* A step that loads nothing and touches the table only as the others may.
LEMMA LoadKeeps ==
  ASSUME TypeInv, AnswerInv, LoadedThroughHonest,
         UNCHANGED <<preload, through, swallowed>>,
         \A k \in Keys : touched'[k] # "changed" =>
           /\ touched'[k] = touched[k] /\ store'[k] = store[k]
           /\ server'[k] = server[k] \/ server'[k] = 0 \/ server'[k] > ListedThrough
  PROVE  AnswerInv' /\ LoadedThroughHonest'
<1>1. /\ LoadedThrough \in Nat /\ LoadedThrough' = LoadedThrough
      /\ ListedThrough \in Nat /\ through \in Nat /\ through <= ListedThrough
      /\ preload.pc = "answered" => ListedThrough = LoadedThrough
  BY LoadedThroughIs DEF TypeInv, LoadedThrough
<1>2. AnswerInv'
  <2> SUFFICES ASSUME preload.pc = "answered", ~swallowed, NEW k \in Keys, touched'[k] # "changed"
               PROVE  server'[k] = preload.rows[k] \/ server'[k] <= 0
                      \/ server'[k] > LoadedThrough
    BY <1>1 DEF AnswerInv
  <2>1. server[k] = preload.rows[k] \/ server[k] <= 0 \/ server[k] > LoadedThrough
    BY DEF AnswerInv
  <2>. QED  BY <1>1, <2>1
<1>3. LoadedThroughHonest'
  <2> SUFFICES ASSUME ~swallowed, NEW k \in Keys, touched'[k] = "loaded",
                      server'[k] \in 1..through
               PROVE  store'[k] >= server'[k]
    BY DEF LoadedThroughHonest
  <2>1. /\ touched[k] = "loaded" /\ store'[k] = store[k]
        /\ server'[k] = server[k] \/ server'[k] = 0 \/ server'[k] > ListedThrough
    OBVIOUS
  <2>2. server'[k] = server[k]
    BY <1>1, <2>1
  <2>. QED  BY <2>1, <2>2 DEF LoadedThroughHonest
<1>. QED  BY <1>2, <1>3

LEMMA ChangeLoad ==
  ASSUME TypeInv, AnswerInv, LoadedThroughHonest,
         NEW ks \in SUBSET Keys, NEW st, Change(ks, st),
         \A k \in Keys : k \in ks \/ st[k] = store[k]
  PROVE  AnswerInv' /\ LoadedThroughHonest'
<1>1. UNCHANGED <<preload, through, swallowed, server>> /\ store' = st
  BY DEF Change, loads, table
<1>2. \A k \in Keys : touched'[k] = IF k \in ks \/ flight'.key = k \/ k \in Range(queue')
                                 THEN "changed" ELSE touched[k]
  BY DEF Change
<1>. QED  BY <1>1, <1>2, LoadKeeps

\* A step that begins a load, or touches nothing of all this.
LEMMA LoadBegins ==
  ASSUME AnswerInv, LoadedThroughHonest,
         UNCHANGED <<through, swallowed, touched, store, server>>,
         preload' = preload \/ preload'.pc # "answered"
  PROVE  AnswerInv' /\ LoadedThroughHonest'
BY DEF AnswerInv, LoadedThroughHonest, LoadedThrough

LEMMA LoadStep ==
  TypeInv /\ FlushInv /\ TouchedInv /\ AnswerInv /\ LoadedThroughHonest /\ [Next]_vars
  => AnswerInv' /\ LoadedThroughHonest'
<1> SUFFICES ASSUME TypeInv, FlushInv, TouchedInv, AnswerInv, LoadedThroughHonest,
                    [Next]_vars
             PROVE  AnswerInv' /\ LoadedThroughHonest'
  OBVIOUS
<1> DEFINE Goal == AnswerInv' /\ LoadedThroughHonest'
<1>0. store \in [Keys -> Int] /\ server \in [Keys -> Int] /\ touched \in [Keys -> Touched]
      /\ preload \in Preload /\ preload.rows \in [Keys -> Int] /\ clock \in Nat
  BY DEF TypeInv, Preload
<1>1. ASSUME NEW k \in Keys, StartFetch(k) PROVE Goal
  <2> DEFINE st == [store EXCEPT ![k] = Busy]
  <2>1. Change({k}, st) /\ \A x \in Keys : x \in {k} \/ st[x] = store[x]
    BY <1>0, <1>1 DEF StartFetch
  <2> HIDE DEF st
  <2>. QED  BY <2>1, ChangeLoad
<1>2. ASSUME NEW k \in Keys, FetchSucceeds(k) PROVE Goal
  <2> DEFINE st == [store EXCEPT ![k] = clock + 1]
  <2>1. Change({k}, st) /\ \A x \in Keys : x \in {k} \/ st[x] = store[x]
    BY <1>0, <1>2 DEF FetchSucceeds
  <2> HIDE DEF st
  <2>. QED  BY <2>1, ChangeLoad
<1>3. CASE ClearStore
  BY <1>3, ChangeLoad DEF ClearStore
<1>4. ASSUME NEW k \in Keys, BackendStamps(k) PROVE Goal
  BY <1>4, LoadBegins DEF BackendStamps, loads, ghosts
<1>5. CASE ServerSets
  <2>1. UNCHANGED <<preload, through, swallowed, touched, store>>
        /\ server' = [server EXCEPT ![flight.key] = flight.at]
    BY <1>5 DEF ServerSets, loads
  <2>2. \A x \in Keys : x = flight.key \/ server'[x] = server[x]
    BY <1>0, <2>1
  <2>3. \A x \in Keys : x = flight.key => touched[x] = "changed"
    BY DEF TouchedInv
  <2>. QED  BY <2>1, <2>2, <2>3, LoadKeeps
<1>6. CASE SetSucceeded
  BY <1>6, LoadBegins DEF SetSucceeded, loads, table, ghosts
<1>7. CASE SetFailed
  BY <1>7, LoadBegins DEF SetFailed, loads, table, ghosts
<1>8. CASE ServerLists
  <2>1. UNCHANGED <<through, store, server>>
        /\ \A k \in Keys : touched'[k] = "loaded" => touched[k] = "loaded"
        /\ (swallowed => swallowed')
    BY <1>0, <1>8 DEF ServerLists, table
  <2>2. preload'.rows = server \/ swallowed'
    BY <1>0, <1>8 DEF ServerLists, Preload
  <2>3. AnswerInv'
    BY <2>1, <2>2 DEF AnswerInv
  <2>4. LoadedThroughHonest'
    BY <2>1 DEF LoadedThroughHonest
  <2>. QED  BY <2>3, <2>4
<1>9. CASE PreloadDone
  <2>1. /\ store' = [k \in Keys |-> IF k \in Loaded THEN preload.rows[k] ELSE store[k]]
        /\ touched' = [k \in Keys |-> IF touched[k] = "listed" THEN "loaded" ELSE touched[k]]
        /\ preload' = NoPreload /\ through' = LoadedThrough
        /\ preload.pc = "answered" /\ UNCHANGED <<server, swallowed>>
    BY <1>9 DEF PreloadDone
  <2>2. AnswerInv'
    BY <2>1, ConstantsTyped DEF AnswerInv
  <2>3. LoadedThroughHonest'
    <3> SUFFICES ASSUME ~swallowed, NEW k \in Keys, touched'[k] = "loaded",
                        server[k] \in 1..LoadedThrough
                 PROVE  store'[k] >= server[k]
      BY <2>1 DEF LoadedThroughHonest
    <3>1. touched[k] # "changed"
      BY <2>1
    <3>2. server[k] = preload.rows[k] \/ server[k] <= 0 \/ server[k] > LoadedThrough
      BY <2>1, <3>1 DEF AnswerInv
    <3>3. server[k] = preload.rows[k] /\ preload.rows[k] > 0
      BY <1>0, <3>2, LoadedThroughIs
    <3>4. store'[k] = server[k]
      BY <2>1, <3>3 DEF Loaded
    <3>. QED  BY <1>0, <3>4
  <2>. QED  BY <2>2, <2>3
<1>10. ASSUME NEW k \in Keys, ServerErases(k) PROVE Goal
  <2>1. UNCHANGED <<preload, through, swallowed, touched, store>>
    BY <1>10 DEF ServerErases, loads
  <2>2. \A x \in Keys : server'[x] = server[x] \/ server'[x] = 0
    BY <1>0, <1>10 DEF ServerErases
  <2>. QED  BY <2>1, <2>2, LoadKeeps
<1>11. CASE EnsureFresh
  BY <1>11, LoadBegins DEF EnsureFresh, table, ghosts
<1>12. CASE ServerStats
  BY <1>12, LoadBegins DEF ServerStats, table, ghosts
<1>13. CASE DecideFresh
  <2>1. preload' = preload \/ preload'.pc # "answered"
    BY <1>13 DEF DecideFresh, Preloading
  <2>. QED  BY <1>13, <2>1, LoadBegins DEF DecideFresh, table, ghosts
<1>14. CASE MarkStale
  BY <1>14, LoadBegins DEF MarkStale, table, ghosts
<1>15. CASE Start
  <2>1. preload' = preload \/ preload'.pc # "answered"
    BY <1>15 DEF Start, Preloading
  <2>. QED  BY <1>15, <2>1, LoadBegins DEF Start, table, ghosts
<1>16. CASE Stop
  BY <1>16, LoadBegins DEF Stop, loads, table, ghosts
<1>17. CASE Reload
  BY <1>17, ConstantsTyped DEF Reload, AnswerInv, LoadedThroughHonest
<1>18. ASSUME NEW save \in stamped, BackendWrites(save[1], save[2]) PROVE Goal
  <2>1. save[1] \in Keys /\ save[2] \in Nat
    BY DEF TypeInv
  <2>2. UNCHANGED <<preload, through, swallowed, store>>
    BY <1>18 DEF BackendWrites, loads
  <2>3. ASSUME NEW x \in Keys, touched'[x] # "changed"
        PROVE  /\ touched'[x] = touched[x]
               /\ server'[x] = server[x] \/ server'[x] > ListedThrough
    <3>1. CASE UNCHANGED <<server, touched>>
      BY <3>1
    <3>2. CASE /\ server' = [server EXCEPT ![save[1]] = save[2]]
               /\ touched' = IF save[2] <= ListedThrough
                             THEN [touched EXCEPT ![save[1]] = "changed"] ELSE touched
      <4>1. ListedThrough \in Nat
        BY LoadedThroughIs
      <4>2. x # save[1] \/ ~(save[2] <= ListedThrough)
        BY <1>0, <2>1, <2>3, <3>2
      <4>. QED  BY <1>0, <2>1, <2>3, <3>2, <4>1, <4>2
    <3>. QED  BY <1>18, <3>1, <3>2 DEF BackendWrites
  <2>. QED  BY <2>2, <2>3, LoadKeeps
<1>19. CASE UNCHANGED vars
  BY <1>19, LoadBegins DEF vars, loads, table, ghosts
<1>. QED  BY <1>1, <1>2, <1>3, <1>4, <1>5, <1>6, <1>7, <1>8, <1>9, <1>10, <1>11, <1>12,
             <1>13, <1>14, <1>15, <1>16, <1>17, <1>18, <1>19 DEF Next, Event, Step

-----------------------------------------------------------------------------
(* Nothing is forgotten.                                                   *)

LEMMA ForgottenInit == Init => NothingForgotten
BY ConstantsTyped DEF Init, NothingForgotten

\* A step of the table alone: rows only grow, but for those now lost.
LEMMA TableKeeps ==
  ASSUME TypeInv, NothingForgotten,
         UNCHANGED <<store, queue, unseen, unsaved>>,
         flight'.key = flight.key /\ flight'.at = flight.at /\ (Idle <=> Idle'),
         \A k \in Keys : server'[k] >= server[k] \/ k \in lost',
         server' \in [Keys -> Int], lost \subseteq lost'
  PROVE  NothingForgotten'
<1> SUFFICES ASSUME NEW k \in Keys, store[k] > 0
             PROVE  \/ server'[k] >= store[k]
                    \/ flight.key = k /\ flight.at = store[k]
                    \/ k \in Range(queue) /\ ~Idle
                    \/ ProviderOf[k] \in unseen
                    \/ k \in unsaved \cup lost'
  BY DEF NothingForgotten
<1>1. store[k] \in Int /\ server[k] \in Int /\ server'[k] \in Int
  BY DEF TypeInv
<1>. QED  BY <1>1 DEF NothingForgotten

\* A step that touches nothing of all this.
LEMMA NothingTouched ==
  ASSUME NothingForgotten, UNCHANGED <<store, server, flight, queue, unseen, unsaved, lost>>
  PROVE  NothingForgotten'
BY DEF NothingForgotten, Idle

LEMMA ChangeForgets ==
  ASSUME TypeInv, FlushInv, HeldInv, NothingForgotten,
         NEW ks \in SUBSET Keys, NEW st \in [Keys -> Int], Change(ks, st),
         \A k \in Keys : k \in ks \/ st[k] = store[k]
  PROVE  NothingForgotten'
<1> DEFINE ps == {ProviderOf[k] : k \in ks}
<1>1. Subscriber(ps, st) /\ store' = st /\ UNCHANGED <<server, lost>>
  BY DEF Change, table
<1>2. \A k \in Keys : ProviderOf[k] \in ps \/ st[k] = store[k]
  OBVIOUS
<1> HIDE DEF ps
<1>. QED  BY <1>1, <1>2, SubscriberKeeps

LEMMA ForgottenStep ==
  TypeInv /\ FlushInv /\ HeldInv /\ NothingForgotten /\ [Next]_vars
  => NothingForgotten'
<1> SUFFICES ASSUME TypeInv, FlushInv, HeldInv, NothingForgotten, [Next]_vars
             PROVE  NothingForgotten'
  OBVIOUS
<1>0. /\ store \in [Keys -> Int] /\ server \in [Keys -> Int] /\ queue \in Seq(Keys)
      /\ preload.rows \in [Keys -> Int] /\ clock \in Nat
  BY DEF TypeInv, Preload
<1>1. ASSUME NEW k \in Keys, StartFetch(k) PROVE NothingForgotten'
  <2> DEFINE st == [store EXCEPT ![k] = Busy]
  <2>1. /\ st \in [Keys -> Int] /\ Change({k}, st)
        /\ \A x \in Keys : x \in {k} \/ st[x] = store[x]
    BY <1>0, <1>1 DEF StartFetch, Busy
  <2> HIDE DEF st
  <2>. QED  BY <2>1, ChangeForgets
<1>2. ASSUME NEW k \in Keys, FetchSucceeds(k) PROVE NothingForgotten'
  <2> DEFINE st == [store EXCEPT ![k] = clock + 1]
  <2>1. /\ st \in [Keys -> Int] /\ Change({k}, st)
        /\ \A x \in Keys : x \in {k} \/ st[x] = store[x]
    BY <1>0, <1>2 DEF FetchSucceeds
  <2> HIDE DEF st
  <2>. QED  BY <2>1, ChangeForgets
<1>3. CASE ClearStore
  BY <1>3, ChangeForgets, ConstantsTyped DEF ClearStore
<1>4. ASSUME NEW k \in Keys, BackendStamps(k) PROVE NothingForgotten'
  BY <1>4, NothingTouched DEF BackendStamps, ghosts
<1>5. CASE ServerSets
  <2>1. flight \in Flight
    BY <1>5 DEF ServerSets, Idle, TypeInv
  <2>2. flight' \in Flight /\ flight'.key = flight.key /\ flight'.at = flight.at
    BY <1>5, <2>1 DEF ServerSets, Flight
  <2>3. ~Idle /\ ~Idle'
    BY <2>1, <2>2, NoFlightIs DEF Idle, Flight
  <2>4. UNCHANGED <<store, queue, unseen, unsaved>> /\ lost \subseteq lost'
    BY <1>5 DEF ServerSets, ghosts
  <2>5. \A x \in Keys : server'[x] >= server[x] \/ x \in lost'
    BY <1>0, <1>5, <2>1 DEF ServerSets, Flight
  <2>6. server' \in [Keys -> Int]
    BY <1>0, <1>5, <2>1 DEF ServerSets, Flight
  <2>. QED  BY <2>2, <2>3, <2>4, <2>5, <2>6, TableKeeps
<1>6. CASE SetSucceeded
  <2>1. /\ AfterFlight /\ flight.done /\ flight \in Flight
        /\ UNCHANGED <<store, server, unseen, unsaved, lost>>
    BY <1>6 DEF SetSucceeded, Idle, TypeInv, table, ghosts
  <2> SUFFICES ASSUME NEW k \in Keys, store[k] > 0
               PROVE  \/ server[k] >= store[k]
                      \/ flight'.key = k /\ flight'.at = store[k]
                      \/ k \in Range(queue') /\ flight' # NoFlight
                      \/ ProviderOf[k] \in unseen
                      \/ k \in unsaved \cup lost
    BY <2>1 DEF NothingForgotten, Idle
  <2>2. CASE flight.key = k /\ flight.at = store[k]
    BY <2>1, <2>2 DEF HeldInv, Held
  <2>3. CASE k \in Range(queue)
    <3>1. ~(store[k] <= 0)
      BY <1>0
    <3>. QED  BY <2>1, <2>3, <3>1, AfterFlightIs, NoFlightIs DEF Sends, Flight
  <2>. QED  BY <2>2, <2>3 DEF NothingForgotten
<1>7. CASE SetFailed
  <2>1. /\ AfterFlight /\ flight \in Flight /\ UNCHANGED <<store, server, unseen, lost>>
        /\ unsaved' = IF flight.key \in Range(queue) THEN unsaved ELSE unsaved \cup {flight.key}
    BY <1>7 DEF SetFailed, Idle, TypeInv, table, ghosts
  <2> SUFFICES ASSUME NEW k \in Keys, store[k] > 0
               PROVE  \/ server[k] >= store[k]
                      \/ flight'.key = k /\ flight'.at = store[k]
                      \/ k \in Range(queue') /\ flight' # NoFlight
                      \/ ProviderOf[k] \in unseen
                      \/ k \in unsaved' \cup lost
    BY <2>1 DEF NothingForgotten, Idle
  <2>2. CASE k \in Range(queue)
    <3>1. ~(store[k] <= 0)
      BY <1>0
    <3>. QED  BY <2>1, <2>2, <3>1, AfterFlightIs, NoFlightIs DEF Sends, Flight
  <2>3. CASE flight.key = k /\ k \notin Range(queue)
    BY <2>1, <2>3
  <2>. QED  BY <2>1, <2>2, <2>3 DEF NothingForgotten
<1>8. CASE ServerLists
  BY <1>8, NothingTouched DEF ServerLists, table
<1>9. CASE PreloadDone
  <2>1. /\ store' = [k \in Keys |-> IF k \in Loaded THEN preload.rows[k] ELSE store[k]]
        /\ unseen' = unseen \cup {ProviderOf[k] : k \in Loaded}
        /\ UNCHANGED <<server, queue, flight, unsaved, lost>>
    BY <1>9 DEF PreloadDone
  <2> SUFFICES ASSUME NEW k \in Keys, store'[k] > 0
               PROVE  \/ server[k] >= store'[k]
                      \/ flight.key = k /\ flight.at = store'[k]
                      \/ k \in Range(queue) /\ ~Idle
                      \/ ProviderOf[k] \in unseen'
                      \/ k \in unsaved \cup lost
    BY <2>1 DEF NothingForgotten, Idle
  <2>2. CASE k \in Loaded
    BY <2>1, <2>2
  <2>3. CASE k \notin Loaded
    BY <2>1, <2>3 DEF NothingForgotten
  <2>. QED  BY <2>2, <2>3
<1>10. ASSUME NEW k \in Keys, ServerErases(k) PROVE NothingForgotten'
  <2>1. UNCHANGED <<store, flight, queue, unseen, unsaved>>
    BY <1>10 DEF ServerErases
  <2>2. \A x \in Keys : server'[x] >= server[x] \/ x \in lost'
    BY <1>0, <1>10 DEF ServerErases
  <2>3. server' \in [Keys -> Int] /\ lost \subseteq lost'
    BY <1>0, <1>10 DEF ServerErases
  <2>. QED  BY <2>1, <2>2, <2>3, TableKeeps DEF Idle
<1>11. CASE EnsureFresh
  BY <1>11, NothingTouched DEF EnsureFresh, table, ghosts
<1>12. CASE ServerStats
  BY <1>12, NothingTouched DEF ServerStats, table, ghosts
<1>13. CASE DecideFresh
  BY <1>13, NothingTouched DEF DecideFresh, table, ghosts
<1>14. CASE MarkStale
  BY <1>14, NothingTouched DEF MarkStale, table, ghosts
<1>15. CASE Start
  BY <1>15, NothingTouched DEF Start, table, ghosts
<1>16. CASE Stop
  <2>1. unseen' = Providers
    BY <1>16 DEF Stop
  <2>. QED  BY <2>1, ConstantsTyped DEF NothingForgotten
<1>17. CASE Reload
  BY <1>17, ConstantsTyped DEF Reload, NothingForgotten
<1>18. ASSUME NEW save \in stamped, BackendWrites(save[1], save[2]) PROVE NothingForgotten'
  <2>1. UNCHANGED <<store, flight, queue, unseen, unsaved>>
    BY <1>18 DEF BackendWrites
  <2>2. /\ server' \in [Keys -> Int] /\ lost \subseteq lost'
        /\ \A x \in Keys : server'[x] >= server[x] \/ x \in lost'
    BY <1>0, <1>18, WriteKeeps
  <2>. QED  BY <2>1, <2>2, TableKeeps DEF Idle
<1>19. CASE UNCHANGED vars
  BY <1>19, NothingTouched DEF vars, table, ghosts
<1>. QED  BY <1>1, <1>2, <1>3, <1>4, <1>5, <1>6, <1>7, <1>8, <1>9, <1>10, <1>11, <1>12,
             <1>13, <1>14, <1>15, <1>16, <1>17, <1>18, <1>19 DEF Next, Event, Step

-----------------------------------------------------------------------------
(* The theorems.                                                           *)

Inv == TypeInv /\ FlushInv /\ HeldInv /\ TouchedInv /\ AnswerInv
       /\ NothingForgotten /\ LoadedThroughHonest

LEMMA Invariant == Spec => []Inv
<1>1. Init => Inv
  BY TypeInit, HeldInit, TouchedInit, LoadInit, ForgottenInit DEF Inv
<1>2. Inv /\ [Next]_vars => Inv'
  BY TypeStep, HeldStep, TouchedStep, LoadStep, ForgottenStep DEF Inv
<1>. QED  BY <1>1, <1>2, PTL DEF Spec

(***************************************************************************)
(* Nothing the page shows is forgotten, for any quotas and providers and   *)
(* any number of events: whatever requests fail and however loads, stops,  *)
(* fetches and the backend's own saves interleave, a success in the store  *)
(* is in the table, on its way there, or of a provider that will be        *)
(* compared again (flushSyncQueue and syncProvider).                       *)
(***************************************************************************)
THEOREM NothingIsForgotten == Spec => []NothingForgotten
<1>1. Inv => NothingForgotten
  BY DEF Inv
<1>. QED  BY <1>1, Invariant, PTL

(***************************************************************************)
(* loadedThrough is honest, for any quotas and any number of events: a row *)
(* no younger than it is in the store (preloadCache and ensureFresh).      *)
(***************************************************************************)
THEOREM LoadedThroughIsHonest == Spec => []LoadedThroughHonest
<1>1. Inv => LoadedThroughHonest
  BY DEF Inv
<1>. QED  BY <1>1, Invariant, PTL

(***************************************************************************)
(* The state keeps its types, and no key waits in the queue while no       *)
(* request is under way: the end of every request takes the next one.      *)
(***************************************************************************)
THEOREM QueueNeverStranded == Spec => [](TypeInv /\ FlushInv)
<1>1. Inv => TypeInv /\ FlushInv
  BY DEF Inv
<1>. QED  BY <1>1, Invariant, PTL
=============================================================================
