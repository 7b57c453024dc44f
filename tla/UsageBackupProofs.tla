--------------------------- MODULE UsageBackupProofs ---------------------------
(***************************************************************************)
(* Proofs about UsageBackup for any number of events, masks, limits and    *)
(* scenarios: every event handed over is accounted for, masking copies of  *)
(* it stay few, and the newest backup never forgets what one before held.  *)
(***************************************************************************)
EXTENDS UsageBackup, FiniteSetTheorems, SequenceTheorems, TLAPS

(***************************************************************************)
(* A row of any table, of the database, of an export or of a file: its     *)
(* source was masked no more often than masking changes it.                *)
(***************************************************************************)
Rows  == {row \in (1..MaxEvents) \X Nat : row[2] <= Masks[row[1]]}
Base  == [rows : SUBSET Rows, settings : Settings]
Loop  == [at : {"idle", "events", "rest"}, base : Base]
         \cup [at : {"upload", "prune"}, base : Base, prune : BOOLEAN]
Import == [at : {"wait", "rows", "settings", "done"}, base : Base, whole : BOOLEAN]
Past   == [covered : SUBSET (1..MaxEvents), expired : SUBSET (1..MaxEvents),
           crowded : SUBSET (1..MaxEvents), lost : SUBSET (1..MaxEvents),
           partial : BOOLEAN, risks : SUBSET {"enabled before a restore", "download cut short"}]

TypeInv ==
  /\ produced \in 0..MaxEvents /\ queue \in Seq(1..MaxEvents) /\ batch \in SUBSET (1..MaxEvents)
  /\ db \in Base /\ cutoff \in 0..MaxEvents
  /\ files \in Seq(Base) /\ aged \in 0..Len(files)
  /\ loop \in Loop /\ due \in BOOLEAN /\ restore \in Import /\ past \in Past

\* No event gets lost unnoticed.
AccountInv ==
  \A event \in 1..produced :
    event \in Dropped \cup EventsIn(db.rows) \cup past.expired \cup past.lost

(***************************************************************************)
(* What a newest backup held is in the newest backup, and in the database  *)
(* unless that one has replaced a lost one and is not yet filled again:    *)
(* then backups are off, so that the backups stay as they are, and an      *)
(* import that is under way brings back all of the newest one.             *)
(***************************************************************************)
Excused == past.expired \cup past.crowded

FilesInv ==
  /\ past.covered \subseteq BackedUp \cup Excused
  /\ loop.at = "prune" => aged < Len(files)

BaseInv ==
  /\ ~past.partial => past.covered \subseteq EventsIn(db.rows) \cup Excused
  /\ past.partial => ~db.settings.backup /\ loop.at = "idle"

ExportInv ==
  loop.at \in {"rest", "upload"} =>
    /\ past.covered \subseteq EventsIn(loop.base.rows) \cup Excused
    /\ EventsIn(loop.base.rows) \subseteq EventsIn(db.rows) \cup past.expired

ImportInv ==
  /\ restore.at = "settings" => restore.base.rows = {}
  /\ past.partial /\ restore.at \in {"rows", "settings"} =>
       /\ restore.whole
       /\ BackedUp \subseteq EventsIn(db.rows) \cup EventsIn(restore.base.rows) \cup past.expired

CoverInv == past.risks = {} => FilesInv /\ BaseInv /\ ExportInv /\ ImportInv

-----------------------------------------------------------------------------
(* Rows and records.                                                       *)

LEMMA ConstantsAre ==
  /\ MaxEvents \in Nat \ {0} /\ Limit \in Nat \ {0} /\ BatchSize \in Nat \ {0}
  /\ Masks \in [1..MaxEvents -> Nat] /\ Choices \subseteq Settings
BY BackupAssumption

\* A row of a new event, and one that is read back from a file.
LEMMA RowsAre ==
  /\ \A event \in 1..MaxEvents : <<event, 0>> \in Rows
  /\ \A row \in Rows : Imported(row) \in Rows /\ Imported(row)[1] = row[1]
<1>1. ASSUME NEW event \in 1..MaxEvents PROVE <<event, 0>> \in Rows
  <2>1. Masks[event] \in Nat
    BY ConstantsAre
  <2>. QED  BY <2>1 DEF Rows
<1>2. ASSUME NEW row \in Rows PROVE Imported(row) \in Rows /\ Imported(row)[1] = row[1]
  <2>1. row[1] \in 1..MaxEvents /\ row[2] \in Nat /\ row[2] <= Masks[row[1]]
    BY DEF Rows
  <2>2. Masks[row[1]] \in Nat
    BY <2>1, ConstantsAre
  <2> DEFINE times == IF row[2] < Masks[row[1]] THEN row[2] + 1 ELSE row[2]
  <2>3. times \in Nat /\ times <= Masks[row[1]]
    BY <2>1, <2>2
  <2>4. Imported(row) = <<row[1], times>>
    BY DEF Imported
  <2> HIDE DEF times
  <2>. QED  BY <2>1, <2>3, <2>4 DEF Rows
<1>. QED  BY <1>1, <1>2

LEMMA ImportedEvents ==
  ASSUME NEW rows \in SUBSET Rows
  PROVE  /\ {Imported(row) : row \in rows} \in SUBSET Rows
         /\ EventsIn({Imported(row) : row \in rows}) = EventsIn(rows)
<1>1. \A row \in rows : Imported(row) \in Rows /\ Imported(row)[1] = row[1]
  BY RowsAre
<1>. QED  BY <1>1 DEF EventsIn

LEMMA EventsAre ==
  /\ \A rows \in SUBSET Rows : EventsIn(rows) \in SUBSET (1..MaxEvents)
  /\ \A x, y : EventsIn(x \cup y) = EventsIn(x) \cup EventsIn(y)
  /\ \A x, y : x \subseteq y => EventsIn(x) \subseteq EventsIn(y)
  /\ \A x, y, z : x \subseteq y \cup z => EventsIn(x) \subseteq EventsIn(y) \cup EventsIn(z)
  /\ \A events : EventsIn(events \X {0}) = events
<1>1. \A rows \in SUBSET Rows : EventsIn(rows) \in SUBSET (1..MaxEvents)
  BY DEF EventsIn, Rows
<1>2. \A x, y : EventsIn(x \cup y) = EventsIn(x) \cup EventsIn(y)
  BY DEF EventsIn
<1>3. \A x, y : x \subseteq y => EventsIn(x) \subseteq EventsIn(y)
  BY DEF EventsIn
<1>5. \A x, y, z : x \subseteq y \cup z => EventsIn(x) \subseteq EventsIn(y) \cup EventsIn(z)
  BY DEF EventsIn
<1>4. ASSUME NEW events PROVE EventsIn(events \X {0}) = events
  <2>1. \A row \in events \X {0} : row[1] \in events
    OBVIOUS
  <2>2. \A event \in events : <<event, 0>> \in events \X {0} /\ <<event, 0>>[1] = event
    OBVIOUS
  <2>. QED  BY <2>1, <2>2 DEF EventsIn
<1>. QED  BY <1>1, <1>2, <1>3, <1>4, <1>5

\* An event has at most one row for each time its source can be masked.
LEMMA CopiesAreFew ==
  ASSUME NEW rows \in SUBSET Rows, NEW event \in 1..MaxEvents
  PROVE  Cardinality({row \in rows : row[1] = event}) <= 1 + Masks[event]
<1> DEFINE copies == {row \in rows : row[1] = event}
           times  == [row \in copies |-> row[2]]
<1>1. Masks[event] \in Nat
  BY ConstantsAre
<1>2. \A row \in copies : row[2] \in 0..Masks[event] /\ row = <<event, row[2]>>
  BY <1>1 DEF Rows
<1>3. times \in Injection(copies, 0..Masks[event])
  <2>1. times \in [copies -> 0..Masks[event]]
    BY <1>2
  <2>2. \A x, y \in copies : times[x] = times[y] => x = y
    BY <1>2
  <2>. QED  BY <2>1, <2>2 DEF Injection, IsInjective
<1>4. /\ IsFiniteSet(0..Masks[event])
      /\ Cardinality(0..Masks[event]) = IF 0 > Masks[event] THEN 0 ELSE Masks[event] - 0 + 1
  <2>1. 0 \in Int /\ Masks[event] \in Int
    BY <1>1
  <2>. QED  BY <2>1, FS_Interval
<1>5. Cardinality(0..Masks[event]) = Masks[event] + 1
  BY <1>1, <1>4
<1>6. Cardinality(copies) <= Cardinality(0..Masks[event])
  BY <1>3, <1>4, FS_Injection
<1>7. copies = {row \in rows : row[1] = event}
  OBVIOUS
<1> HIDE DEF copies
<1>8. Cardinality(copies) <= Masks[event] + 1
  BY <1>5, <1>6
<1>. QED  BY <1>1, <1>7, <1>8

LEMMA BasesAre == EmptyBase \in Base /\ EmptyBase.rows = {} /\ EmptyBase.settings.backup = FALSE
BY DEF EmptyBase, DefaultSettings, Base, Settings

LEMMA IdleIs == Idle \in Loop /\ Idle.at = "idle"
BY BasesAre DEF Idle, Loop

LEMMA WaitingIs == Waiting \in Import /\ Waiting.at = "wait"
BY BasesAre DEF Waiting, Import

LEMMA ExportsAre ==
  ASSUME NEW rows \in SUBSET Rows, NEW n
  PROVE  NewestOf(rows, n) \in SUBSET rows /\ OldestOf(rows, n) \in SUBSET rows
         /\ Exported(rows) \in SUBSET rows
BY DEF NewestOf, OldestOf, Exported

\* The newest of the files.
LEMMA NewestIs ==
  ASSUME files \in Seq(Base), files # << >>
  PROVE  Newest \in Base /\ BackedUp = EventsIn(Newest.rows)
<1>1. Len(files) \in 1..Len(files)
  OBVIOUS
<1>. QED  BY <1>1 DEF Newest, BackedUp

\* The queue is a sequence of events.
LEMMA QueueIs ==
  ASSUME TypeInv
  PROVE  /\ Len(queue) \in Nat /\ DOMAIN queue = 1..Len(queue)
         /\ \A i \in 1..Len(queue) : queue[i] \in 1..MaxEvents
<1> DEFINE E == 1..MaxEvents
<1>1. queue \in Seq(E)
  BY DEF TypeInv
<1> HIDE DEF E
<1>2. /\ Len(queue) \in Nat /\ DOMAIN queue = 1..Len(queue)
      /\ \A i \in 1..Len(queue) : queue[i] \in E
  BY <1>1
<1>. QED  BY <1>2 DEF E

LEMMA DroppedTyped == ASSUME TypeInv PROVE Dropped \in SUBSET (1..MaxEvents)
BY QueueIs DEF Dropped, TypeInv

\* A batch is the head of the queue.
LEMMA PopTakes ==
  ASSUME TypeInv, Pop
  PROVE  \E n \in 0..Len(queue) : /\ batch' = {queue[i] : i \in 1..n}
                                  /\ queue' = SubSeq(queue, n + 1, Len(queue))
<1> DEFINE n == IF Len(queue) < BatchSize THEN Len(queue) ELSE BatchSize
<1>1. n \in 0..Len(queue)
  BY ConstantsAre DEF TypeInv
<1>2. batch' = {queue[i] : i \in 1..n} /\ queue' = SubSeq(queue, n + 1, Len(queue))
  BY DEF Pop
<1> HIDE DEF n
<1>. QED  BY <1>1, <1>2

-----------------------------------------------------------------------------
(* Typing.                                                                 *)

LEMMA PastTyped ==
  ASSUME past \in Past, NEW events \in SUBSET (1..MaxEvents)
  PROVE  /\ [past EXCEPT !.lost = @ \cup events] \in Past
         /\ [past EXCEPT !.expired = @ \cup events] \in Past
         /\ [past EXCEPT !.crowded = @ \cup events] \in Past
         /\ [past EXCEPT !.covered = @ \cup events] \in Past
BY DEF Past

LEMMA ExpiringTyped ==
  ASSUME db \in Base, NEW settings
  PROVE  /\ Expiring(settings) \in SUBSET db.rows
         /\ EventsIn(Expiring(settings)) \in SUBSET (1..MaxEvents)
<1>1. Expiring(settings) \in SUBSET db.rows
  BY DEF Expiring
<1>2. db.rows \in SUBSET Rows
  BY DEF Base
<1>. QED  BY <1>1, <1>2, EventsAre

LEMMA CollectorTyped ==
  ASSUME TypeInv, Produce \/ Collector \/ InsertFails
  PROVE  TypeInv'
<1>1. CASE Produce
  <2>1. produced' \in 0..MaxEvents /\ produced + 1 \in 1..MaxEvents
    BY <1>1, ConstantsAre DEF Produce, TypeInv
  <2>2. queue' \in Seq(1..MaxEvents)
    BY <1>1, <2>1 DEF Produce, TypeInv
  <2>. QED  BY <1>1, <2>1, <2>2 DEF Produce, TypeInv, disk, server
<1>2. CASE Pop
  <2>2. PICK n \in 0..Len(queue) : /\ batch' = {queue[i] : i \in 1..n}
                                   /\ queue' = SubSeq(queue, n + 1, Len(queue))
    BY <1>2, PopTakes
  <2>3. \A i \in 1..n : queue[i] \in 1..MaxEvents
    BY QueueIs
  <2>4. batch' \in SUBSET (1..MaxEvents)
    BY <2>2, <2>3
  <2>5. queue' \in Seq(1..MaxEvents)
    <3> DEFINE E == 1..MaxEvents
    <3>1. \A i \in (n + 1)..Len(queue) : queue[i] \in E
      BY QueueIs
    <3>2. n + 1 \in Int /\ Len(queue) \in Int
      BY QueueIs
    <3> HIDE DEF E
    <3>3. SubSeq(queue, n + 1, Len(queue)) \in Seq(E)
      BY <3>1, <3>2, SubSeqProperties
    <3>. QED  BY <2>2, <3>3 DEF E
  <2>. QED  BY <1>2, <2>4, <2>5 DEF Pop, TypeInv, disk, server
<1>3. CASE InsertBatch
  <2>1. ASSUME NEW row \in batch \X {0} PROVE row \in Rows
    <3>1. batch \in SUBSET (1..MaxEvents)
      BY DEF TypeInv
    <3>2. PICK event \in batch : row = <<event, 0>>
      OBVIOUS
    <3>. QED  BY <3>1, <3>2, RowsAre
  <2>2. db' \in Base
    BY <1>3, <2>1 DEF InsertBatch, TypeInv, Base
  <2>. QED  BY <1>3, <2>2 DEF InsertBatch, TypeInv, server
<1>4. CASE InsertFails
  BY <1>4, PastTyped DEF InsertFails, TypeInv, disk, server
<1>. QED  BY <1>1, <1>2, <1>3, <1>4 DEF Collector

LEMMA TimeTyped ==
  ASSUME TypeInv, Time \/ SaveSettings
  PROVE  TypeInv'
<1>1. CASE EventsAge
  <2>1. cutoff' \in 0..MaxEvents
    BY <1>1, ConstantsAre DEF EventsAge, TypeInv
  <2>. QED  BY <1>1, <2>1 DEF EventsAge, TypeInv, memory, server
<1>2. CASE FilesAge
  <2>1. aged' \in 0..Len(files)
    BY <1>2 DEF FilesAge, TypeInv
  <2>. QED  BY <1>2, <2>1 DEF FilesAge, TypeInv, memory, disk
<1>3. CASE Retention
  <2>1. db' \in Base
    BY <1>3 DEF Retention, TypeInv, Base
  <2>2. past' \in Past
    BY <1>3, PastTyped, ExpiringTyped DEF Retention, TypeInv
  <2>. QED  BY <1>3, <2>1, <2>2 DEF Retention, TypeInv, memory, server
<1>4. CASE SaveSettings
  <2>1. PICK settings \in Choices :
          /\ db' = [db EXCEPT !.settings = settings, !.rows = @ \ Expiring(settings)]
          /\ past' = [past EXCEPT !.expired = @ \cup EventsIn(Expiring(settings)),
                                  !.risks = IF past.partial /\ settings.backup
                                            THEN @ \cup {"enabled before a restore"} ELSE @]
          /\ UNCHANGED <<produced, memory, cutoff, server>>
    BY <1>4 DEF SaveSettings
  <2>2. db' \in Base
    BY <2>1, ConstantsAre DEF TypeInv, Base
  <2> DEFINE events == EventsIn(Expiring(settings))
  <2>3. events \in SUBSET (1..MaxEvents)
    BY ExpiringTyped DEF TypeInv
  <2> HIDE DEF events
  <2>4. past' \in Past
    BY <2>1, <2>3 DEF TypeInv, Past, events
  <2>. QED  BY <2>1, <2>2, <2>4 DEF TypeInv, memory, server
<1>5. CASE IntervalPasses
  BY <1>5 DEF IntervalPasses, TypeInv, disk, server
<1>. QED  BY <1>1, <1>2, <1>3, <1>4, <1>5 DEF Time

LEMMA BackupsTyped ==
  ASSUME TypeInv, Backups \/ AnswerLost \/ BackupFails \/ PruneFails
  PROVE  TypeInv'
<1>1. db \in Base /\ db.rows \in SUBSET Rows /\ db.settings \in Settings
  BY DEF TypeInv, Base
<1>2. loop.base \in Base
  BY DEF TypeInv, Loop
<1>3. CASE BeginBackup
  <2> DEFINE base == [EmptyBase EXCEPT !.settings = db.settings]
  <2>1. base \in Base
    BY <1>1, BasesAre DEF Base
  <2>2. loop' = [at |-> "events", base |-> base]
    BY <1>3 DEF BeginBackup
  <2> HIDE DEF base
  <2>3. loop' \in Loop
    BY <2>1, <2>2 DEF Loop
  <2>. QED  BY <1>3, <2>3 DEF BeginBackup, TypeInv, disk, server
<1>4. CASE ExportEvents
  <2>1. Exported(db.rows) \in SUBSET Rows
    BY <1>1, ExportsAre
  <2>2. loop \in [at : {"idle", "events", "rest"}, base : Base]
    BY <1>4 DEF ExportEvents, TypeInv, Loop
  <2>3. loop' \in [at : {"idle", "events", "rest"}, base : Base]
    BY <1>4, <2>1, <2>2 DEF ExportEvents, Base
  <2>4. loop' \in Loop
    BY <2>3 DEF Loop
  <2>5. EventsIn(db.rows \ Exported(db.rows)) \in SUBSET (1..MaxEvents)
    BY <1>1, EventsAre
  <2>6. past' \in Past
    BY <1>4, <2>5, PastTyped DEF ExportEvents, TypeInv
  <2>. QED  BY <1>4, <2>4, <2>6 DEF ExportEvents, TypeInv, disk, server
<1>5. CASE ExportRest
  <2> DEFINE base == [loop.base EXCEPT !.settings = db.settings]
             prune == loop.base.settings.prune
  <2>1. base \in Base /\ prune \in BOOLEAN
    BY <1>1, <1>2 DEF Base, Settings
  <2>2. loop' = [at |-> "upload", base |-> base, prune |-> prune]
    BY <1>5 DEF ExportRest
  <2> HIDE DEF base, prune
  <2>3. loop' \in Loop
    BY <2>1, <2>2 DEF Loop
  <2>. QED  BY <1>5, <2>3 DEF ExportRest, TypeInv, disk, server
<1>6. ASSUME Store PROVE files' \in Seq(Base) /\ aged \in 0..Len(files') /\ past' \in Past
  <2>1. files' \in Seq(Base) /\ Len(files') = Len(files) + 1
    BY <1>2, <1>6 DEF Store, TypeInv
  <2>2. EventsIn(loop.base.rows) \in SUBSET (1..MaxEvents)
    BY <1>2, EventsAre DEF Base
  <2>3. past' \in Past
    BY <1>6, <2>2, PastTyped DEF Store, TypeInv
  <2>4. aged \in 0..Len(files')
    BY <2>1 DEF TypeInv
  <2>. QED  BY <2>1, <2>3, <2>4
<1>7. CASE Upload
  <2>1. loop \in [at : {"upload", "prune"}, base : Base, prune : BOOLEAN]
    BY <1>7 DEF Upload, TypeInv, Loop
  <2>2. loop' \in Loop
    BY <1>7, <2>1 DEF Upload, Loop
  <2>. QED  BY <1>6, <1>7, <2>2 DEF Upload, TypeInv, disk
<1>8. CASE AnswerLost
  BY <1>6, <1>8, IdleIs DEF AnswerLost, TypeInv, disk
<1>9. CASE BackupFails
  BY <1>9, IdleIs DEF BackupFails, TypeInv, disk, server
<1>10. CASE PruneOne
  <2>1. files # << >>
    BY <1>10 DEF PruneOne, TypeInv
  <2>2. files' \in Seq(Base) /\ Len(files') = Len(files) - 1
    BY <1>10, <2>1 DEF PruneOne, TypeInv
  <2>3. aged' \in 0..Len(files')
    BY <1>10, <2>2 DEF PruneOne, TypeInv
  <2>. QED  BY <1>10, <2>2, <2>3 DEF PruneOne, TypeInv, memory, disk
<1>11. CASE PruneEnds
  BY <1>11, IdleIs DEF PruneEnds, EndBackup, TypeInv, disk, server
<1>12. CASE PruneFails
  BY <1>12, IdleIs DEF PruneFails, EndBackup, TypeInv, disk, server
<1>. QED  BY <1>3, <1>4, <1>5, <1>7, <1>8, <1>9, <1>10, <1>11, <1>12 DEF Backups

LEMMA ImportTyped ==
  ASSUME TypeInv, Entrypoint \/ DownloadCut \/ ImportFails
  PROVE  TypeInv'
<1>1. restore \in Import /\ restore.base \in Base /\ restore.base.rows \in SUBSET Rows /\ db \in Base
      /\ files \in Seq(Base)
  BY DEF TypeInv, Import, Base
<1>2. CASE SkipRestore
  <2>1. restore' \in Import
    BY <1>1, <1>2 DEF SkipRestore, Import
  <2>. QED  BY <1>2, <2>1 DEF SkipRestore, TypeInv, disk, server
<1>3. CASE Download
  <2>1. Newest \in Base
    BY <1>1, <1>3, NewestIs DEF Download
  <2>2. restore' \in Import
    BY <1>3, <2>1 DEF Download, Import
  <2>. QED  BY <1>3, <2>2 DEF Download, TypeInv, disk, server
<1>4. CASE DownloadCut
  <2>1. Newest \in Base
    BY <1>1, <1>4, NewestIs DEF DownloadCut
  <2>2. PICK n : restore' = [at |-> "rows", whole |-> FALSE,
                             base |-> [Newest EXCEPT !.rows = OldestOf(@, n)]]
    BY <1>4 DEF DownloadCut
  <2> DEFINE base == [Newest EXCEPT !.rows = OldestOf(@, n)]
  <2>3. OldestOf(Newest.rows, n) \in SUBSET Rows
    BY <2>1, ExportsAre DEF Base
  <2>4. base \in Base
    BY <2>1, <2>3 DEF Base
  <2> HIDE DEF base
  <2>5. restore' \in Import
    BY <2>2, <2>4 DEF Import, base
  <2>6. past' \in Past
    BY <1>4 DEF DownloadCut, TypeInv, Past
  <2>. QED  BY <1>4, <2>5, <2>6 DEF DownloadCut, TypeInv, disk, server
<1>5. CASE ImportRows
  <2> DEFINE next == OldestOf(restore.base.rows, BatchSize)
  <2>1. next \in SUBSET restore.base.rows /\ {Imported(row) : row \in next} \in SUBSET Rows
    BY <1>1, ExportsAre, ImportedEvents
  <2>2. /\ db' = [db EXCEPT !.rows = @ \cup {Imported(row) : row \in next}]
        /\ restore' = [restore EXCEPT !.base.rows = @ \ next,
                                      !.at = IF restore.base.rows = next THEN "settings" ELSE @]
    BY <1>5 DEF ImportRows
  <2> HIDE DEF next
  <2>3. db' \in Base
    BY <1>1, <2>1, <2>2 DEF Base
  <2>4. restore' \in Import
    BY <1>1, <2>2 DEF Import, Base
  <2>. QED  BY <1>5, <2>3, <2>4 DEF ImportRows, TypeInv, server
<1>6. CASE ImportSettings
  <2>1. restore' \in Import
    BY <1>6, WaitingIs DEF ImportSettings, Import
  <2>2. db' \in Base
    BY <1>1, <1>6 DEF ImportSettings, Base
  <2>3. past' \in Past
    <3>1. (past.partial /\ ~restore.whole) \in BOOLEAN
      OBVIOUS
    <3>. QED  BY <1>6, <3>1 DEF ImportSettings, TypeInv, Past
  <2>. QED  BY <1>6, <2>1, <2>2, <2>3 DEF ImportSettings, TypeInv, server
<1>7. CASE ImportFails
  <2>1. restore' \in Import
    BY <1>7, WaitingIs DEF ImportFails, Import
  <2>. QED  BY <1>7, <2>1 DEF ImportFails, TypeInv, disk, server
<1>. QED  BY <1>2, <1>3, <1>4, <1>5, <1>6, <1>7 DEF Entrypoint

LEMMA BootTyped ==
  ASSUME TypeInv, Restart \/ Replace
  PROVE  TypeInv'
<1>1. /\ queue' = << >> /\ batch' = {} /\ loop' \in Loop /\ due' = TRUE /\ restore' \in Import
      /\ UNCHANGED <<produced, cutoff, server>>
  BY IdleIs, WaitingIs DEF Restart, Replace, Boot, disk
<1>2. db' \in Base
  BY BasesAre DEF TypeInv, Restart, Replace, disk
<1>3. past' \in Past
  <2>1. CASE Restart
    BY <2>1, DroppedTyped, PastTyped DEF Restart, TypeInv
  <2>2. CASE Replace
    <3>1. EventsIn(db.rows) \in SUBSET (1..MaxEvents)
      BY EventsAre DEF TypeInv, Base
    <3> DEFINE gone == Dropped \cup EventsIn(db.rows)
    <3>2. gone \in SUBSET (1..MaxEvents) /\ (files # << >>) \in BOOLEAN
      BY <3>1, DroppedTyped
    <3>3. past' = [past EXCEPT !.lost = @ \cup gone, !.partial = files # << >>]
      BY <2>2 DEF Replace
    <3> HIDE DEF gone
    <3>. QED  BY <3>2, <3>3 DEF TypeInv, Past
  <2>. QED  BY <2>1, <2>2
<1>. QED  BY <1>1, <1>2, <1>3 DEF TypeInv, server

LEMMA TypeStep == ASSUME TypeInv, [Next]_vars PROVE TypeInv'
<1>1. CASE UNCHANGED vars
  BY <1>1 DEF vars, TypeInv
<1>. QED  BY <1>1, CollectorTyped, TimeTyped, BackupsTyped, ImportTyped, BootTyped
          DEF Next, Failures

-----------------------------------------------------------------------------
(* Every event is accounted for.                                           *)

Known == Dropped \cup EventsIn(db.rows) \cup past.expired \cup past.lost

LEMMA AccountKept ==
  ASSUME AccountInv, produced' = produced, Known \subseteq Known'
  PROVE  AccountInv'
BY DEF AccountInv, Known

\* Expiring rows leave a trace.
LEMMA ExpireKnown ==
  ASSUME TypeInv, NEW settings, db'.rows = db.rows \ Expiring(settings),
         past'.expired = past.expired \cup EventsIn(Expiring(settings))
  PROVE  EventsIn(db.rows) \subseteq EventsIn(db'.rows) \cup past'.expired
<1>1. db.rows \subseteq db'.rows \cup Expiring(settings)
  BY ExpiringTyped DEF TypeInv
<1>2. EventsIn(db.rows) \subseteq EventsIn(db'.rows) \cup EventsIn(Expiring(settings))
  BY <1>1, EventsAre
<1>. QED  BY <1>2

LEMMA ExpireStep ==
  ASSUME TypeInv, Retention \/ SaveSettings
  PROVE  /\ UNCHANGED <<produced, memory, server>>
         /\ EventsIn(db.rows) \subseteq EventsIn(db'.rows) \cup past'.expired
         /\ past.expired \subseteq past'.expired /\ past.risks \subseteq past'.risks
         /\ past'.covered = past.covered /\ past'.crowded = past.crowded
         /\ past'.lost = past.lost /\ past'.partial = past.partial
         /\ past.partial /\ past'.risks = {} /\ db'.settings.backup => db.settings.backup
<1>1. db \in Base /\ past \in Past
  BY DEF TypeInv
<1>2. CASE Retention
  <2>1. /\ db'.rows = db.rows \ Expiring(db.settings) /\ db'.settings = db.settings
        /\ past'.expired = past.expired \cup EventsIn(Expiring(db.settings))
        /\ past'.covered = past.covered /\ past'.crowded = past.crowded /\ past'.lost = past.lost
        /\ past'.partial = past.partial /\ past'.risks = past.risks
        /\ UNCHANGED <<produced, memory, server>>
    BY <1>1, <1>2 DEF Retention, Base, Past
  <2>. QED  BY <2>1, ExpireKnown
<1>3. CASE SaveSettings
  <2>1. PICK settings \in Choices :
          /\ db' = [db EXCEPT !.settings = settings, !.rows = @ \ Expiring(settings)]
          /\ past' = [past EXCEPT !.expired = @ \cup EventsIn(Expiring(settings)),
                                  !.risks = IF past.partial /\ settings.backup
                                            THEN @ \cup {"enabled before a restore"} ELSE @]
          /\ UNCHANGED <<produced, memory, cutoff, server>>
    BY <1>3 DEF SaveSettings
  <2>2. /\ db'.rows = db.rows \ Expiring(settings) /\ db'.settings = settings
        /\ past'.expired = past.expired \cup EventsIn(Expiring(settings))
        /\ past'.covered = past.covered /\ past'.crowded = past.crowded /\ past'.lost = past.lost
        /\ past'.partial = past.partial
        /\ past'.risks = IF past.partial /\ settings.backup
                         THEN past.risks \cup {"enabled before a restore"} ELSE past.risks
    BY <1>1, <2>1 DEF Base, Past
  <2>3. EventsIn(db.rows) \subseteq EventsIn(db'.rows) \cup past'.expired
    BY <2>2, ExpireKnown
  <2>4. past.risks \subseteq past'.risks
    BY <2>2
  <2>5. past.partial /\ past'.risks = {} => ~db'.settings.backup
    <3>1. CASE past.partial /\ settings.backup
      <4>1. "enabled before a restore" \in past'.risks
        BY <2>2, <3>1
      <4>. QED  BY <4>1
    <3>. QED  BY <2>2, <3>1
  <2>. QED  BY <2>1, <2>2, <2>3, <2>4, <2>5
<1>. QED  BY <1>2, <1>3

\* What is popped is still there.
LEMMA PopKeeps ==
  ASSUME TypeInv, Pop
  PROVE  Dropped \subseteq Dropped'
<1>1. PICK n \in 0..Len(queue) : /\ batch' = {queue[i] : i \in 1..n}
                                 /\ queue' = SubSeq(queue, n + 1, Len(queue))
  BY PopTakes
<1> DEFINE E == 1..MaxEvents
<1>2. \A i \in (n + 1)..Len(queue) : queue[i] \in E
  BY QueueIs
<1>3. n \in Nat /\ n + 1 \in Int /\ Len(queue) \in Int /\ Len(queue) \in Nat
  BY QueueIs
<1> HIDE DEF E
<1>4. /\ queue' \in Seq(E)
      /\ Len(queue') = IF n + 1 <= Len(queue) THEN Len(queue) - (n + 1) + 1 ELSE 0
      /\ \A i \in 1..(Len(queue) - (n + 1) + 1) : queue'[i] = queue[(n + 1) + i - 1]
  BY <1>1, <1>2, <1>3, SubSeqProperties
<1>5. DOMAIN queue' = 1..Len(queue') /\ DOMAIN queue = 1..Len(queue)
  <2>1. DOMAIN queue' = 1..Len(queue')
    BY <1>4
  <2>. QED  BY <2>1, QueueIs
<1>6. ASSUME NEW i \in DOMAIN queue PROVE queue[i] \in Dropped'
  <2>1. CASE i <= n
    <3>1. i \in 1..n
      BY <1>3, <1>5, <2>1
    <3>3. queue[i] \in batch'
      BY <1>1, <3>1
    <3>. QED  BY <3>3 DEF Dropped
  <2>2. CASE ~(i <= n)
    <3> DEFINE j == i - n
    <3>1. j \in 1..(Len(queue) - (n + 1) + 1) /\ (n + 1) + j - 1 = i /\ n + 1 <= Len(queue)
      BY <1>3, <1>5, <2>2
    <3>2. j \in DOMAIN queue' /\ queue'[j] = queue[i]
      BY <1>3, <1>4, <1>5, <3>1
    <3>. QED  BY <3>2 DEF Dropped
  <2>. QED  BY <2>1, <2>2
<1>7. batch = {}
  BY DEF Pop
<1>. QED  BY <1>6, <1>7 DEF Dropped

LEMMA AccountStep ==
  ASSUME TypeInv, AccountInv, [Next]_vars
  PROVE  AccountInv'
<1>1. past \in Past /\ db \in Base /\ restore \in Import
  BY DEF TypeInv
<1>2. ASSUME UNCHANGED <<produced, queue, batch>>, EventsIn(db.rows) \subseteq EventsIn(db'.rows),
             past'.expired = past.expired, past'.lost = past.lost
      PROVE  AccountInv'
  <2>1. Dropped' = Dropped
    BY <1>2 DEF Dropped
  <2>. QED  BY <1>2, <2>1, AccountKept DEF Known
<1>3. CASE Produce
  <2>1. UNCHANGED <<batch, db, past>> /\ queue' = Append(queue, produced + 1) /\ produced' = produced + 1
    BY <1>3 DEF Produce, disk
  <2>2. produced \in Nat /\ produced + 1 \in 1..MaxEvents
    BY <1>3, ConstantsAre DEF TypeInv, Produce
  <2>3. /\ DOMAIN queue' = 1..(Len(queue) + 1) /\ queue'[Len(queue) + 1] = produced + 1
        /\ \A i \in DOMAIN queue : queue'[i] = queue[i]
    <3> DEFINE E == 1..MaxEvents
    <3>1. queue \in Seq(E) /\ produced + 1 \in E
      BY <2>2 DEF TypeInv
    <3> HIDE DEF E
    <3>. QED  BY <2>1, <3>1
  <2>4. Dropped \cup {produced + 1} \subseteq Dropped'
    <3>1. DOMAIN queue \subseteq DOMAIN queue' /\ Len(queue) + 1 \in DOMAIN queue'
      BY <2>3, QueueIs
    <3>. QED  BY <2>1, <2>3, <3>1 DEF Dropped
  <2>5. \A event \in 1..produced' : event \in 1..produced \/ event = produced + 1
    BY <2>1, <2>2
  <2>. QED  BY <2>1, <2>4, <2>5 DEF AccountInv
<1>4. CASE Pop
  <2>1. UNCHANGED <<produced, db, past>>
    BY <1>4 DEF Pop, disk
  <2>. QED  BY <1>4, <2>1, PopKeeps, AccountKept DEF Known
<1>5. CASE InsertBatch
  <2>1. /\ batch' = {} /\ UNCHANGED <<produced, queue, past>>
        /\ db'.rows = db.rows \cup (batch \X {0})
    BY <1>1, <1>5 DEF InsertBatch, Base
  <2>2. EventsIn(db'.rows) = EventsIn(db.rows) \cup batch
    <3>1. EventsIn(db'.rows) = EventsIn(db.rows) \cup EventsIn(batch \X {0})
      BY <2>1, EventsAre
    <3>2. EventsIn(batch \X {0}) = batch
      BY EventsAre
    <3>. QED  BY <3>1, <3>2
  <2>. QED  BY <2>1, <2>2, AccountKept DEF Known, Dropped
<1>6. CASE InsertFails
  <2>1. /\ UNCHANGED <<produced, queue, db>> /\ batch' = {}
        /\ past'.lost = past.lost \cup batch /\ past'.expired = past.expired
    BY <1>1, <1>6 DEF InsertFails, Past, disk
  <2>. QED  BY <2>1, AccountKept DEF Known, Dropped
<1>7. CASE Retention \/ SaveSettings
  <2>1. /\ UNCHANGED <<produced, queue, batch>> /\ past'.lost = past.lost
        /\ past.expired \subseteq past'.expired
        /\ EventsIn(db.rows) \subseteq EventsIn(db'.rows) \cup past'.expired
    BY <1>7, ExpireStep DEF memory
  <2>. QED  BY <2>1, AccountKept DEF Known, Dropped
<1>8. CASE EventsAge \/ FilesAge \/ IntervalPasses
  BY <1>2, <1>8 DEF EventsAge, FilesAge, IntervalPasses, memory, disk
<1>9. CASE Backups \/ AnswerLost \/ BackupFails \/ PruneFails
  <2>1. UNCHANGED <<produced, queue, batch, db>>
    BY <1>9 DEF Backups, AnswerLost, BackupFails, PruneFails, BeginBackup, ExportEvents, ExportRest,
                Upload, PruneOne, PruneEnds, memory, disk
  <2>2. past'.expired = past.expired /\ past'.lost = past.lost
    BY <1>1, <1>9 DEF Backups, AnswerLost, BackupFails, PruneFails, BeginBackup, ExportEvents,
                      ExportRest, Upload, Store, PruneOne, PruneEnds, Past
  <2>. QED  BY <1>2, <2>1, <2>2
<1>10. CASE SkipRestore \/ Download \/ ImportFails \/ DownloadCut
  <2>1. UNCHANGED <<produced, queue, batch, db>>
    BY <1>10 DEF SkipRestore, Download, ImportFails, DownloadCut, disk
  <2>2. past'.expired = past.expired /\ past'.lost = past.lost
    BY <1>1, <1>10 DEF SkipRestore, Download, ImportFails, DownloadCut, Past
  <2>. QED  BY <1>2, <2>1, <2>2
<1>11. CASE ImportRows
  <2>1. UNCHANGED <<produced, queue, batch, past>> /\ db.rows \subseteq db'.rows
    BY <1>1, <1>11 DEF ImportRows, Base
  <2>. QED  BY <1>2, <2>1, EventsAre
<1>12. CASE ImportSettings
  <2>1. UNCHANGED <<produced, queue, batch>> /\ db'.rows = db.rows
        /\ past'.expired = past.expired /\ past'.lost = past.lost
    BY <1>1, <1>12 DEF ImportSettings, Base, Past
  <2>. QED  BY <1>2, <2>1
<1>13. CASE Restart
  <2>1. UNCHANGED <<produced, db>> /\ past'.lost = past.lost \cup Dropped
        /\ past'.expired = past.expired
    BY <1>1, <1>13 DEF Restart, disk, Past
  <2>. QED  BY <2>1, AccountKept DEF Known
<1>14. CASE Replace
  <2>1. produced' = produced /\ past'.lost = past.lost \cup Dropped \cup EventsIn(db.rows)
        /\ past'.expired = past.expired
    BY <1>1, <1>14 DEF Replace, Past
  <2>. QED  BY <2>1, AccountKept DEF Known
<1>15. CASE UNCHANGED vars
  BY <1>2, <1>15 DEF vars
<1>. QED  BY <1>3, <1>4, <1>5, <1>6, <1>7, <1>8, <1>9, <1>10, <1>11, <1>12, <1>13, <1>14, <1>15
          DEF Next, Collector, Failures, Time, Entrypoint

-----------------------------------------------------------------------------
(* The newest backup covers what one before it held.                       *)

Covers == FilesInv /\ BaseInv /\ ExportInv /\ ImportInv

\* The steps that leave the files and an import alone and take no row away
\* without a trace.
LEMMA CoverKept ==
  ASSUME Covers, files' = files, past'.covered = past.covered, past'.partial = past.partial,
         past.expired \subseteq past'.expired, past.crowded \subseteq past'.crowded,
         EventsIn(db.rows) \subseteq EventsIn(db'.rows) \cup past'.expired,
         past.partial => ~db'.settings.backup,
         \/ loop' = loop
         \/ loop'.at \in {"idle", "events"} /\ (past.partial => loop'.at = "idle"),
         loop'.at = "prune" => aged' < Len(files),
         restore' = restore \/ restore'.at \in {"wait", "done"}
  PROVE  Covers'
<1>1. BackedUp' = BackedUp /\ Excused \subseteq Excused'
  BY DEF BackedUp, Newest, Excused
<1>2. FilesInv'
  BY <1>1 DEF Covers, FilesInv
<1>3. BaseInv'
  <2>1. ~past'.partial => past'.covered \subseteq EventsIn(db'.rows) \cup Excused'
    BY <1>1 DEF Covers, BaseInv, Excused
  <2>2. past'.partial => ~db'.settings.backup /\ loop'.at = "idle"
    BY DEF Covers, BaseInv
  <2>. QED  BY <2>1, <2>2 DEF BaseInv
<1>4. ExportInv'
  <2>1. CASE loop' = loop
    <3>1. ASSUME loop.at \in {"rest", "upload"}
          PROVE  /\ past'.covered \subseteq EventsIn(loop.base.rows) \cup Excused'
                 /\ EventsIn(loop.base.rows) \subseteq EventsIn(db'.rows) \cup past'.expired
      BY <1>1, <3>1 DEF Covers, ExportInv
    <3>. QED  BY <2>1, <3>1 DEF ExportInv
  <2>2. CASE loop'.at \in {"idle", "events"}
    BY <2>2 DEF ExportInv
  <2>. QED  BY <2>1, <2>2
<1>5. ImportInv'
  <2>1. CASE restore' = restore
    <3>1. restore.at = "settings" => restore.base.rows = {}
      BY DEF Covers, ImportInv
    <3>2. ASSUME past.partial, restore.at \in {"rows", "settings"}
          PROVE  /\ restore.whole
                 /\ BackedUp' \subseteq EventsIn(db'.rows) \cup EventsIn(restore.base.rows)
                                        \cup past'.expired
      BY <1>1, <3>2 DEF Covers, ImportInv
    <3>. QED  BY <2>1, <3>1, <3>2 DEF ImportInv
  <2>2. CASE restore'.at \in {"wait", "done"}
    BY <2>2 DEF ImportInv
  <2>. QED  BY <2>1, <2>2
<1>. QED  BY <1>2, <1>3, <1>4, <1>5 DEF Covers

\* The collector, time and the client.
LEMMA CollectorCovers ==
  ASSUME TypeInv, Covers, past'.risks = {},
         Produce \/ Collector \/ InsertFails \/ Time \/ SaveSettings
  PROVE  Covers'
<1>1. past \in Past /\ db \in Base
  BY DEF TypeInv
<1>2. loop.at = "prune" => aged < Len(files)
  BY DEF Covers, FilesInv
<1>3. past.partial => ~db.settings.backup
  BY DEF Covers, BaseInv
<1>4. CASE Produce \/ Pop \/ IntervalPasses \/ EventsAge
  <2>1. UNCHANGED <<files, aged, past, db, loop, restore>>
    BY <1>4 DEF Produce, Pop, IntervalPasses, EventsAge, memory, server, disk
  <2>. QED  BY <1>2, <1>3, <2>1, CoverKept
<1>5. CASE InsertBatch
  <2>1. UNCHANGED <<files, aged, past, loop, restore>> /\ db'.rows = db.rows \cup (batch \X {0})
        /\ db'.settings = db.settings
    BY <1>1, <1>5 DEF InsertBatch, server, Base
  <2>2. EventsIn(db.rows) \subseteq EventsIn(db'.rows)
    BY <2>1, EventsAre
  <2>. QED  BY <1>2, <1>3, <2>1, <2>2, CoverKept
<1>6. CASE InsertFails
  <2>1. UNCHANGED <<files, aged, db, loop, restore>>
    BY <1>6 DEF InsertFails, server, disk
  <2>2. /\ past'.covered = past.covered /\ past'.partial = past.partial
        /\ past'.expired = past.expired /\ past'.crowded = past.crowded
    BY <1>1, <1>6 DEF InsertFails, Past
  <2>. QED  BY <1>2, <1>3, <2>1, <2>2, CoverKept
<1>7. CASE FilesAge
  <2>1. UNCHANGED <<files, past, db, loop, restore>> /\ loop.at # "prune"
    BY <1>7 DEF FilesAge, memory, disk
  <2>. QED  BY <1>3, <2>1, CoverKept
<1>8. CASE Retention \/ SaveSettings
  <2>1. UNCHANGED <<files, aged, loop, restore>> /\ past.expired \subseteq past'.expired
        /\ past'.covered = past.covered /\ past'.crowded = past.crowded
        /\ past'.partial = past.partial
        /\ EventsIn(db.rows) \subseteq EventsIn(db'.rows) \cup past'.expired
    BY <1>8, ExpireStep DEF memory, server
  <2>2. past.partial => ~db'.settings.backup
    BY <1>3, <1>8, ExpireStep
  <2>. QED  BY <1>2, <2>1, <2>2, CoverKept
<1>. QED  BY <1>4, <1>5, <1>6, <1>7, <1>8 DEF Collector, Time

\* The backup loop. While it is at work no restore is outstanding.
LEMMA BackupsCovers ==
  ASSUME TypeInv, Covers, Backups \/ AnswerLost \/ BackupFails \/ PruneFails
  PROVE  Covers'
<1>1. /\ past \in Past /\ db \in Base /\ files \in Seq(Base) /\ Len(files) \in Nat
      /\ aged \in 0..Len(files) /\ loop \in Loop
  BY DEF TypeInv
<1>2. loop.at = "prune" => aged < Len(files)
  BY DEF Covers, FilesInv
<1>3. past.partial => ~db.settings.backup /\ loop.at = "idle"
  BY DEF Covers, BaseInv
<1>4. CASE BeginBackup \/ BackupFails \/ PruneEnds \/ PruneFails
  <2>1. UNCHANGED <<files, aged, past, db, restore>>
    BY <1>4 DEF BeginBackup, BackupFails, PruneEnds, PruneFails, server, disk
  <2>2. loop'.at \in {"idle", "events"} /\ (past.partial => loop'.at = "idle")
    BY <1>3, <1>4, IdleIs DEF BeginBackup, BackupFails, PruneEnds, PruneFails, EndBackup
  <2>. QED  BY <1>3, <2>1, <2>2, CoverKept
<1>5. CASE ExportEvents
  <2>1. ~past.partial /\ past.covered \subseteq EventsIn(db.rows) \cup Excused
    BY <1>3, <1>5 DEF ExportEvents, Covers, BaseInv
  <2>2. UNCHANGED <<files, aged, db, restore>>
    BY <1>5 DEF ExportEvents, server, disk
  <2> DEFINE left == EventsIn(db.rows \ Exported(db.rows))
  <2>3. /\ past'.covered = past.covered /\ past'.partial = past.partial
        /\ past'.expired = past.expired /\ past'.crowded = past.crowded \cup left
    BY <1>1, <1>5 DEF ExportEvents, Past
  <2>4. loop'.at = "rest" /\ loop'.base.rows = Exported(db.rows)
    <3>1. loop.base \in Base
      BY <1>1 DEF Loop
    <3>2. loop \in [at : {"idle", "events", "rest"}, base : Base]
      BY <1>1, <1>5 DEF ExportEvents, Loop
    <3>. QED  BY <1>5, <3>1, <3>2 DEF ExportEvents, Base
  <2>5. /\ Exported(db.rows) \subseteq db.rows
        /\ db.rows \subseteq Exported(db.rows) \cup (db.rows \ Exported(db.rows))
    BY <1>1, ExportsAre DEF Base
  <2>6. EventsIn(Exported(db.rows)) \subseteq EventsIn(db.rows)
    BY <2>5, EventsAre
  <2>7. EventsIn(db.rows) \subseteq EventsIn(Exported(db.rows)) \cup left
    BY <2>5, EventsAre
  <2> HIDE DEF left
  <2>8. BackedUp' = BackedUp /\ Excused' = Excused \cup left
    BY <2>2, <2>3 DEF BackedUp, Newest, Excused
  <2>9. FilesInv'
    BY <2>2, <2>3, <2>4, <2>8 DEF FilesInv, Covers
  <2>10. BaseInv'
    BY <2>1, <2>2, <2>3, <2>8 DEF BaseInv
  <2>11. ExportInv'
    BY <2>1, <2>2, <2>3, <2>4, <2>6, <2>7, <2>8 DEF ExportInv
  <2>12. ImportInv'
    BY <2>1, <2>2, <2>3 DEF ImportInv, Covers
  <2>. QED  BY <2>9, <2>10, <2>11, <2>12 DEF Covers
<1>6. CASE ExportRest
  <2>1. ~past.partial
    BY <1>3, <1>6 DEF ExportRest
  <2>2. UNCHANGED <<files, aged, db, restore, past>>
    BY <1>6 DEF ExportRest, server, disk
  <2>3. loop'.at = "upload" /\ loop'.base.rows = loop.base.rows
    <3>1. loop.base \in Base
      BY <1>1 DEF Loop
    <3>. QED  BY <1>6, <3>1 DEF ExportRest, Base
  <2>4. BackedUp' = BackedUp /\ Excused' = Excused
    BY <2>2 DEF BackedUp, Newest, Excused
  <2>5. FilesInv'
    BY <2>2, <2>3, <2>4 DEF FilesInv, Covers
  <2>6. BaseInv'
    BY <2>1, <2>2, <2>4 DEF BaseInv, Covers
  <2>7. ExportInv'
    BY <1>6, <2>2, <2>3, <2>4 DEF ExportInv, ExportRest, Covers
  <2>8. ImportInv'
    BY <2>1, <2>2 DEF ImportInv, Covers
  <2>. QED  BY <2>5, <2>6, <2>7, <2>8 DEF Covers
<1>7. CASE Upload \/ AnswerLost
  <2>1. loop.at = "upload" /\ Store /\ UNCHANGED <<aged, db, restore>>
    BY <1>7 DEF Upload, AnswerLost, disk
  <2>2. ~past.partial
    BY <1>3, <2>1
  <2> DEFINE kept == EventsIn(loop.base.rows)
  <2>3. past.covered \subseteq kept \cup Excused /\ kept \subseteq EventsIn(db.rows) \cup past.expired
    BY <2>1 DEF ExportInv, Covers
  <2>4. past.covered \subseteq EventsIn(db.rows) \cup Excused
    BY <2>2 DEF BaseInv, Covers
  <2>5. /\ past'.covered = past.covered \cup kept /\ past'.partial = past.partial
        /\ past'.expired = past.expired /\ past'.crowded = past.crowded
    BY <1>1, <2>1 DEF Store, Past
  <2>6. BackedUp' = kept /\ Len(files') = Len(files) + 1
    <3>1. loop.base \in Base
      BY <1>1 DEF Loop
    <3>2. files' = Append(files, loop.base)
      BY <2>1 DEF Store
    <3>3. Len(files') = Len(files) + 1 /\ files'[Len(files')] = loop.base /\ files' # << >>
      BY <1>1, <3>1, <3>2
    <3>. QED  BY <3>3 DEF BackedUp, Newest
  <2>7. loop'.at \in {"prune", "idle"}
    <3>1. loop \in [at : {"upload", "prune"}, base : Base, prune : BOOLEAN]
      BY <1>1, <2>1 DEF Loop
    <3>. QED  BY <1>7, <3>1, IdleIs DEF Upload, AnswerLost
  <2> HIDE DEF kept
  <2>8. Excused' = Excused
    BY <2>5 DEF Excused
  <2>9. FilesInv'
    <3>1. past'.covered \subseteq BackedUp' \cup Excused'
      BY <2>3, <2>5, <2>6, <2>8
    <3>2. aged' < Len(files')
      BY <1>1, <2>1, <2>6
    <3>. QED  BY <3>1, <3>2 DEF FilesInv
  <2>10. BaseInv'
    <3>1. past'.covered \subseteq EventsIn(db'.rows) \cup Excused'
      BY <2>1, <2>3, <2>4, <2>5, <2>8 DEF Excused
    <3>. QED  BY <2>2, <2>5, <3>1 DEF BaseInv
  <2>11. ExportInv'
    BY <2>7 DEF ExportInv
  <2>12. ImportInv'
    BY <2>1, <2>2, <2>5 DEF ImportInv, Covers
  <2>. QED  BY <2>9, <2>10, <2>11, <2>12 DEF Covers
<1>8. CASE PruneOne
  <2>1. /\ files' = Tail(files) /\ aged' = aged - 1 /\ aged > 0 /\ aged < Len(files)
        /\ loop.at = "prune" /\ UNCHANGED <<db, loop, restore, past>>
    BY <1>2, <1>8 DEF PruneOne, memory, disk
  <2>2. ~past.partial
    BY <1>3, <2>1
  <2>3. BackedUp' = BackedUp /\ Len(files') = Len(files) - 1
    <3>1. files # << >> /\ Len(files) > 1
      BY <1>1, <2>1
    <3>2. Tail(files) \in Seq(Base) /\ Len(Tail(files)) = Len(files) - 1
      BY <1>1, <3>1, HeadTailProperties
    <3>5. Len(files') = Len(files) - 1 /\ files' # << >>
      <4>1. Len(files') = Len(files) - 1 /\ Len(files') > 0
        BY <1>1, <2>1, <3>1, <3>2
      <4>2. Len(<< >>) = 0
        OBVIOUS
      <4>. QED  BY <4>1, <4>2
    <3> DEFINE n == Len(files) - 1
    <3>3. n \in 1..(Len(files) - 1) /\ n + 1 = Len(files)
      BY <1>1, <3>1
    <3>4. files'[n] = files[n + 1]
      BY <1>1, <2>1, <3>1, <3>3, HeadTailProperties
    <3>. QED  BY <3>1, <3>5, <3>3, <3>4 DEF BackedUp, Newest
  <2>4. Excused' = Excused
    BY <2>1 DEF Excused
  <2>5. FilesInv'
    <3>1. aged' < Len(files')
      BY <1>1, <2>1, <2>3
    <3>. QED  BY <2>1, <2>3, <2>4, <3>1 DEF FilesInv, Covers
  <2>6. BaseInv'
    BY <2>1, <2>2, <2>4 DEF BaseInv, Covers
  <2>7. ExportInv'
    BY <2>1 DEF ExportInv
  <2>8. ImportInv'
    BY <2>1, <2>2 DEF ImportInv, Covers
  <2>. QED  BY <2>5, <2>6, <2>7, <2>8 DEF Covers
<1>. QED  BY <1>4, <1>5, <1>6, <1>7, <1>8 DEF Backups

\* The restore.
LEMMA ImportCovers ==
  ASSUME TypeInv, Covers, past'.risks = {}, Entrypoint \/ DownloadCut \/ ImportFails
  PROVE  Covers'
<1>1. /\ past \in Past /\ db \in Base /\ files \in Seq(Base) /\ restore \in Import
      /\ restore.base \in Base /\ restore.base.rows \in SUBSET Rows
  BY DEF TypeInv, Import, Base
<1>2. loop.at = "prune" => aged < Len(files)
  BY DEF Covers, FilesInv
<1>3. past.partial => ~db.settings.backup /\ loop.at = "idle"
  BY DEF Covers, BaseInv
<1>4. UNCHANGED <<files, aged, loop>>
  BY DEF Entrypoint, SkipRestore, Download, DownloadCut, ImportRows, ImportSettings, ImportFails, server
<1>5. BackedUp' = BackedUp
  BY <1>4 DEF BackedUp, Newest
<1>6. CASE SkipRestore \/ ImportFails
  <2>1. UNCHANGED <<past, db>>
    BY <1>6 DEF SkipRestore, ImportFails, disk
  <2>2. restore'.at \in {"wait", "done"}
    BY <1>1, <1>6, WaitingIs DEF SkipRestore, ImportFails, Import, Waiting
  <2>. QED  BY <1>2, <1>3, <1>4, <2>1, <2>2, CoverKept
<1>7. ASSUME UNCHANGED <<past, db>> PROVE FilesInv' /\ BaseInv' /\ ExportInv'
  <2>1. Excused' = Excused
    BY <1>7 DEF Excused
  <2>2. FilesInv'
    BY <1>4, <1>5, <1>7, <2>1 DEF FilesInv, Covers
  <2>3. BaseInv'
    BY <1>4, <1>7, <2>1 DEF BaseInv, Covers
  <2>4. ExportInv'
    BY <1>4, <1>7, <2>1 DEF ExportInv, Covers
  <2>. QED  BY <2>2, <2>3, <2>4
<1>8. CASE Download
  <2>1. /\ restore'.at = "rows" /\ restore'.base = Newest /\ restore'.whole = TRUE /\ files # << >>
        /\ UNCHANGED <<past, db>>
    BY <1>8 DEF Download, disk
  <2>2. BackedUp' = EventsIn(restore'.base.rows)
    BY <1>5, <2>1 DEF BackedUp
  <2>3. ImportInv'
    BY <2>1, <2>2 DEF ImportInv
  <2>. QED  BY <1>7, <2>1, <2>3 DEF Covers
<1>9. CASE DownloadCut
  <2>1. UNCHANGED db /\ restore'.at = "rows"
    <3>1. \E base : restore' = [at |-> "rows", whole |-> FALSE, base |-> base]
      BY <1>9 DEF DownloadCut
    <3>2. UNCHANGED db
      BY <1>9 DEF DownloadCut, disk
    <3>. QED  BY <3>1, <3>2
  <2>2. past' = [past EXCEPT !.risks = IF past.partial THEN @ \cup {"download cut short"} ELSE @]
    BY <1>9 DEF DownloadCut
  <2>3. ~past.partial
    <3>1. ASSUME past.partial PROVE FALSE
      <4>1. past'.risks = past.risks \cup {"download cut short"}
        BY <1>1, <2>2, <3>1 DEF Past
      <4>. QED  BY <4>1
    <3>. QED  BY <3>1
  <2>4. past' = past
    BY <1>1, <2>2, <2>3 DEF Past
  <2>5. ImportInv'
    BY <2>1, <2>3, <2>4 DEF ImportInv
  <2>. QED  BY <1>7, <2>1, <2>4, <2>5 DEF Covers
<1>10. CASE ImportRows
  <2> DEFINE next == OldestOf(restore.base.rows, BatchSize)
             brought == {Imported(row) : row \in next}
             rest == restore.base.rows \ next
  <2>1. next \subseteq restore.base.rows /\ EventsIn(brought) = EventsIn(next)
    BY <1>1, ExportsAre, ImportedEvents
  <2>2. /\ UNCHANGED past /\ db' = [db EXCEPT !.rows = @ \cup brought]
        /\ restore' = [restore EXCEPT !.base.rows = @ \ next,
                                      !.at = IF restore.base.rows = next THEN "settings" ELSE @]
        /\ restore.at = "rows"
    BY <1>10 DEF ImportRows
  <2>3. db'.rows = db.rows \cup brought /\ db'.settings = db.settings
    BY <1>1, <2>2 DEF Base
  <2>4. /\ restore'.base.rows = rest /\ restore'.whole = restore.whole
        /\ restore'.at \in {"rows", "settings"} /\ (restore'.at = "settings" => restore.base.rows = next)
    BY <1>1, <2>2 DEF Import, Base
  <2>5. EventsIn(db'.rows) = EventsIn(db.rows) \cup EventsIn(next)
    <3>1. EventsIn(db'.rows) = EventsIn(db.rows) \cup EventsIn(brought)
      BY <2>3, EventsAre
    <3>. QED  BY <2>1, <3>1
  <2>6. EventsIn(restore.base.rows) \subseteq EventsIn(next) \cup EventsIn(rest)
    <3>1. restore.base.rows \subseteq next \cup rest
      OBVIOUS
    <3>. QED  BY <3>1, EventsAre
  <2>7. restore'.at = "settings" => rest = {}
    BY <2>4
  <2> HIDE DEF next, brought, rest
  <2>8. Excused' = Excused
    BY <2>2 DEF Excused
  <2>9. FilesInv'
    BY <1>4, <1>5, <2>2, <2>8 DEF FilesInv, Covers
  <2>10. BaseInv'
    BY <1>3, <1>4, <2>2, <2>3, <2>5, <2>8 DEF BaseInv, Covers
  <2>11. ExportInv'
    BY <1>4, <2>2, <2>5, <2>8 DEF ExportInv, Covers
  <2>12. ImportInv'
    BY <1>5, <2>2, <2>4, <2>5, <2>6, <2>7 DEF ImportInv, Covers
  <2>. QED  BY <2>9, <2>10, <2>11, <2>12 DEF Covers
<1>11. CASE ImportSettings
  <2>1. restore.at = "settings" /\ db'.rows = db.rows /\ restore'.at = "done"
    BY <1>1, <1>11, WaitingIs DEF ImportSettings, Base, Import
  <2>2. /\ past'.covered = past.covered /\ past'.expired = past.expired
        /\ past'.crowded = past.crowded /\ past'.partial = (past.partial /\ ~restore.whole)
    BY <1>1, <1>11 DEF ImportSettings, Past
  <2>3. ~past'.partial /\ past.covered \subseteq EventsIn(db.rows) \cup Excused
    <3>1. CASE past.partial
      <4>1. /\ restore.whole /\ restore.base.rows = {}
            /\ BackedUp \subseteq EventsIn(db.rows) \cup EventsIn({}) \cup past.expired
        BY <2>1, <3>1 DEF Covers, ImportInv
      <4>2. EventsIn({}) = {}
        BY DEF EventsIn
      <4>3. past.covered \subseteq BackedUp \cup Excused
        BY DEF Covers, FilesInv
      <4>4. ~past'.partial
        BY <2>2, <4>1
      <4>. QED  BY <4>1, <4>2, <4>3, <4>4 DEF Excused
    <3>2. CASE ~past.partial
      BY <2>2, <3>2 DEF Covers, BaseInv
    <3>. QED  BY <3>1, <3>2
  <2>4. Excused' = Excused
    BY <2>2 DEF Excused
  <2>5. FilesInv'
    BY <1>4, <1>5, <2>2, <2>4 DEF FilesInv, Covers
  <2>6. BaseInv'
    BY <2>1, <2>2, <2>3, <2>4 DEF BaseInv
  <2>7. ExportInv'
    BY <1>4, <2>1, <2>2, <2>4 DEF ExportInv, Covers
  <2>8. ImportInv'
    BY <2>1 DEF ImportInv
  <2>. QED  BY <2>5, <2>6, <2>7, <2>8 DEF Covers
<1>. QED  BY <1>6, <1>8, <1>9, <1>10, <1>11 DEF Entrypoint

\* A container that starts: with its database nothing changes, without one
\* backups are off.
LEMMA BootCovers ==
  ASSUME TypeInv, Covers, Restart \/ Replace
  PROVE  Covers'
<1>1. past \in Past /\ files \in Seq(Base)
  BY DEF TypeInv
<1>2. UNCHANGED <<files, aged>> /\ loop'.at = "idle" /\ restore'.at = "wait"
  BY IdleIs, WaitingIs DEF Restart, Replace, Boot, server
<1>3. CASE Restart
  <2>1. db' = db
    BY <1>3 DEF Restart, disk
  <2>2. /\ past'.covered = past.covered /\ past'.partial = past.partial
        /\ past'.expired = past.expired /\ past'.crowded = past.crowded
    BY <1>1, <1>3 DEF Restart, Past
  <2>3. past.partial => ~db'.settings.backup
    BY <2>1 DEF Covers, BaseInv
  <2>. QED  BY <1>2, <2>1, <2>2, <2>3, CoverKept
<1>4. CASE Replace
  <2>1. db' = EmptyBase /\ db'.settings.backup = FALSE
    BY <1>4, BasesAre DEF Replace
  <2>2. /\ past'.covered = past.covered /\ past'.partial = (files # << >>)
        /\ past'.expired = past.expired /\ past'.crowded = past.crowded
    BY <1>1, <1>4 DEF Replace, Past
  <2>3. BackedUp' = BackedUp /\ Excused' = Excused
    BY <1>2, <2>2 DEF BackedUp, Newest, Excused
  <2>4. past.covered \subseteq BackedUp \cup Excused
    BY DEF Covers, FilesInv
  <2>5. FilesInv'
    BY <1>2, <2>2, <2>3, <2>4 DEF FilesInv
  <2>6. BaseInv'
    <3>1. ~past'.partial => BackedUp = {}
      BY <2>2 DEF BackedUp
    <3>. QED  BY <1>2, <2>1, <2>2, <2>3, <2>4, <3>1 DEF BaseInv
  <2>7. ExportInv'
    BY <1>2 DEF ExportInv
  <2>8. ImportInv'
    BY <1>2 DEF ImportInv
  <2>. QED  BY <2>5, <2>6, <2>7, <2>8 DEF Covers
<1>. QED  BY <1>3, <1>4

\* A risk that was taken stays taken.
LEMMA RisksGrow ==
  ASSUME TypeInv, [Next]_vars
  PROVE  past.risks \subseteq past'.risks
<1>1. past \in Past
  BY DEF TypeInv
<1>2. CASE Retention \/ SaveSettings
  BY <1>2, ExpireStep
<1>3. CASE DownloadCut
  BY <1>1, <1>3 DEF DownloadCut, Past
<1>4. CASE Produce \/ Collector \/ InsertFails \/ EventsAge \/ FilesAge \/ IntervalPasses
  BY <1>1, <1>4 DEF Produce, Collector, Pop, InsertBatch, InsertFails, EventsAge, FilesAge,
                    IntervalPasses, Past
<1>5. CASE Backups \/ AnswerLost \/ BackupFails \/ PruneFails
  BY <1>1, <1>5 DEF Backups, BeginBackup, ExportEvents, ExportRest, Upload, PruneOne, PruneEnds,
                    Store, AnswerLost, BackupFails, PruneFails, Past
<1>6. CASE Entrypoint \/ ImportFails \/ Restart \/ Replace
  BY <1>1, <1>6 DEF Entrypoint, SkipRestore, Download, ImportRows, ImportSettings, ImportFails,
                    Restart, Replace, Past
<1>7. CASE UNCHANGED vars
  BY <1>7 DEF vars
<1>. QED  BY <1>2, <1>3, <1>4, <1>5, <1>6, <1>7 DEF Next, Failures, Time

LEMMA CoverStep ==
  ASSUME TypeInv, CoverInv, [Next]_vars
  PROVE  CoverInv'
<1>1. SUFFICES ASSUME past'.risks = {} PROVE Covers'
  BY DEF CoverInv, Covers
<1>2. past.risks = {}
  BY <1>1, RisksGrow
<1>3. Covers
  BY <1>2 DEF CoverInv, Covers
<1>4. CASE UNCHANGED vars
  BY <1>3, <1>4 DEF vars, Covers, FilesInv, BaseInv, ExportInv, ImportInv, Excused, BackedUp, Newest
<1>5. CASE Produce \/ Collector \/ InsertFails \/ Time \/ SaveSettings
  BY <1>1, <1>3, <1>5, CollectorCovers
<1>6. CASE Backups \/ AnswerLost \/ BackupFails \/ PruneFails
  BY <1>3, <1>6, BackupsCovers
<1>7. CASE Entrypoint \/ DownloadCut \/ ImportFails
  BY <1>1, <1>3, <1>7, ImportCovers
<1>8. CASE Restart \/ Replace
  BY <1>3, <1>8, BootCovers
<1>. QED  BY <1>4, <1>5, <1>6, <1>7, <1>8 DEF Next, Failures

-----------------------------------------------------------------------------
LEMMA InitInv == Init => TypeInv /\ AccountInv /\ CoverInv
<1>1. SUFFICES ASSUME Init PROVE TypeInv /\ AccountInv /\ CoverInv
  OBVIOUS
<1>2. past \in Past
  BY <1>1 DEF Init, Past
<1>3. TypeInv
  BY <1>1, <1>2, ConstantsAre, BasesAre, IdleIs, WaitingIs DEF Init, TypeInv
<1>4. AccountInv
  BY <1>1 DEF Init, AccountInv
<1>5. CoverInv
  BY <1>1, BasesAre, IdleIs, WaitingIs
     DEF Init, CoverInv, FilesInv, BaseInv, ExportInv, ImportInv
<1>. QED  BY <1>3, <1>4, <1>5

LEMMA Invariant == Spec => [](TypeInv /\ AccountInv /\ CoverInv)
<1>1. Init => TypeInv /\ AccountInv /\ CoverInv
  BY InitInv
<1>2. TypeInv /\ AccountInv /\ CoverInv /\ [Next]_vars => (TypeInv /\ AccountInv /\ CoverInv)'
  BY TypeStep, AccountStep, CoverStep
<1>. QED  BY <1>1, <1>2, PTL DEF Spec

\* Every variable keeps its type, and a row's source is never masked more
\* often than masking changes it (imported events are hashed again).
THEOREM TypeCorrect == Spec => []TypeOK
<1>1. TypeInv => TypeOK
  BY DEF TypeInv, TypeOK, Base, Rows, Loop, Import
<1>. QED  BY <1>1, Invariant, PTL

\* An event the usage queue was given is waiting, stored, expired or among
\* those a failed insert, a restart or a lost database took; and however often
\* backups are restored over their own database, an event has at most one row
\* for each time its source can be masked.
THEOREM EveryEventAccounted == Spec => []Accounted
<1>1. TypeInv /\ AccountInv => Accounted
  <2>1. SUFFICES ASSUME TypeInv, AccountInv PROVE Accounted
    OBVIOUS
  <2>2. db.rows \in SUBSET Rows
    BY <2>1 DEF TypeInv, Base
  <2>3. \A event \in 1..MaxEvents :
          Cardinality({row \in db.rows : row[1] = event}) <= 1 + Masks[event]
    BY <2>2, CopiesAreFew
  <2>. QED  BY <2>1, <2>3 DEF Accounted, AccountInv
<1>. QED  BY <1>1, Invariant, PTL

\* As long as nobody turns backups on before a lost database is filled again
\* and no download is cut short, the newest file on the WebDAV server holds
\* what any file before it held, but for expired events and those beyond the
\* limit of an export.
THEOREM NewestBackupCovers == Spec => []BackupsCover
<1>1. CoverInv => BackupsCover
  BY DEF CoverInv, FilesInv, BackupsCover, Excused
<1>. QED  BY <1>1, Invariant, PTL
=============================================================================
