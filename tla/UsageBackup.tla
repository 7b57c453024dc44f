----------------------------- MODULE UsageBackup -----------------------------
(* How usage data outlives a container: the collector that drains the usage   *)
(* queue, the nightly retention, the loop that uploads exports to WebDAV and  *)
(* prunes old ones, and the restore that entrypoint.sh runs whenever the      *)
(* container starts, with or without the database of the one before.          *)
(*                                                                            *)
(* Events are numbered in the order of their timestamps. A row is an event    *)
(* and how often its source had been masked when the row's hash was built:    *)
(* the hash is over the source, an export holds the masked source, and an     *)
(* import builds the hash again from what the export holds.                   *)
EXTENDS Naturals, Sequences, FiniteSets

CONSTANTS
  MaxEvents,   \* bound: events handed to the queue
  Masks,       \* of an event: how often masking its source changes it
  Limit,       \* rows of an export (RecentEvents' default)
  BatchSize,   \* events of one insert
  Choices,     \* settings a client may save
  MaxFiles,    \* bound: backups kept on the WebDAV server
  Scenarios    \* bounds of a behaviour: edits, failures, restarts, replacements

Settings == [backup: BOOLEAN, prune: BOOLEAN, expire: BOOLEAN]

ASSUME BackupAssumption ==
  /\ MaxEvents \in Nat \ {0} /\ Masks \in [1..MaxEvents -> Nat]
  /\ Limit \in Nat \ {0} /\ BatchSize \in Nat \ {0} /\ MaxFiles \in Nat \ {0}
  /\ Choices \subseteq Settings
  /\ Scenarios \subseteq [edits: Nat, failures: Nat, restarts: Nat, replacements: Nat]

VARIABLES
  produced,  \* events handed to the queue so far
  queue,     \* the in-memory usage queue
  batch,     \* events popped and not yet inserted
  db,        \* the database: its rows and the settings
  cutoff,    \* events up to here are older than the retention days
  files,     \* the exports on the WebDAV server, oldest first
  aged,      \* how many of them are older than the backup retention days
  loop,      \* the backup loop
  due,       \* lastBackup is zero or an interval ago
  restore,   \* entrypoint.sh and the import it asks for
  budget,    \* what is left of the scenario
  past       \* history: what the properties compare with

vars == <<produced, queue, batch, db, cutoff, files, aged, loop, due, restore, budget, past>>
memory == <<queue, batch, loop, due, restore>>
disk == <<db, cutoff>>
server == <<files, aged>>

EventsIn(rows) == {row[1] : row \in rows}
Newest == files[Len(files)]
BackedUp == IF files = <<>> THEN {} ELSE EventsIn(Newest.rows)
Spend(kind) == budget[kind] > 0 /\ budget' = [budget EXCEPT ![kind] = @ - 1]

Older(row, other) == row[1] < other[1] \/ (row[1] = other[1] /\ row[2] < other[2])

\* The newest n of some rows, as RecentEvents selects them, and the oldest n,
\* as an import, which reads an export's oldest row first, takes them.
NewestOf(rows, n) == {row \in rows : Cardinality({other \in rows : Older(row, other)}) < n}
OldestOf(rows, n) == {row \in rows : Cardinality({other \in rows : Older(other, row)}) < n}
Exported(rows) == NewestOf(rows, Limit)

\* Mutant of Imported: masking a masked source changes it every time
Imported_NeverSettles(row) == <<row[1], row[2] + 1>>

\* The row an exported row becomes: its source is masked once more.
Imported(row) == <<row[1], IF row[2] < Masks[row[1]] THEN row[2] + 1 ELSE row[2]>>

\* Mutant of DefaultSettings: backups are on without being asked for
DefaultSettings_On == [backup |-> TRUE, prune |-> FALSE, expire |-> FALSE]

DefaultSettings == [backup |-> FALSE, prune |-> FALSE, expire |-> FALSE]
EmptyBase == [rows |-> {}, settings |-> DefaultSettings]
Idle == [at |-> "idle", base |-> EmptyBase]
Waiting == [at |-> "wait", base |-> EmptyBase, whole |-> TRUE]

Init ==
  /\ produced = 0 /\ queue = <<>> /\ batch = {}
  /\ db = EmptyBase /\ cutoff = 0
  /\ files = <<>> /\ aged = 0
  /\ loop = Idle /\ due = TRUE /\ restore = Waiting
  /\ budget \in Scenarios
  /\ past = [covered |-> {}, expired |-> {}, crowded |-> {}, lost |-> {},
             partial |-> FALSE, risks |-> {}]

-----------------------------------------------------------------------------
(* The collector *)

Produce ==
  /\ produced < MaxEvents
  /\ produced' = produced + 1
  /\ queue' = Append(queue, produced + 1)
  /\ UNCHANGED <<batch, loop, due, restore, disk, server, budget, past>>

Pop ==
  /\ batch = {} /\ queue # <<>>
  /\ LET n == IF Len(queue) < BatchSize THEN Len(queue) ELSE BatchSize
     IN /\ batch' = {queue[i] : i \in 1..n}
        /\ queue' = SubSeq(queue, n + 1, Len(queue))
  /\ UNCHANGED <<produced, loop, due, restore, disk, server, budget, past>>

InsertBatch ==
  /\ batch # {}
  /\ db' = [db EXCEPT !.rows = @ \cup (batch \X {0})]
  /\ batch' = {}
  /\ UNCHANGED <<produced, queue, loop, due, restore, cutoff, server, budget, past>>

\* The error is logged; the events are in the queue no more.
InsertFails ==
  /\ batch # {} /\ Spend("failures")
  /\ past' = [past EXCEPT !.lost = @ \cup batch]
  /\ batch' = {}
  /\ UNCHANGED <<produced, queue, loop, due, restore, disk, server>>

-----------------------------------------------------------------------------
(* Time, retention and the client *)

EventsAge ==
  /\ cutoff < produced
  /\ cutoff' = cutoff + 1
  /\ UNCHANGED <<produced, memory, db, server, budget, past>>

\* Retention days are counted from the answer of the upload on, so no file
\* comes of age while the others are pruned.
FilesAge ==
  /\ loop.at # "prune" /\ aged < Len(files)
  /\ aged' = aged + 1
  /\ UNCHANGED <<produced, memory, disk, files, budget, past>>

Expiring(settings) ==
  IF settings.expire THEN {row \in db.rows : row[1] <= cutoff} ELSE {}

Retention ==
  /\ Expiring(db.settings) # {}
  /\ db' = [db EXCEPT !.rows = @ \ Expiring(db.settings)]
  /\ past' = [past EXCEPT !.expired = @ \cup EventsIn(Expiring(db.settings))]
  /\ UNCHANGED <<produced, memory, cutoff, server, budget>>

\* Saving settings applies the retention at once.
SaveSettings ==
  \E settings \in Choices \ {db.settings} :
    /\ Spend("edits")
    /\ db' = [db EXCEPT !.settings = settings, !.rows = @ \ Expiring(settings)]
    /\ past' = [past EXCEPT !.expired = @ \cup EventsIn(Expiring(settings)),
                            !.risks = IF past.partial /\ settings.backup
                                      THEN @ \cup {"enabled before a restore"} ELSE @]
    /\ UNCHANGED <<produced, memory, cutoff, server>>

-----------------------------------------------------------------------------
(* The backup loop *)

BeginBackup ==
  /\ loop.at = "idle" /\ due
  /\ db.settings.backup
  /\ Len(files) < MaxFiles
  /\ loop' = [at |-> "events", base |-> [EmptyBase EXCEPT !.settings = db.settings]]
  /\ UNCHANGED <<produced, queue, batch, due, restore, disk, server, budget, past>>

ExportEvents ==
  /\ loop.at = "events"
  /\ loop' = [loop EXCEPT !.at = "rest", !.base.rows = Exported(db.rows)]
  /\ past' = [past EXCEPT !.crowded = @ \cup EventsIn(db.rows \ Exported(db.rows))]
  /\ UNCHANGED <<produced, queue, batch, due, restore, disk, server, budget>>

\* The upload's settings are the loop's, the file's are those of the database.
ExportRest ==
  /\ loop.at = "rest"
  /\ loop' = [at |-> "upload", base |-> [loop.base EXCEPT !.settings = db.settings],
              prune |-> loop.base.settings.prune]
  /\ UNCHANGED <<produced, queue, batch, due, restore, disk, server, budget, past>>

Store ==
  /\ files' = Append(files, loop.base)
  /\ past' = [past EXCEPT !.covered = @ \cup EventsIn(loop.base.rows)]

Upload ==
  /\ loop.at = "upload"
  /\ Store
  /\ loop' = [loop EXCEPT !.at = "prune"]
  /\ UNCHANGED <<produced, queue, batch, due, restore, disk, aged, budget>>

\* The file is there but the loop takes the upload for failed.
AnswerLost ==
  /\ loop.at = "upload" /\ Spend("failures")
  /\ Store
  /\ loop' = Idle
  /\ UNCHANGED <<produced, queue, batch, due, restore, disk, aged>>

\* Mutant of BackupFails: the error ends the loop
BackupFails_EndsLoop ==
  /\ loop.at \in {"events", "rest", "upload"} /\ Spend("failures")
  /\ loop' = [Idle EXCEPT !.at = "ended"]
  /\ UNCHANGED <<produced, queue, batch, due, restore, disk, server, past>>

\* The error is logged; a minute later the loop tries again.
BackupFails ==
  /\ loop.at \in {"events", "rest", "upload"} /\ Spend("failures")
  /\ loop' = Idle
  /\ UNCHANGED <<produced, queue, batch, due, restore, disk, server, past>>

PruneOne ==
  /\ loop.at = "prune" /\ loop.prune /\ aged > 0
  /\ files' = Tail(files) /\ aged' = aged - 1
  /\ UNCHANGED <<produced, memory, disk, budget, past>>

EndBackup == loop' = Idle /\ due' = FALSE

PruneEnds ==
  /\ loop.at = "prune" /\ (loop.prune => aged = 0)
  /\ EndBackup
  /\ UNCHANGED <<produced, queue, batch, restore, disk, server, budget, past>>

\* A listing or deletion that fails is logged; the backup counts as made.
PruneFails ==
  /\ loop.at = "prune" /\ loop.prune /\ aged > 0 /\ Spend("failures")
  /\ EndBackup
  /\ UNCHANGED <<produced, queue, batch, restore, disk, server, past>>

\* Bound: an interval after which the export would be the same is left out.
IntervalPasses ==
  /\ ~due
  /\ files # <<>> => [db EXCEPT !.rows = Exported(@)] # Newest
  /\ due' = TRUE
  /\ UNCHANGED <<produced, queue, batch, loop, restore, disk, server, budget, past>>

-----------------------------------------------------------------------------
(* entrypoint.sh and the import handler *)

\* Not configured, not ready in 30 tries, no backup listed, or no download.
SkipRestore ==
  /\ restore.at = "wait"
  /\ restore' = [restore EXCEPT !.at = "done"]
  /\ UNCHANGED <<produced, queue, batch, loop, due, disk, server, budget, past>>

Download ==
  /\ restore.at = "wait" /\ files # <<>>
  /\ restore' = [at |-> "rows", base |-> Newest, whole |-> TRUE]
  /\ UNCHANGED <<produced, queue, batch, loop, due, disk, server, budget, past>>

\* The status of curl is not looked at: what it wrote of the file is imported.
\* The settings are its first line and the newest row is its last.
DownloadCut ==
  /\ restore.at = "wait" /\ files # <<>> /\ Spend("failures")
  /\ \E n \in 0..Cardinality(Newest.rows) :
       /\ n < Cardinality(Newest.rows)
       /\ restore' = [at |-> "rows", whole |-> FALSE,
                      base |-> [Newest EXCEPT !.rows = OldestOf(@, n)]]
  /\ past' = [past EXCEPT !.risks = IF past.partial THEN @ \cup {"download cut short"} ELSE @]
  /\ UNCHANGED <<produced, queue, batch, loop, due, disk, server>>

ImportRows ==
  /\ restore.at = "rows"
  /\ LET next == OldestOf(restore.base.rows, BatchSize)
     IN /\ db' = [db EXCEPT !.rows = @ \cup {Imported(row) : row \in next}]
        /\ restore' = [restore EXCEPT !.base.rows = @ \ next,
                                      !.at = IF restore.base.rows = next THEN "settings" ELSE @]
  /\ UNCHANGED <<produced, queue, batch, loop, due, cutoff, server, budget, past>>

\* Prices, quotas and the settings are kept until every event is inserted.
ImportSettings ==
  /\ restore.at = "settings"
  /\ db' = [db EXCEPT !.settings = restore.base.settings]
  /\ restore' = [Waiting EXCEPT !.at = "done"]
  /\ past' = [past EXCEPT !.partial = @ /\ ~restore.whole]
  /\ UNCHANGED <<produced, queue, batch, loop, due, cutoff, server, budget>>

\* A statement fails: the handler answers 500 and the script goes on.
ImportFails ==
  /\ restore.at \in {"rows", "settings"} /\ Spend("failures")
  /\ restore' = [Waiting EXCEPT !.at = "done"]
  /\ UNCHANGED <<produced, queue, batch, loop, due, disk, server, past>>

-----------------------------------------------------------------------------
(* The container ends and starts again *)

Boot == queue' = <<>> /\ batch' = {} /\ loop' = Idle /\ due' = TRUE /\ restore' = Waiting
Dropped == batch \cup {queue[i] : i \in DOMAIN queue}

Restart ==
  /\ Spend("restarts")
  /\ Boot
  /\ past' = [past EXCEPT !.lost = @ \cup Dropped]
  /\ UNCHANGED <<produced, disk, server>>

\* A new container without the volume of the old one.
Replace ==
  /\ Spend("replacements")
  /\ Boot
  /\ db' = EmptyBase
  /\ past' = [past EXCEPT !.lost = @ \cup Dropped \cup EventsIn(db.rows),
                          !.partial = files # <<>>]
  /\ UNCHANGED <<produced, cutoff, server>>

-----------------------------------------------------------------------------
Collector == Pop \/ InsertBatch
Backups == BeginBackup \/ ExportEvents \/ ExportRest \/ Upload \/ PruneOne \/ PruneEnds
Entrypoint == SkipRestore \/ Download \/ ImportRows \/ ImportSettings
Failures == InsertFails \/ AnswerLost \/ BackupFails \/ PruneFails \/ DownloadCut \/ ImportFails
Time == EventsAge \/ FilesAge \/ Retention \/ IntervalPasses

Next == Produce \/ Collector \/ Backups \/ Entrypoint \/ Failures \/ SaveSettings \/ Time
        \/ Restart \/ Replace

\* The goroutines and the script go on, and intervals pass.
Fairness == WF_vars(Collector) /\ WF_vars(Backups) /\ WF_vars(Entrypoint) /\ WF_vars(IntervalPasses)
Spec == Init /\ [][Next]_vars /\ Fairness

-----------------------------------------------------------------------------
TypeOK ==
  /\ produced \in 0..MaxEvents /\ queue \in Seq(1..MaxEvents) /\ batch \subseteq 1..MaxEvents
  /\ db.rows \subseteq (1..MaxEvents) \X Nat /\ db.settings \in Settings
  /\ cutoff \in 0..MaxEvents /\ aged \in 0..Len(files) /\ due \in BOOLEAN
  /\ loop.at \in {"idle", "events", "rest", "upload", "prune"}
  /\ restore.at \in {"wait", "rows", "settings", "done"}

\* Every event that was handed over is waiting, stored, expired, or lost with
\* the process, a failed insert or a database; and it is stored once, or once
\* more for every time that masking its source changes it, however often its
\* backups are restored over the database they were taken from.
Accounted ==
  /\ \A event \in 1..produced :
       event \in Dropped \cup EventsIn(db.rows) \cup past.expired \cup past.lost
  /\ \A event \in 1..MaxEvents :
       Cardinality({row \in db.rows : row[1] = event}) <= 1 + Masks[event]

\* What some newest backup held, the newest backup holds: no upload from a
\* database that is still being filled again takes its place. Left out are
\* expired events, events beyond the limit of an export, and two risks: a
\* client turns backups on before a lost database is restored, and a download
\* that was cut short turns them on with the few events it brought.
BackupsCover ==
  past.risks = {} => past.covered \subseteq BackedUp \cup past.expired \cup past.crowded

\* While backups stay on, what an export would hold gets into the newest one,
\* whatever failed before.
BackupsCatchUp ==
  <>[](db.settings.backup /\ Len(files) < MaxFiles)
    => <>[](EventsIn(Exported(db.rows)) \subseteq BackedUp)
=============================================================================
