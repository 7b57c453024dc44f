# CLI-PRO: a verification development

CLI-PRO is a set of patches and overlays over an upstream proxy: a Go core with a
backend account-inspection scheduler and an embedded usage database, a web
management panel with an account-inspection page, a monitoring page and a
persistent quota cache, and the scripts that build and start both. This directory
holds TLA+ models of the parts that have state and concurrency, TLC configurations
that check them on small instances, and TLAPS proofs of what matters most for every
instance. Source paths below are relative to the repository.

`PROJECT.json` is the index: components, runs, mutants (for each property, a plausible
bug in a mapped definition that breaks it), the map from definitions to source lines,
findings, hazards and theorems.

    tlc -workers 2 -config InspectionRun.cfg MCInspectionRun            # one run
    tlapm InspectionRunProofs.tla                                       # one proof module

## 1. The system

Short names: *scheduler* is `cliproxyapi-pro-core/patches/account_inspection_scheduler.go`,
*store* is `cliproxyapi-pro-core/embeddedusage/store.go`, *panel* is
`cliproxyapi-pro-management/overlay/src`.

| Component | State | Operations | Hard about it |
|---|---|---|---|
| Inspection run (scheduler) | status, results, progress, the run's context and cancel function, a pause condition, the cursor of a worker pool, two kinds of limiter | start, pause, resume, stop, deadline, the worker loop, the end of a run | goroutines × requests × a 30-minute context; cancel functions called outside the mutex; wake-ups of sleeping workers |
| Inspection schedule (scheduler) | schedule in memory and in a JSON file, trigger channel | update, export, import, loop, re-arming at the end of a run, load | a file rewritten in place, failing saves, crashes, starts decided outside the mutex |
| Decisions and automatic actions (scheduler) | settings, confirmation counters, files deleted in the run | probe → result → disposition → suggested action → automatic action, per account and run | four functions that must agree; concurrent workers on one auth file; counters that cross runs |
| Results and manual requests (scheduler) | result list, summary, health counts | inspect one, refresh one, execute a batch, the end of a run | requests read accounts long before they merge; counters kept by deltas at four places |
| Status stream and table (scheduler) | subscribers with 16-message buffers | broadcast, subscribe, pages of results | messages built under the mutex and sent after it, dropped when a buffer is full |
| Auth refresh (`apply_upstream_patches.py` 430-632, a Go file it writes) | the upstream auth manager | refresh when due: clone, call upstream, update | the update writes back a clone taken before a call that may take minutes |
| Usage database (store) | events, persisted summary, cached summary, quota cache, prices, settings | insert, delete, summarise, rebuild, pages, import, export | statement-by-statement reads among transactions; a cache invalidated after commits |
| Usage collector and maintenance (`embeddedusage/service.go`, redisqueue patches) | queue, time of the last backup | collect, clean up, back up, prune | items popped before they are stored; everything in memory is lost at a restart |
| Container start-up (`cliproxyapi-pro-core/entrypoint.sh`) | none | choose, download and import the newest backup | runs at every start, beside the backup loop |
| Usage server (`embeddedusage/server.go`) | the cursor of each event stream | snapshot, pages, event stream, import, export | polling readers of a growing table |
| Usage client (panel `useUsageData.ts`) | latest id, loaded events, pending payload, timers, an event source | snapshot, incremental load, stream, reconnect | three sources of the same events merged by cursors |
| Quota persistence (panel `extensions/quota/*`) | quota store, queue of keys, the request under way, what was loaded | preload, sync, flush, ensure fresh, stop | a writer racing with loads; its copies written by the backend too |
| Inspection page (panel `AccountInspectionPage.tsx`) | a reducer, refs of effects, settings and schedule drafts, a copy of settings in the browser | stream, table, run control, manual actions, settings dialog | answers and messages in any order; closures over older renders |
| Monitoring page (panel `MonitoringCenterPage.tsx`, `useMonitoringData.ts`, `usage.ts`) | metadata, quotas per account, model prices | metadata refresh, quota loads, price edits; rows, filters, totals | requests that are not cancelled; long pure computations |
| Galaxy launcher (`scripts/galaxy-start.js`) | configuration (file or repository), installed binary and template, the child | write the configuration, install, start, proxy | files written in place; commits of others; every exit starts it over |

**How they interact.** HTTP handlers and the schedule loop call the scheduler under one
mutex (`s.mu`). A run is one goroutine with up to `Workers` worker goroutines; each probes an
account through the upstream executor and, when due, refreshes its token through the
upstream auth manager; when all have a result, automatic actions change or delete
accounts through the same manager. At its end the run publishes its results, re-arms
the schedule and saves it. Manual requests read and change accounts outside the mutex and merge
what they found under it. Every change is broadcast to WebSocket subscribers, of which the
inspection page is one. Independently,
finished proxy requests are queued, popped by the collector and inserted into SQLite
(one connection, so statements and transactions are serial); the panel reads them by
snapshot, by cursor and by server-sent events. The panel's quota store mirrors itself
into the same database, and the inspection writes the quotas it sees there. A maintenance
loop deletes old events and uploads backups, which a container that starts imports.

What makes each modelled component correct is stated with its module below; every
hazard of the code is in `PROJECT.json` under "hazards", at its line, with the properties
that would catch it.

## 2. Modules

| Module | Models | Checked by |
|---|---|---|
| `InspectionRun` | one run at a time: goroutine, worker pool, pause, context, limiters | `run`, `InspectionRunProofs` |
| `RunLifecycle` | what a run promises to the rest: the abstract specification `InspectionRun` implements and `InspectionSchedule` is composed with | `run` (refinement), `schedule` |
| `InspectionSchedule` | schedule, its file, the loop, crashes and restarts, over `RunLifecycle` | `schedule`, `RestartProofs` |
| `InspectionDecisions` | pure: probes of each provider → result → disposition → suggestion → action | through `AutoActions`, `InspectionProofs` |
| `AutoActions` | runs in a row, confirmations, concurrent execution, client toggles, restarts | `actions`, `InspectionProofs` |
| `InspectionResults` | result list, counters, manual requests and token refreshes racing with runs | `results`, `InspectionResultsProofs` |
| `InspectionPage` | the status stream, the table, and one inspection page with its dialog, over the server as other clients and the timer drive it | `page`, `InspectionProofs` |
| `InspectionView`, `InspectionSettings`, `InspectionAssets` | pure: pages and tabs of results; settings, their ranges and drafts; the inventory of accounts | `page` and its assumptions |
| `UsageStore` | events, summary row, summary cache, readers and writers | `usage_summary`, `UsageStoreProofs` |
| `UsageFeed` | the server's snapshots, pages and event stream, and one page of the panel that merges them | `feed`, `feed_twice`, `MonitoringProofs` |
| `UsageBackup` | queue, collector, retention, backup loop, WebDAV server, restore, restarts | `backup`, `UsageBackupProofs` |
| `QuotaSync` | quota store of a page, its sync queue and preload, the table on the server | `quota_sync`, `QuotaSyncProofs` |
| `MonitoringPage` | metadata, quota loads and model prices of the monitoring page | `monitoring`, `MonitoringProofs` |
| `MonitoringRows`, `MonitoringView`, `UsagePayload` | pure: rows from events and metadata; filters, totals, trends, log, pages; details kept for display | `monitoring` and its assumptions |
| `LauncherConfig`, `GalaxyLauncher` | pure: the edits of the configuration; the launcher's boots, installations, child and front proxy | `launcher`, `RestartProofs` |

The `MC` modules give constants their values and state the reference definitions that
the pure operators are checked against, as assumptions. Operators named `X_Something` or
described as "Mutant of X" just above an operator `X` are used by no specification.

### InspectionRun

A step is one critical section of `s.mu`, of the cursor's or the progress mutex, one
channel operation, or the return of one outside call. `pc[w]` is where worker *w* of
`runAccountInspectionWorkers` is: *gate* (about to look at the pause), *asleep* (in
`pause.Wait`), *claim* (at the cursor), *limiter* and *begin* (provider slot, in-flight count), *refreshGate*,
*refreshing*, *probing* (in `inspectAccount`), *release*, *settle* (deferred release, completed count).
`phase` is where `run()` itself is. `ctx[r]` is what the context of run *r* says; `cancelling`
holds the `cancel()` calls that were read under the mutex and not made yet, because
`stopRun` calls the function after it unlocks and `run()` defers its own. A probe's
content is abstracted to *done* or *cancelled* (the result only says the context ended).
Where a Go `select` has both a slot and an ended context ready, either may be taken.

* `ActionsSeeWholeRun`: automatic actions, which disable and delete accounts, begin only
  when every account has a result and none is the trace of a cancelled context.
* `StoppedOnlyOnRequest`: a late `cancel()` never ends a later run as "stopped".
* `HeldRunBeginsNoMore`: a paused or ended run begins at most one more account per worker
  (the one that had passed the gate).
* `ProgressMatchesWork`: published numbers agree with the workers.
* `ImplementsLifecycle`: refinement of `RunLifecycle`. The abstract *fate* (undecided,
  commit, canceled, deadline, failed) is `runErr` and `phase`; the abstract *asked* is a history
  variable.
* `StopEndsRun`, `RunEnds`: a requested stop ends the run even if all workers sleep, queue at
  limiters or hang in a token refresh; without a stop the deadline ends every run.

### InspectionSchedule

Composes the schedule with `RunLifecycle` (the promise `InspectionRun` was shown to
keep), so run details do not multiply the states. Time is reduced to *off*, *future* or
*due* for each next-run time: in memory, in the file, and in the copy a client holds and
sends back. A save is two steps, truncation and write, because `os.WriteFile` rewrites the
file in place; a crash, or an error, may come between them. `s.mu` is held during a save (`MutexFree`).
`MaybeRunDue` looks under the mutex and spawns `startRun(false)`, which runs later
and does not look at the schedule again.

* `ArmedIffEnabled`: enabled ⇔ has a next run, in memory and on disk, after any mixture of
  updates, imports, run ends, failed saves and restarts.
* `AckedUnlessTorn`: an acknowledged update is lost only by a crash or error inside a write.
  That exception is real: the file is truncated at every update and at the end of every
  scheduled run, and a restart after a crash in between falls back to a disabled schedule.
* `EnabledKeepsInspecting`: a process that stays up with the schedule enabled inspects again
  and again, whatever else clients do.

### InspectionDecisions and AutoActions

The decisions are pure operators over small data: a response is a status and a kind of
body (quota under or over the threshold, blank, empty, garbled, exhausted, content); an
answer is whether a due refresh fails, the responses of the quota URLs in order, and
those of the deep probe. The operators follow the providers' inspectors, the transfer of
authentication errors, `resolve*Disposition`, and the choice of the automatic action.
`AutoActions` runs inspections in a row over a set of accounts: `todo` holds results no
worker has looked at, `acting` the actions under way. Clients toggle accounts, executions
fail, and a restart forgets the counters.

* `NoFlipFlop`: under the same answer an account is never disabled and enabled in turns;
  it relates probing, disposition and suggestion over at least two runs.
* `ActionsFollowState`: an action is one the settings ask for in answer to what the provider said. It compares the action
  with the responses themselves, read without the inspectors (`Denies`, `Fails`, `Exhausts`, `Recovers`): an account is disabled or
  deleted only if it was denied, failed or (disabled only) is out of quota *and* the setting of that case says so.
  One of the settings lets a failed token refresh, which counts as a request error, delete the account.
* `FileDeletedOnce`: accounts that share an auth file never make a run delete it twice.
* `ConfirmedSinceClear`: an action has as many confirmations as required since the last
  inspection that called for none, and since the last action. It does not say *consecutive*: a
  count is kept when an inspection in between called for another action.

### InspectionResults

`store` is the accounts as they are, `rows` the result list, `counts` the summary and health
counts in one function of cells. A request (single inspection, token refresh, batch)
begins by reading accounts, finds something later, and merges it later still; a run
starts, acts on accounts, and replaces the list. `Put` and `RemoveRows` adjust the
counters by what they replace, as the code does; `Tally` recounts them.

`Refresh`, `Refreshed` and `RefreshFails` are `refreshForInspection`: it clones the account, calls upstream, and
writes the clone back, with the disabled flag it had (`WrittenBack`). What the upstream
manager does when the account was deleted meanwhile is not in this repository: it may stay
deleted or come back.

* `CountsMatchRows`: the counters kept by deltas are those of the list.
* `RowsTellAccounts`: an account nothing in flight has touched is listed as it is. Accounts
  that two things in flight have touched are left out (`touched`), as is a file's second account after a
  deletion (`orphaned`): a whole run's results, for instance, replace those of requests made while it was on, and an
  inspection begun before a run is dropped while the run is on but merged over its newer result once it has ended.
  The items of a batch carry the flag the client last saw (`flags`), which goes into the list with a failed action too:
  an account whose flag the client had wrong (`misled`) may be listed wrong as long as its row shows the failure.
* `RefreshKeepsAccounts`: a token refresh leaves the state of its account as it was, with the same exceptions. They
  are real: a disable, an enable or a deletion made during the upstream call is undone by the write-back.

### InspectionPage

`srv` is the scheduler as the page sees it: state, run number (which stands for `lastStartedAt`),
settings, schedule, rows. A handler of the server makes a message under the mutex (`unsent`) and sends it
in a later step, so messages cross each other and the answers of requests, and a full
buffer drops one (`Drop`). `page` is the reducer's state with what effects and closures hold:
`live` is the fetch of details that still counts, `loaded` the table noted as loaded,
`confirmations` the value the handler of Save was made with. `Rendered` runs the effects that follow a
change. A *scenario* is a list of event groups (the user, the dialog, other clients, faults) that may
happen, one after the other, at any moment of the steps that follow from them. An action of a client (`Acted`) writes what its request
says of the account into the row, however old the client's list is; a row that is no longer listed is added from the request alone, and
the rows are sorted (`Rank`).

* `StatusTrue`: at rest the page shows the server's run state, and has read the account files again after the run that finished.
* `TableTrue`: the table of the open tab is the server's, row by row, and so are its counts. The page takes the failure of an action for
  an error of the account, the server does not: such a row is missing from the tabs of healthy, recoverable and exhausted accounts.
* `SaveWouldKeep`: saving the dialog untouched leaves the server's schedule as it is and starts no run.
* `SavedAsTyped`: what the server stores for a save is what the dialog showed when the user clicked.

"At rest" is `AtRest` (nothing under way) and `UpToDate`. What the exceptions in the comments of the properties stand for:
the page does not poll and its WebSocket is never opened again, so after a loss it stays behind; cancelled details are applied
anyway and an older answer may land last; failed details are not asked for again; a
run that ends before it has listed its accounts leaves the page with the old table and the old next
run, and Save then starts a run at once; a failed start hides the last results; any answer or message replaces the draft of an open
dialog; closing the dialog puts the browser's copy of the settings over the backend's; a threshold of 1 is read as a fraction, 100 %.

`InspectionAssets` (which accounts an inspection counts) is checked by assumptions of `MCInspectionPage`:
`AccountStatsCountsEveryFileOnce` and `UsedPercentReadsBothUnits`.

### UsageStore

`table` gives each event in the database its id; `summary` is the persisted row; `cache` the
summary in memory. Writers commit (`Insert`, `Delete`) and invalidate in a later step; a
crash may come in between (`Reopen`). A reader goes through `UsageSummary` statement by
statement: latest id, cache, row, rebuild (count, then write), row again, count, store.

* `RowExact`: the row is exact unless a rebuild's count was overtaken by a commit.
* `CacheExact`, `AnswersCursor`: so are the cache and the answers, except in that case and
  when the cache was stored after a deletion's invalidation, which then answers with sums of
  deleted events until the next write. `stale`, `taint` and `window` are
  history variables that name these two cases exactly.

### UsageFeed

`top` is the largest stored id. `page` is what the hook `useUsageData` keeps: the cursor
(`latestIdRef`), the state shown (`usage`), the pending payload whose timer runs while there is one, the
two calls of `loadUsage` that may be under way (the mount's and the loop's; `newest` is the one that
`requestIdRef` lets through), and the loop of page loads with its busy and do-again flags. Handlers are functions from
a page to a page, composed as the code calls them, because JavaScript runs each to its end. The
server reads the table when it answers, which may be long before the answer arrives. Its stream has a
`cursor` of its own, started at the page's cursor when the page connected; a break loses `transit`. A payload is its last id and how
often each event is counted in it. Deletions and the unmounting of the page are left out.

* `NoneSkipped`: in any order of arrivals, every event up to the page's cursor is counted or pending. Two
  exceptions are history flags: `dropped` (loadUsage dropped a pending payload and its snapshot has not
  come) and `rewound` (an old snapshot took the cursor back while the stream went on).
* `CatchesUp`: when events and failures stop, the page shows every event, with the same exceptions.
* `EventsCountedOnce` (violated, see Findings).

### UsageBackup

An event is its number, a row an event with how often its source had been masked when its hash was
built. `batch` is what the collector popped and has not inserted; `loop` walks through one backup (events, the rest,
upload, pruning) and `restore` through `entrypoint.sh` (wait, rows batch by batch, settings). Settings stand
for themselves, prices, quotas and the schedule: an import applies them all after the events. `Restart` loses what is
in memory, `Replace` the database too. `past` is history.

* `Accounted`: every event is waiting, stored, expired, or lost with the process, a failed insert or a database; and is stored
  at most once more for every time that masking its source changes it.
* `BackupsCover`: an upload never takes from the newest backup what it held, although the loop runs while a lost database is being restored. It holds because
  default settings have backups off and an import applies settings last. Two risks are left out: backups
  turned on by a client before the restore, and a download that was cut short (curl's status is not looked at).
* `BackupsCatchUp`: while backups stay on, what an export would hold gets into one, whatever failed before.

What the exceptions say of the code: an import builds the hash from the masked source, so restoring a
backup over the database it was taken from (which every container start does) stores events with mail
addresses or secrets as source again; a restore takes prices, settings and schedule back to those of the
backup; expired events come back until the next retention; an export holds at most the newest 50,000 rows.

### QuotaSync

A quota is known by when it was fetched, which is also its sync version. `queue` and `flight` are
`syncQueue` and the request of `flushSyncQueue`; `preload`, `fresh`, `reload` and `through` are `preloadCache`,
`ensureFresh`, `reloadRequestedAt` and `loadedThrough`; `unseen` the providers whose maps the subscriber has not compared, and `touched` says of each entry whether it
was changed after the last list that was read and applied. The backend's inspection writes the same table, in two steps: it takes the
time of the row (`BackendStamps`) and writes it when the mutex and SQLite let it (`BackendWrites`), maybe after a load of the page
that took its own time later, or not at all after five busy attempts. Rows of an older format are deleted when they are read. `Reload`
is a reload of the page: a request under way was applied or is lost.

* `NothingForgotten`: a quota the page shows is saved or on its way there, unless a save failed or the row was erased or set back.
* `LoadedThroughHonest`: no row up to `loadedThrough` was passed over, unless a failed read passed for an empty cache. Entries the
  page changed or saves itself are excepted until the table is listed again: the save of an older copy (kept from before the row was
  erased) may reach the table behind the load that set `loadedThrough`, and then no later load fetches it. So is a row the backend
  writes behind a load whose time is at or past the row's; without that exception TLC finds the property violated.
* `QueueDrains`: the queue empties again and again.

### MonitoringPage, MonitoringRows, MonitoringView, UsagePayload

`MonitoringPage` is three small machines over the pure modules: the metadata (`asks`, `shown`), the quotas of
opened accounts (`loads`, `requestIds`, `accountQuota`, `store`) and the prices (`prices`, `stored`, `priceLoad`, `puts`, `editor`).
What an account's card asks for is derived by `MonitoringRows` and `MonitoringView` from the rows of the metadata shown.

* `MetaSettles`: once nothing is asked the page shows the newest answer, with the configuration it renders, unless an
  answer that is never cancelled (`refreshMeta`) came last.
* `QuotaSettles`: no account is left loading, and what it shows is of its newest load.
* `PricesAsSaved`: page and database hold the prices as the user left them, also over reloads; the exceptions are named in `excuses`
  (an edit before the prices were read, a lost or overtaken write, another tab or an import, a reload over a write, an emptied list that the old browser storage fills again).

The pure operators (rows of events, key and channel labels, filters, totals, trends, the realtime log and its paging,
quota targets, drafts of prices, trimming of kept details) are compared with independent reference
definitions by the assumptions of `MCMonitoringPage`.

### LauncherConfig and GalaxyLauncher

A configuration is the sequence of its lines, a line named by what the edits tell apart. `Edited` is the chain of
edits of one boot; it starts from the configuration the environment gives, on every boot, or else from the file (`Source`). `config`, `binary` and `template` are files, `git` the configuration kept in a repository with its sha.
A write may be cut (`CrashInConfig`, `Crash`); others commit between the read and the PUT (`OtherCommits`). When the child exits, so
does the launcher, and the host starts it again.

* `ManagedSettings`: whatever file was found, the application that runs finds the port the front proxy forwards to,
  statistics, the panel's repository and the keys of the environment.
* `RewriteSettles`: a boot loses no line it does not manage, and a second boot changes nothing. The exception is one edit
  (`Misplaced`): `ALLOW_REMOTE_MANAGEMENT` on, a panel's line, no `allow-remote`. The new line is inserted before the panel's is replaced at
  the index found earlier, so the line before it is lost, the old panel's line stays, and the file comes to rest only with the third boot.
* `StartsWholeFiles`: a torn binary is started only if it was being copied over an earlier installation (a forced download), a torn template
  only if the crash came in its own write, in a first installation too (`cut`).
* `OnlyExamplesReplaced`: keys committed by others are never replaced.

## 3. Runs, bounds, fairness

| Run | Bounds | Why they are enough |
|---|---|---|
| `run` | 2 workers, limiters of 1, a run of up to 3 accounts (2 of one provider), then a run of up to 1 | two workers compete for a slot and for the cursor while a third account waits; a second run is there for a late `cancel()` to hit, and the only thing the first one leaves it is its context |
| `schedule` | at most 2 spawned starts waiting | two starts race for one run; everything else is finite without a bound |
| `actions` | one account of each kind of provider × 30 answers × 72 settings, or two accounts of one file with confirmations; confirmations capped at 2 | each branch of the decisions is reached, no action or settings are shared between files |
| `results` | one account with 3 verdicts and 2 requests (clients ask for any action, with a right or a wrong flag), or two denied accounts of one file and 1 request (clients ask to delete them); runs unbounded | two requests and a run cover each pair of overlapping merges and write-backs; a shared file needs two accounts; errors come from failed refreshes |
| `page` | 3 tabs, pages of 1 row, 4 accounts (two invalid, one out of quota, one whose probe failed), other clients disable or delete any of them with a right or a wrong flag; scenarios of up to a few events each, from starts with and without a finished run | each pair of event groups occurs in an order that lets messages, answers and edits cross |
| `usage_summary` | 2 events (one failed), 3 ids, 2 readers, 1 writer | duplicates, re-insertion after deletion and deletion of part of the table; a second reader can overtake a rebuild |
| `feed`, `feed_twice` | 4 (3) events, messages of 2, pages of 3 (2), 1 message under way, 1 failure | four events need two messages and two pages, so full batches, their remainder and overlaps all occur; one failure is enough for a drop, a fall-back or a reconnect |
| `backup` | 2 events (one whose source is masked twice), inserts of 1, exports of 2 rows, 2 files; budgets (edits, failures, restarts, replacements) of (2,0,0,1), (1,1,1,1) or (1,0,2,0) | with duplicates an export reaches its limit; two restarts restore twice; a replacement restores in two batches while the loop runs |
| `quota_sync` | 2 keys of one provider, 4 events | two keys queue behind one request; a fetch, a load, a foreign save and a stop or reload can all overlap |
| `launcher` | every configuration of two sections, or one the environment gives, ports up to 3, 2 boots, 3 foreign commits, all combinations of the settings that change the file | the edits treat sections one at a time; the second boot reads what the first one left |
| `monitoring` | 3 groups of scenarios (metadata, quotas, prices), 2 configurations, small lists of files and prices; a clock of 12 with days of 8 | requests of two configurations cross; one clock bound puts events today, earlier and in the future |

The confirmation cap of the code is 5 (`MaxConfirmations`); the run takes 2. Model values are
interchangeable where symmetry is used (readers; requests; the two accounts of one file).
The deadlock check is on, except for `page`, `backup`, `quota_sync`, `launcher` and `monitoring`, where a bounded
scenario runs out of events and the system rightly comes to rest. Types are checked by the
proofs of each module that has a proof module; `TypeOK` of `MonitoringPage` documents its variables and can be added to its
.cfg: it holds there.

**Fairness.** `InspectionRun`: goroutines that can run do run (weak fairness of the runner, of
each worker, each pending `cancel()` and each context watcher), and probes return, because
their HTTP requests carry a client timeout. An upstream token refresh has none: it is sure to
return only once its context has ended (`WF(CtxEnded /\ RefreshReturns)`). Requests are never
owed. `StopEndsRun` does without the deadline; `RunEnds` assumes it (`DeadlinePasses`).
`InspectionSchedule`: weak fairness of saves, the ticker, runs and time; strong fairness of
the steps that need the mutex, which Go's mutex grants to starving waiters first.
`UsageFeed`: weak fairness of the server's answers and stream ticks, of arrivals and of the page's
timers; insertions, refreshes and failures (at most `MaxFailures`) are never owed. That a request
arrives or fails at all is assumed: the panel's HTTP client is not in this repository.
`QuotaSync`: weak fairness of the steps that follow from a request (it is answered or fails, and its handler runs).
`UsageBackup`: weak fairness of the collector, the backup loop, the script and the passing of an interval; failures, restarts and edits are never owed.
The other modules have safety properties only and state no fairness.

## 4. Proofs

Each proof module extends the module it is about. Its theorems hold for any number of workers, accounts, files, runs,
requests, events, readers, batches and providers, and for any sizes and limits: the bounds of section 3 are not in them.

| Theorem | Says | Argument |
|---|---|---|
| `InspectionRunProofs` | | |
| `TypeCorrect` | `TypeOK` always | one step per action |
| `ActionsAreSafe` | `ActionsSeeWholeRun` always | `WholeRunInv`: while no error is recorded, every account up to the cursor has a result or a worker that holds it; a worker exits only when the list is exhausted; a live context leaves no cancelled result; workers exist only while the run probes. `JoinWorkers` with every worker gone then has a result for each account |
| `StopsAreRequested` | `StoppedOnlyOnRequest` always | `StopInv`: while a run is on, a canceled context, a pending `cancel()` for it and a recorded "canceled" each imply it was asked to stop; `s.cancel` is the current run's or nothing; no pending `cancel()` is for a run to come |
| `RunImplementsLifecycle` | `ImplementsLifecycle` | initial states map to initial states and each action to one abstract step or a stutter; `FateInv` adds that nobody asked a run to come to stop and that a run that still lists or acts has recorded no error |
| `HeldRunsHold` | `HeldRunBeginsNoMore` always | `HeldInv`: a worker that has begun an account since the run was held is not on its way to another, and the gate is closed |
| `ProgressIsHonest` | `ProgressMatchesWork` always | `PlaceInv`: no two workers hold the same account, and none with a result; `TallyInv`: the counters are the numbers of workers at certain places and of results. When the last worker is gone, completed accounts are all of them (as many as there are numbers up to the total) |
| `RestartProofs` | | |
| `ScheduleArmed` | `ArmedIffEnabled` always | inductive with the types |
| `AckedSurvives` | `AckedUnlessTorn` always | `AckInv`: outside of a write the whole file agrees too, an update that is being saved is not acknowledged, nothing is saved while the process is down |
| `ExamplesReplaced` | `OnlyExamplesReplaced` | `GitInv`: a launcher about to commit has read example keys, and what it read is what the repository holds as long as the sha is the same, because every commit takes the next sha |
| `WholeFilesStarted` | `StartsWholeFiles` always | `InstallInv`: a torn binary is being copied, has no template beside it, so that it is not taken for installed, or was torn over an earlier installation; a torn template is being written or was left by a crash in its write |
| `SettingsManaged` | `ManagedSettings` always | every edit of a file is a `Splice` (some lines give way to others, all the rest stay in place), and a splice keeps the first line of a kind, two adjacent lines, and the panel's line below its header under conditions each edit is shown to meet (the panel's line also when it goes to the wrong place: the section has one afterwards either way); so after the chain of edits `Managed` holds of any file whatever. `ConfigInv`: past the configuration a managed file lies on disk, and the two ports differ |
| `InspectionProofs` | | |
| `TypeCorrect` | `TypeOK` of `AutoActions` always | each inspector and each pass over an answer yields a well-typed result |
| `ActionsAreAsked` | `ActionsFollowState` always | `InspectFounded`: whatever each inspector and the deep probe decide of an answer of any number of URLs is founded in the responses (`Founded`); `ActionForIs` names the case and the setting behind each action, and `InspectTwins`, below, the state the account was listed with |
| `ActionsNeverUndo` | `NoFlipFlop` always | `InspectTwins`: the decisions for an account listed enabled and for one listed disabled, under the same answer, agree in quota, error and status, for every provider; they never suggest disabling the one and enabling the other. `ResultInv` and `HistoryInv` say that results and past actions are those of an answer |
| `FilesDeletedOnce` | `FileDeletedOnce` always | `MarkInv`: a file is marked exactly when it was deleted, and the mark is looked at under the same lock |
| `ActionsAreConfirmed` | `ConfirmedSinceClear` always | `CountInv`: no counter is ahead of the inspections since it was cleared |
| `RunShown` | `StatusTrue` always | `StatusInv`: some version of the server's state is the last that told of another state of the run. Whatever tells of it or of a later one, message or answer, tells of the state the server is in; something that does is on its way, was seen, or was lost; and a page that took it in shows that state, unless its own start is still to be answered. Each step either keeps that version or makes a new one that is on its way |
| `TypedIsSaved` | `SavedAsTyped` always | `TypedInv`: the draft of an open dialog is what the user was last shown or typed, each of its fields is one the dialog can hold, and the body of a save is such a draft normalised, whatever the server reported in between. `Over`, `NormalizeConfigurableSettings` and `ServerNormalized` are shown field by field to leave a valid draft as it is, but for a threshold of 1 |
| `UntouchedIsKept` | `SaveWouldKeep` always | `SaveInv`: what is stored passes both normalisations; the settings and the interval are those of some version on, and the time of the next run is that of one which a save set, or the end of a run of the timer. Whatever tells of that version tells them, and it reaches the page or counts as lost. The message of a run that ends is made *before* the time is set anew, so a page that shows the run as ended has fetched the table since, will fetch it, or failed to (`FetchesSince`); if it never heard of the end, the next run to list its accounts tells it. Every step is of one of six kinds (`StepKinds`), which `SaveInv` is shown to survive |
| `InspectionResultsProofs` | | |
| `ResultsTyped` | `TypeOK` always | `TypeInv` (the list as a set of functions) |
| `CountsMatch` | `CountsMatchRows` always | `PutTallies`: replacing the rows of a set of accounts changes each cell by the rows that leave and the rows that come, for any finite list; `FoundInv` ties what a request merges to its accounts |
| `RefreshIsNeutral` | `RefreshKeepsAccounts` | `OverlapInv`: an account that two things in flight have in hand is in `touched`; `CopyInv`: the copy a refresh took agrees with its account unless that is touched or orphaned. The write-back then changes nothing that the copy does not already agree with |
| `ListTellsAccounts` | `RowsTellAccounts` always | `TellInv`: besides the list, the results of the run that acts and what each request has found tell the state of an account that nothing else has in hand; a request that is no batch has one account. With `OverlapInv`, merging them keeps the list true; an item of a batch may be wrong only while not executed and where the client was, so what it leaves wrong is a row with a failed action |
| `UsageStoreProofs` | | |
| `TypeCorrect` | `TypeOK` always | one step per statement of a reader and of a writer |
| `RowStaysExact`, `CacheStaysExact`, `AnswersAreTimely` | `RowExact`, `CacheExact`, `AnswersCursor` always | a reader about to write the row is stale or holds the sums and the last id of the table; one about to store or to answer holds the sums up to its cursor, unless a deletion overtook it; the cache holds the sums up to its cursor in the table, or in one that a writer that has yet to invalidate it found; every such table is in the window of every call |
| `MonitoringProofs` | | |
| `TypeCorrect` | `TypeOK` of `UsageFeed` always | one step per handler |
| `NothingIsSkipped` | `NoneSkipped` always | `StreamInv`: the messages under way follow each other without a gap and begin at or below the page's cursor, or at the end of the snapshot that is to be applied; `PageOK` says which loads can be out together and that their pages start at or below the cursor; so whatever arrives first extends what is kept |
| `MetaSettled` | `MetaSettles` always | `MetaInv`: the newest request is under way and not cancelled, or its answer is shown, or an older one came last; an effect that is not cancelled asked for the configuration that is rendered; the page is loading only while an answer that will be applied is to come |
| `PricesSaved` | `PricesAsSaved` always | `PriceInv`: until the read is done the page shows the browser's prices and will end up with what is meant; from then on it shows what is meant, and the newest write carries it and is under way or was applied last |
| `QuotaSettled` | `QuotaSettles` always | `QuotaInv`: an account or a quota that is loading awaits a load under way which nothing newer has replaced; a quota is of the newest load of the account that loaded it; an account shows success exactly when one of the quotas it loaded itself does |
| `UsageBackupProofs` | | |
| `TypeCorrect` | `TypeOK` always | one step per action |
| `EveryEventAccounted` | `Accounted` always | `AccountInv`, and `CopiesAreFew`: the rows of an event differ in how often its source was masked, of which there are finitely many |
| `NewestBackupCovers` | `BackupsCover` always | `CoverInv`: what a newest backup held is in the newest file, in the database unless that replaced a lost one, and in the export under way; while a lost database is not filled again backups are off, and the import that fills it brings all of the newest file before it brings settings |
| `QuotaSyncProofs` | | |
| `NothingIsForgotten` | `NothingForgotten` always | `FlushIs`: a run of the flush loop drops a key only if its state is no success; `HeldInv`: a version the page holds for synced, and a row it was told of, is in the table, it or a newer one, unless the row was erased or set back. So what `syncProvider` leaves out of the queue is saved |
| `LoadedThroughIsHonest` | `LoadedThroughHonest` always | `AnswerInv`: a row of the table is the one the answer under way lists, or gone, or newer than `loadedThrough` will become, for entries not touched since; a write of the backend either is newer than that or touches its entry; `TouchedInv`: what is queued or under way is touched |
| `QueueNeverStranded` | the types, and an empty queue whenever no request is under way | with the above |

The theorems rest on the named assumptions of the modules only, which TLC evaluates in every run: sizes and limits are
positive, providers and files are given, the sets of accounts, events and quotas are finite, an answer has at least one response,
settings have the types of their JSON fields and those the server starts with are normalised (`AccountAssumption`, `SettingsAssumption`), the launcher's environment holds values of their kinds (`EnvAssumption`),
and a configuration is a sequence of lines, any lines (`DocAssumption`). Each inductive invariant was checked by TLC on the
instances of section 3 before it was proved. Maxima, and the least of a set of numbers, are shown to exist from the
well-founded order of the naturals and of the subsets of a finite set (`MaximumExists`, `MaxIs`, `LeastExists`).

Two attempts failed for a reason and changed the model. `LoadedThroughHonest` once spoke of every entry the page had
not *changed*; its invariant was not inductive, and a history of ten events, more than the run allows, broke it: a row erased behind
a load, then saved again from the page's copy while a newly mounted page loads an older one. `touched` now also marks what the
page saves, and `PreloadDone` takes every provider it loads for changed, as the code does by replacing its map. And the mapping of
`InspectionRun` to `RunLifecycle` had overlapping cases, of which TLC took the first: it is now a chain of conditions.

The eight proof modules go by what belongs together for a reader, not one by one with the modules they extend: `RestartProofs` is about the two components that
keep a file written in place, `InspectionProofs` about what a run does to accounts and what the page shows of it, `MonitoringProofs` about the usage feed and the page over it.

Only model-checked: liveness (`StopEndsRun`, `RunEnds`, `EnabledKeepsInspecting`, `CatchesUp`, `BackupsCatchUp`, `QueueDrains`), which
like ENABLED is out of the prover's reach; the pure operators checked against their references by assumptions, because they recurse over data;
and `TableTrue`, which compares two filtered lists row by row, and `RewriteSettles`, which counts the lines an edit keeps: both need induction over a sequence.

## 5. Findings

* **`feed_twice`**: the panel adds a payload whole when its last event is newer than the page's
  cursor, also when its first events are known: a stream opened before the first snapshot arrives starts at 0 and makes
  the page count the overlap twice. `cliproxyapi-pro-management/README_EN.md:19` promises request totals.

Behaviours of the code that the properties name as exceptions, and that differ from what a reader
of its documents may expect:

* A crash inside a write of the schedule file loses the schedule (`AckedUnlessTorn`);
  `cliproxyapi-pro-core/README_EN.md:29` says the schedule state can survive.
* Confirmations need not be consecutive (`ConfirmedSinceClear`); `README_EN.md:104` speaks of consecutive confirmation.
* A failed token refresh counts as a request error, for which the settings may delete the account; `README_EN.md:125` says the account is kept.
* A summary read before a deletion may be cached after it (`CacheExact`).
* A token refresh undoes a disable made during its upstream call (`RefreshKeepsAccounts`).
* A quota the backend saves while a page loads the cache may stay hidden on that page until another one is saved (`LoadedThroughHonest`).
* A row whose manual action failed leaves the page's tabs of healthy, exhausted and recoverable accounts, and is still counted there (`TableTrue`).
* A restore over a live database stores events with masked sources again (`Accounted`).
* A failed manual action writes the client's disabled flag into the list, however old (`RowsTellAccounts`).
* With `ALLOW_REMOTE_MANAGEMENT` on, the launcher may overwrite a foreign line of `remote-management:` with the panel's (`RewriteSettles`),
  and a configuration template torn in a first installation is used from then on (`StartsWholeFiles`).

## 6. Not modelled

* **Whole components.** The build-time patch and release scripts are sequential text edits and workflows; nothing of them runs with the
  program, except the Go file they write, which `InspectionResults` models. `QuotaCardExtras`, styles, locales, rendering, labels and formatting hold no shared state.
* **Code without a caller.** `indexedDBCache.ts` is imported by no file; `clearCache`, `getSchedule`, `loadPendingTargets`'s loop,
  `applyAccountInspectionExecutionResult`, `buildRealtimeMonitorRows`, totals by API and by model, and `collectUsageDetails` have no user.
* **Inspection.** The 200-entry log and its messages, the export of results as a ZIP, the counts of automatic execution; the parsing of probe bodies
  (abstracted to what they say); when a token refresh is due and its back-off times; token refreshes of a run's own workers as separate steps.
* **Usage.** Aggregates by interval, authentication and routing of the server, dead letters (the queue's plugin hands over well-formed
  items only), the reading of record fields, the page's own import of a chosen file, a WebDAV server that stores part of an upload, two instances on one directory.
* **Panel.** Leaving the monitoring page and coming back to it with the quota store kept (a full reload is modelled), a change of connection, two tabs of one browser with one quota store, the search text of the monitoring page, plan types; failures of metadata other than the auth
  list's as steps (they are in the pure operators).
* **Launcher.** Indented `api-keys:` lines elsewhere in a file, and the WebSocket upgrade, which the front proxy answers by closing the connection.
