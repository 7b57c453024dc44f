----------------------------- MODULE InspectionPage -----------------------------
(* The page of the account inspection and the server it watches: the state of   *)
(* the inspection as its handlers and its run change it, the stream of status   *)
(* messages, the requests of one open page, and the page's reducer, effects and *)
(* settings dialog.  Other clients and the timer act on the server as well.     *)
(*                                                                              *)
(* The server builds a message under its mutex and sends it after, so messages  *)
(* of several handlers enter the stream in any order; the answer of a request   *)
(* is built under the mutex once more.  A handler of the page is one step, and  *)
(* so is an effect that follows a render.  A run is known by its number, which  *)
(* stands for lastStartedAt, and a time of the timer by when it was armed.      *)
EXTENDS InspectionView, InspectionSettings

CONSTANTS
  Filters,      \* tabs the user opens
  PageSize,     \* results in a page of the table
  Rank,         \* order of the accounts in the table: by provider and identity
  Outcomes,     \* results a run may end with
  Copies,       \* copies of settings the browser may start with
  Clean,        \* the section "clean" of the configuration
  Edits,        \* what the user may type: [field, value]
  Scenarios     \* bound: what the server starts with, [settings, state, enabled, rows],
                \* and what the user, other clients and the network begin then, one
                \* event after the other, by their group: [start, events]

ASSUME PageAssumption ==
  /\ "accountInvalid" \in Filters /\ Filters \subseteq DOMAIN HealthOf \cup {"pending"}
  /\ PageSize \in Nat \ {0}

\* The dialog has inputs for numbers, and lists to choose the rest from; the
\* server normalises the settings it starts with.
ASSUME SettingsAssumption ==
  /\ \A settings \in Copies \cup {Clean} : Numeric(settings)
  /\ \A e \in Edits : e.field \in SettingsFields \ {"confirmations"} /\ Allows(e.field, e.value)
  /\ \A s \in Scenarios : SettingsOK(s.start.settings)
                           /\ ServerNormalized(s.start.settings) = s.start.settings

VARIABLES
  scenario,  \* bound: the events to come
  srv,       \* status and schedule of the scheduler
  stream,    \* the WebSocket: whether it is open, and its messages
  reqs,      \* requests of the page
  page,      \* the reducer's state, the effects' refs, the dialog
  browser,   \* the copy of the settings in localStorage
  known      \* observation: what came between the page and the server

pageVars == <<scenario, srv, stream, reqs, page, browser, known>>

Set(v) == <<v>>                 \* a value that is there; << >> is null
None == << >>

-----------------------------------------------------------------------------
(* What the server tells *)

\* streamStatusLocked; details are the page of a table somebody asked for.
Snapshot(s, details) ==
  [ver |-> s.ver, state |-> s.state, run |-> s.run, finished |-> s.finished,
   failed |-> s.failed, listed |-> s.listed, enabled |-> s.enabled, interval |-> s.interval,
   next |-> s.next, settings |-> s.settings, details |-> details]

Details(s, opts) ==
  LET table == PaginateResults(s.rows, opts.page, PageSize, opts.filter)
  IN  Set([rows |-> table.rows, info |-> table.info, counts |-> HealthCounts(s.rows), opts |-> opts])

\* broadcast(s): a message with this state for the page, if it is subscribed.
Sending(s) ==
  IF stream.open = "on"
  THEN [stream EXCEPT !.unsent = @ \cup {Snapshot(s, None)}]
  ELSE stream

\* What passes the page by while its socket is closed
PassedBy(s) == IF stream.open = "closed" THEN s.ver ELSE known.lost

Broadcasting(s) ==
  /\ srv' = s
  /\ stream' = Sending(s)
  /\ known' = [known EXCEPT !.lost = PassedBy(s)]

-----------------------------------------------------------------------------
(* The page after an answer or a message *)

Key(p) == <<p.started, p.filter, p.pageNo>>
Held(p) == p.status \in {"running", "paused"} \/ p.started = 0 \/ ~p.listed

\* The effects that follow a render: the fetch of the details is called off and
\* begun anew when one of its dependencies changed, and the handler of Save is
\* made anew, with the confirmations of that moment, when one of its own did.
Fetching(p) == <<p.status, p.started, p.listed, p.filter, p.pageNo>>
Saving(p) == <<p.plan, p.next, p.draft>>

\* Mutant of Rendered: the filter is not one of the dependencies.
RenderedWithoutFilter(old, new) ==
  LET refetch == <<old.status, old.started, old.listed>> # <<new.status, new.started, new.listed>>
      fetched == IF refetch THEN [new EXCEPT !.live = 0, !.due = ~Held(new) /\ Key(new) # new.loaded]
                 ELSE new
  IN  IF Saving(old) # Saving(new)
      THEN [fetched EXCEPT !.confirmations = new.settings.confirmations] ELSE fetched

Rendered(old, new) ==
  LET fetched == IF Fetching(old) # Fetching(new)
                 THEN [new EXCEPT !.live = 0, !.due = ~Held(new) /\ Key(new) # new.loaded]
                 ELSE new
  IN  IF Saving(old) # Saving(new)
      THEN [fetched EXCEPT !.confirmations = new.settings.confirmations] ELSE fetched

Opts(p) == [filter |-> p.filter, page |-> p.pageNo]
Typed(p) == [draft |-> p.draft, plan |-> p.plan]

\* buildAccountInspectionBackendRunResult
RunResult(m) ==
  IF m.details[1].rows = << >> /\ m.finished = 0 THEN None
  ELSE Set([m.details[1] EXCEPT !.rows = [i \in DOMAIN @ |-> ResultToItem(@[i])]])

\* Mutant of Applied: the files are read again only after a run the page started.
AppliedUnrefreshed(p, m) ==
  LET settings == NormalizeConfigurableSettings(m.settings)
  IN  [p EXCEPT !.settings = settings, !.draft = DraftOf(settings), !.plan = [enabled |-> m.enabled, interval |-> m.interval],
                !.next = Set(m.next), !.status = ProgressStatus(m), !.runStatus = RunStatus(m),
                !.started = m.run, !.listed = m.listed,
                !.result = IF m.details = None THEN @ ELSE RunResult(m),
                !.refreshed = IF m.state \notin Active /\ m.finished > 0 /\ p.runStatus = "running"
                              THEN m.finished ELSE @]

\* Mutant of Applied: the time of the next run is taken once.
AppliedFirstTime(p, m) ==
  LET settings == NormalizeConfigurableSettings(m.settings)
  IN  [p EXCEPT !.settings = settings, !.draft = DraftOf(settings), !.plan = [enabled |-> m.enabled, interval |-> m.interval],
                !.next = IF @ = None THEN Set(m.next) ELSE @, !.status = ProgressStatus(m),
                !.runStatus = RunStatus(m), !.started = m.run, !.listed = m.listed,
                !.result = IF m.details = None THEN @ ELSE RunResult(m),
                !.refreshed = IF m.state \notin Active /\ m.finished > 0 THEN m.finished ELSE @]

\* applyBackendResponse: the reducer takes over everything the answer tells, the
\* draft of an open dialog included, and a finished run has the files read again.
Applied(p, m) ==
  LET settings == NormalizeConfigurableSettings(m.settings)
  IN  [p EXCEPT !.settings = settings, !.draft = DraftOf(settings), !.plan = [enabled |-> m.enabled, interval |-> m.interval],
                !.next = Set(m.next), !.status = ProgressStatus(m), !.runStatus = RunStatus(m),
                !.started = m.run, !.listed = m.listed,
                !.result = IF m.details = None THEN @ ELSE RunResult(m),
                !.refreshed = IF m.state \notin Active /\ m.finished > 0 THEN m.finished ELSE @]

\* What the page has seen of the server then.
Seen(p, m) ==
  [known EXCEPT !.shown = m.ver, !.seen = Max({@, m.ver}), !.local = FALSE, !.failed = FALSE,
                !.typed = IF p.open /\ Typed(Applied(p, m)) # Typed(p) THEN None ELSE @,
                !.edited = FALSE,
                !.emptied = @ /\ m.details = None,
                !.table = IF m.details = None THEN @ ELSE m.ver,
                !.newest = IF m.details = None THEN @ ELSE Max({@, m.ver}),
                !.opts = IF m.details = None THEN @ ELSE m.details[1].opts]

Receive(p, m) == page' = Rendered(p, Applied(p, m)) /\ known' = Seen(p, m)

-----------------------------------------------------------------------------
(* Requests *)
NoBody == None

Request(kind, details, body) ==
  [seq |-> known.seq + 1, kind |-> kind, pc |-> IF kind = "details" THEN "handled" ELSE "asked",
   own |-> 0, details |-> details, body |-> body, answer |-> None]

Ask(kind, details, body) == reqs' = reqs \cup {Request(kind, details, body)}
Asked == [known EXCEPT !.seq = @ + 1]

Replace(r, new) == (reqs \ {r}) \cup {new}
Under(kind) == \E r \in reqs : r.kind = kind

\* A handler that changes the server's state: the state it leaves, and whether it broadcasts it.
Changed(s) == [s EXCEPT !.ver = @ + 1]

StartRun(s, manual) ==
  Changed([s EXCEPT !.state = "running", !.run = @ + 1, !.finished = 0, !.failed = FALSE,
                    !.listed = FALSE, !.rows = << >>, !.manual = manual])

Control(s, kind) ==
  CASE kind = "pause" /\ s.state \in {"running", "paused"} -> Changed([s EXCEPT !.state = "paused"])
    [] kind = "resume" /\ s.state = "paused" -> Changed([s EXCEPT !.state = "running"])
    [] kind = "stop" /\ s.state \in Active -> Changed([s EXCEPT !.state = "stopping"])
    [] OTHER -> s

\* toResult and what becomes of it: the request's item knows the account, its
\* flag and the action, and nothing of what an inspection found.
Requested(item, action, succeeds) ==
  [key |-> item.key, action |-> action, status |-> 0, error |-> FALSE, quota |-> FALSE,
   executed |-> succeeds, executeError |-> ~succeeds,
   disabled |-> IF succeeds /\ action # "delete" THEN action = "disable" ELSE item.disabled]

\* applyManualActionResultLocked on the row that is listed
Merged(row, result) ==
  LET merged == [row EXCEPT !.disabled = result.disabled, !.executed = result.executed,
                            !.executeError = result.executeError]
  IN  IF result.executed THEN [merged EXCEPT !.action = "keep", !.error = FALSE] ELSE merged

\* executeManualActions on one item, which succeeds or not: a row that is not
\* listed is added, and the rows are sorted.
Acted(s, item, action, succeeds) ==
  LET result == Requested(item, action, succeeds)
      Same(row) == row.key = item.key
      rows == IF succeeds /\ action = "delete" THEN SelectSeq(s.rows, LAMBDA row : ~Same(row))
              ELSE IF \E i \in DOMAIN s.rows : Same(s.rows[i])
              THEN [i \in DOMAIN s.rows |-> IF Same(s.rows[i]) THEN Merged(s.rows[i], result) ELSE s.rows[i]]
              ELSE Append(s.rows, result)
  IN  Changed([s EXCEPT !.rows = SortSeq(rows, LAMBDA a, b : Rank[a.key] < Rank[b.key])])

\* update: a time that is not given is kept, or armed anew.
Updated(s, b) ==
  LET arm == IF ~b.enabled \/ b.next > 0 THEN s.arm ELSE s.arm + 1
      next == IF ~b.enabled THEN 0 ELSE IF b.next > 0 THEN b.next ELSE IF s.next > 0 THEN s.next ELSE arm
  IN  Changed([s EXCEPT !.enabled = b.enabled, !.interval = b.interval, !.next = next, !.arm = arm,
                        !.settings = ServerNormalized(b.settings)])

\* The handler up to its answer
Handle(r) ==
  /\ r.pc = "asked"
  /\ \/ /\ r.kind = "run"
        /\ IF srv.state \in Active
           THEN reqs' = Replace(r, [r EXCEPT !.pc = "refused"]) /\ UNCHANGED srv
           ELSE reqs' = Replace(r, [r EXCEPT !.pc = "handled"]) /\ srv' = StartRun(srv, TRUE)
        /\ UNCHANGED <<stream, known>>
     \/ /\ r.kind \in {"pause", "resume", "stop"}
        /\ LET s == Control(srv, r.kind)
           IN  /\ reqs' = Replace(r, [r EXCEPT !.pc = "handled", !.own = s.ver])
               /\ IF s = srv THEN UNCHANGED <<srv, stream, known>> ELSE Broadcasting(s)
     \/ /\ r.kind = "act"
        /\ \E succeeds \in BOOLEAN :
             LET s == Acted(srv, r.body[1].item, r.body[1].action, succeeds)
             IN  /\ reqs' = Replace(r, [r EXCEPT !.pc = "handled", !.own = s.ver])
                 /\ Broadcasting(s)
     \/ /\ r.kind = "save"
        /\ srv' = Updated(srv, r.body[1])
        /\ reqs' = Replace(r, [r EXCEPT !.pc = "handled", !.own = srv'.ver])
        /\ UNCHANGED <<stream, known>>
  /\ UNCHANGED <<page, browser>>

\* snapshotForRequest, after the handler has sent its message
AnswerRequest(r) ==
  /\ r.pc = "handled"
  /\ \A m \in stream.unsent : m.ver # r.own
  /\ LET details == IF r.details = None THEN None ELSE Details(srv, r.details[1])
     IN  reqs' = Replace(r, [r EXCEPT !.pc = "answered", !.answer = Set(Snapshot(srv, details))])
  /\ UNCHANGED <<srv, stream, page, browser, known>>

\* The handlers of answers that only apply them
Answered(r) ==
  /\ r.pc = "answered"
  /\ r.kind \in {"status", "run", "pause", "resume", "stop", "act"}
  /\ reqs' = reqs \ {r}
  /\ Receive(page, r.answer[1])
  /\ UNCHANGED <<srv, stream, browser>>

\* A fetch of the details that was called off is applied, but not noted.
DetailsArrive(r) ==
  /\ r.pc = "answered" /\ r.kind = "details"
  /\ reqs' = reqs \ {r}
  /\ Receive(IF page.live = r.seq THEN [page EXCEPT !.loaded = Key(page), !.live = 0] ELSE page,
             r.answer[1])
  /\ UNCHANGED <<srv, stream, browser>>

\* configChanged with the copy in the browser, when the dialog closes and when
\* the configuration is loaded
Localised(p, local) ==
  LET settings == LoadConfigurableSettings(Clean, local)
  IN  [p EXCEPT !.settings = settings, !.draft = IF p.open THEN @ ELSE DraftOf(settings)]

SaveArrives(r) ==
  /\ r.pc = "answered" /\ r.kind = "save"
  /\ reqs' = reqs \ {r}
  /\ LET p == [page EXCEPT !.open = FALSE]
         closed == Localised(Applied(p, r.answer[1]), browser)
     IN  /\ page' = Rendered(page, IF page.open THEN closed ELSE Applied(page, r.answer[1]))
         /\ known' = [Seen(page, r.answer[1]) EXCEPT !.typed = None,
                                                         !.local = page.open /\ browser # r.body[1].settings]
  /\ UNCHANGED <<srv, stream, browser>>

\* A request the server refuses, or that fails on its way, handled or not. A
\* run is then shown as failed; the other kinds leave the state as it is.
Fail(r) ==
  /\ reqs' = reqs \ {r}
  /\ LET p == CASE r.kind = "run" -> [page EXCEPT !.runStatus = "error"]
                [] r.kind = "status" -> [page EXCEPT !.next = None]
                [] OTHER -> IF r.seq = page.live THEN [page EXCEPT !.live = 0] ELSE page
     IN  page' = Rendered(page, p)
  /\ known' = [known EXCEPT !.failed = @ \/ r.kind = "run", !.emptied = @ \/ r.kind = "run",
                            !.missed = @ \/ r.seq = page.live,
                            !.foreign = IF r.kind = "act" THEN Max({@, r.own}) ELSE @,
                            !.lost = IF r.kind = "save" THEN Max({@, r.own}) ELSE @,
                            !.local = @ \/ r.kind = "save"]
  /\ UNCHANGED <<srv, stream, browser>>

-----------------------------------------------------------------------------
(* The run, the timer and other clients *)
ListsAccounts ==
  /\ srv.state = "running" /\ ~srv.listed
  /\ Broadcasting(Changed([srv EXCEPT !.listed = TRUE, !.listedAt = srv.ver + 1]))
  /\ UNCHANGED <<reqs, page, browser>>

\* The final message is built before the timer is armed anew, and after the run
\* has sent the one before.
Finish ==
  /\ srv.state \in Active
  /\ \A m \in stream.unsent : m.ver # srv.listedAt
  /\ \E state \in IF srv.state = "stopping" THEN {"stopped", "completed"}
                  ELSE IF srv.listed THEN {"completed", "partial"} ELSE {"failed"},
        rows \in IF srv.listed THEN Outcomes ELSE {<< >>} :
       LET s == Changed([srv EXCEPT !.state = state, !.finished = srv.run, !.rows = rows,
                                    !.failed = state # "completed"])
           rearm == s.enabled /\ ~s.manual
       IN  /\ (state = "completed" => srv.listed)
           /\ srv' = IF rearm THEN Changed([s EXCEPT !.arm = @ + 1, !.next = s.arm + 1]) ELSE s
           /\ stream' = Sending(s)
           /\ known' = [known EXCEPT !.lost = PassedBy(s)]
  /\ UNCHANGED <<reqs, page, browser>>

\* No status message tells of a run that begins.
TimerStarts ==
  /\ srv.enabled /\ srv.next > 0 /\ srv.state \notin Active
  /\ srv' = StartRun(srv, FALSE)
  /\ UNCHANGED <<stream, reqs, page, browser, known>>

OthersStart ==
  /\ srv.state \notin Active
  /\ srv' = StartRun(srv, TRUE)
  /\ UNCHANGED <<stream, reqs, page, browser, known>>

OthersControl(kind) ==
  /\ Control(srv, kind) # srv
  /\ Broadcasting(Control(srv, kind))
  /\ UNCHANGED <<reqs, page, browser>>

\* The item is one of a list the client may have had for long.
OthersAct ==
  /\ \E item \in [key : DOMAIN Rank, disabled : BOOLEAN], action \in {"disable", "delete"},
        succeeds \in BOOLEAN :
       LET s == Acted(srv, item, action, succeeds)
       IN  /\ srv' = s /\ stream' = Sending(s)
           /\ known' = [known EXCEPT !.lost = PassedBy(s), !.foreign = s.ver]
  /\ UNCHANGED <<reqs, page, browser>>

-----------------------------------------------------------------------------
(* The stream *)
Connect ==
  /\ stream.open = "no"
  /\ stream' = [stream EXCEPT !.open = "on", !.queue = <<Snapshot(srv, None)>>]
  /\ UNCHANGED <<srv, reqs, page, browser, known>>

Send(m) ==
  /\ m \in stream.unsent
  /\ stream' = [stream EXCEPT !.unsent = @ \ {m},
                              !.queue = IF stream.open = "on" THEN Append(@, m) ELSE @]
  /\ UNCHANGED <<srv, reqs, page, browser, known>>

\* The subscriber's buffer is full, of log messages that are not shown here.
Drop(m) ==
  /\ m \in stream.unsent
  /\ stream' = [stream EXCEPT !.unsent = @ \ {m}]
  /\ known' = [known EXCEPT !.lost = Max({@, m.ver})]
  /\ UNCHANGED <<srv, reqs, page, browser>>

MessageArrives ==
  /\ stream.queue # << >>
  /\ stream' = [stream EXCEPT !.queue = Tail(@)]
  /\ Receive(page, Head(stream.queue))
  /\ UNCHANGED <<srv, reqs, browser>>

\* The socket ends, or never opens; nothing opens another one.
SocketCloses ==
  /\ stream.open # "closed"
  /\ stream' = [open |-> "closed", queue |-> << >>, unsent |-> {}]
  /\ known' = [known EXCEPT !.lost = srv.ver]
  /\ UNCHANGED <<srv, reqs, page, browser>>

-----------------------------------------------------------------------------
(* The user *)
Executing == Under("act")

\* startFreshInspection
ClickRun ==
  /\ page.runStatus # "running" /\ ~Executing
  /\ IF page.runStatus = "paused"
     THEN Ask("resume", None, NoBody) /\ UNCHANGED page
     ELSE /\ Ask("run", None, NoBody)
          /\ page' = Rendered(page, [page EXCEPT !.result = None, !.runStatus = "running",
                                                 !.status = "running", !.listed = FALSE, !.pageNo = 1])
  /\ known' = Asked
  /\ UNCHANGED <<srv, stream, browser>>

ClickPause ==
  /\ page.runStatus = "running" /\ ~Executing
  /\ Ask("pause", None, NoBody)
  /\ known' = Asked
  /\ UNCHANGED <<srv, stream, page, browser>>

ClickStop ==
  /\ page.runStatus \in {"running", "paused"} /\ ~Executing
  /\ Ask("stop", None, NoBody)
  /\ known' = Asked
  /\ UNCHANGED <<srv, stream, page, browser>>

\* A tab opens at its first page.
ClickFilter(f) ==
  /\ f # page.filter
  /\ page' = Rendered(page, [page EXCEPT !.filter = f, !.pageNo = 1])
  /\ UNCHANGED <<srv, stream, reqs, browser, known>>

Visible(p) == IF p.result = None THEN << >> ELSE FilterRows(p.result[1].rows, p.filter)
TableRange(p) == PaginationRange(p.result[1].info, Len(Visible(p)))

ClickPage(n) ==
  /\ page.result # None
  /\ \/ n = page.pageNo + 1 /\ TableRange(page).hasNext
     \/ n = page.pageNo - 1 /\ n >= 1 /\ TableRange(page).hasPrevious
  /\ page' = Rendered(page, [page EXCEPT !.pageNo = n])
  /\ UNCHANGED <<srv, stream, reqs, browser, known>>

\* The timer or idle callback of the fetch
FetchDetails ==
  /\ page.due
  /\ Ask("details", Set(Opts(page)), NoBody)
  /\ page' = [page EXCEPT !.due = FALSE, !.live = known.seq + 1]
  /\ known' = [Asked EXCEPT !.missed = FALSE]
  /\ UNCHANGED <<srv, stream, browser>>

\* A suggested or a manual action on a row of the table
ClickAct ==
  /\ page.runStatus # "running" /\ ~Executing
  /\ \E i \in DOMAIN Visible(page) :
       LET item == Visible(page)[i]
           actions == ManualActions(item) \cup (IF Pending(item) THEN {item.action} ELSE {})
       IN  \E a \in actions : Ask("act", Set(Opts(page)), Set([item |-> item, action |-> a]))
  /\ known' = Asked
  /\ UNCHANGED <<srv, stream, page, browser>>

OpenDialog ==
  /\ ~page.open
  /\ page' = Rendered(page, [page EXCEPT !.open = TRUE, !.draft = DraftOf(page.settings)])
  /\ known' = [known EXCEPT !.typed = Set(Typed([page EXCEPT !.draft = DraftOf(page.settings)]))]
  /\ UNCHANGED <<srv, stream, reqs, browser>>

CloseDialog ==
  /\ page.open
  /\ page' = Rendered(page, Localised([page EXCEPT !.open = FALSE], browser))
  /\ known' = [known EXCEPT !.typed = None, !.local = TRUE]
  /\ UNCHANGED <<srv, stream, reqs, browser>>

\* The configuration is loaded.
ConfigChanges ==
  /\ page' = Rendered(page, Localised(page, browser))
  /\ known' = [known EXCEPT !.local = TRUE]
  /\ UNCHANGED <<srv, stream, reqs, browser>>

Edited(p) ==
  /\ page' = Rendered(page, p)
  /\ known' = [known EXCEPT !.edited = @ \/ p.plan # page.plan,
                            !.typed = IF @ = None THEN None ELSE Set(Typed(p))]
  /\ UNCHANGED <<srv, stream, reqs, browser>>

Edit ==
  /\ page.open
  /\ \/ \E e \in Edits : Edited([page EXCEPT !.draft[e.field] = e.value])
     \/ Edited([page EXCEPT !.plan.enabled = ~@])
     \/ \E v \in {0, 60} : Edited([page EXCEPT !.plan.interval = v])

ResetSettings ==
  /\ page.open
  /\ browser' = Defaults
  /\ page' = Rendered(page, [page EXCEPT !.settings = Defaults, !.draft = DraftOf(Defaults)])
  /\ known' = [known EXCEPT !.typed = IF @ = None THEN None ELSE Set([@[1] EXCEPT !.draft = DraftOf(Defaults)]),
                            !.local = TRUE]
  /\ UNCHANGED <<srv, stream, reqs>>

SaveBody(settings) ==
  [enabled |-> page.plan.enabled, interval |-> page.plan.interval,
   next |-> IF page.plan.enabled /\ page.next # None THEN page.next[1] ELSE 0,
   settings |-> settings, typed |-> known.typed]

\* handleSaveSettings: the copy in the browser is written before the interval is
\* looked at.
ClickSave ==
  /\ page.open /\ ~Under("save")
  /\ DraftValid(page.draft)
  /\ LET settings == NormalizeConfigurableSettings(Over(page.draft, [confirmations |-> page.confirmations]))
     IN  /\ browser' = settings
         /\ IF InRange(page.plan.interval, Limits.interval)
            THEN Ask("save", None, Set(SaveBody(settings))) /\ known' = [Asked EXCEPT !.local = FALSE]
            ELSE UNCHANGED <<reqs, known>>
  /\ UNCHANGED <<srv, stream, page>>
-----------------------------------------------------------------------------
PageInit ==
  /\ \E s \in Scenarios :
       LET run == IF s.start.state = "idle" THEN 0 ELSE 1
       IN  /\ scenario = s.events
           /\ srv = [ver |-> 1, state |-> s.start.state, run |-> run,
                     finished |-> IF s.start.state = "completed" THEN 1 ELSE 0,
                     failed |-> FALSE, listed |-> run = 1, listedAt |-> 0,
                     rows |-> s.start.rows, manual |-> FALSE, enabled |-> s.start.enabled,
                     interval |-> 360, next |-> IF s.start.enabled THEN 1 ELSE 0, arm |-> 1,
                     settings |-> s.start.settings]
  /\ stream = [open |-> "no", queue |-> << >>, unsent |-> {}]
  /\ browser \in Copies
  /\ LET settings == LoadConfigurableSettings(Clean, browser)
     IN  page = [settings |-> settings, draft |-> DraftOf(settings),
                 plan |-> [enabled |-> FALSE, interval |-> 360], next |-> None,
                 confirmations |-> settings.confirmations, runStatus |-> "idle", status |-> "idle",
                 started |-> 0, listed |-> FALSE, result |-> None, refreshed |-> 0,
                 filter |-> "accountInvalid", pageNo |-> 1, loaded |-> << >>, due |-> FALSE,
                 live |-> 0, open |-> FALSE]
  /\ known = [seq |-> 1, shown |-> 0, seen |-> 0, lost |-> 0, table |-> 0, newest |-> 0, foreign |-> 0,
              missed |-> FALSE, opts |-> Opts(page), failed |-> FALSE, emptied |-> FALSE,
              local |-> TRUE, edited |-> FALSE, typed |-> None]
  /\ reqs = {[seq |-> 1, kind |-> "status", pc |-> "handled", own |-> 0, details |-> None,
              body |-> NoBody, answer |-> None]}

\* The page has made its first requests.
Loaded ==
  /\ known.seen > 0 /\ stream.open # "no" /\ \A r \in reqs : r.seq > 1
  /\ Held(page) \/ page.loaded # << >>

Fault ==
  \/ \E m \in stream.unsent : Drop(m)
  \/ SocketCloses
  \/ \E r \in reqs : Fail(r)

Happens(group) ==
  \/ group = "loaded" /\ Loaded /\ UNCHANGED <<srv, stream, reqs, page, browser, known>>
  \/ group = "run" /\ ClickRun
  \/ group = "control" /\ (ClickPause \/ ClickStop)
  \/ group = "act" /\ ClickAct
  \/ group = "table" /\ \E f \in Filters : ClickFilter(f)
  \/ group = "table" /\ \E n \in 1..page.pageNo + 1 : ClickPage(n)
  \/ group = "dialog" /\ (OpenDialog \/ CloseDialog \/ Edit \/ ResetSettings \/ ClickSave
                          \/ ConfigChanges)
  \/ group = "others" /\ (TimerStarts \/ OthersStart \/ OthersAct)
  \/ group = "others" /\ \E kind \in {"pause", "resume", "stop"} : OthersControl(kind)
  \/ group = "fault" /\ Fault

Event ==
  /\ scenario # << >> /\ scenario' = Tail(scenario)
  /\ Happens(Head(scenario))

Refused(r) == r.pc = "refused" /\ Fail(r)

Step ==
  /\ \/ \E r \in reqs : Handle(r) \/ AnswerRequest(r) \/ Answered(r) \/ DetailsArrive(r)
                        \/ SaveArrives(r) \/ Refused(r)
     \/ \E m \in stream.unsent : Send(m)
     \/ ListsAccounts \/ Finish \/ Connect \/ MessageArrives \/ FetchDetails
  /\ UNCHANGED scenario

PageNext == Event \/ Step

PageSpec == PageInit /\ [][PageNext]_pageVars

-----------------------------------------------------------------------------
\* Nothing is under way, and the run does not go on by itself.
AtRest ==
  /\ reqs = {} /\ ~page.due
  /\ stream.open # "no" /\ stream.unsent = {} /\ stream.queue = << >>
  /\ srv.state \notin {"running", "stopping"}

\* The last answer or message the page took in is the newest it has had, and no
\* newer message was lost.
UpToDate == known.seen > 0 /\ known.shown = known.seen /\ known.lost <= known.seen

(* At rest the page shows the state of the run the server is in, and has read   *)
(* the account files again for the last run that finished, whoever started,     *)
(* paused or stopped it and whatever requests crossed; unless a message was     *)
(* lost, an older one was taken in last, or the start of a run failed.          *)
StatusTrue ==
  AtRest /\ UpToDate /\ ~known.failed =>
    /\ page.runStatus = RunStatus(srv)
    /\ srv.state \notin Active /\ srv.finished > 0 => page.refreshed = srv.finished

\* The table taken in last is not the one the page notes as loaded.
Mixed == page.loaded # << >> /\ [filter |-> page.loaded[2], page |-> page.loaded[3]] # known.opts

(* At rest the table of the open tab and page holds the results the server has  *)
(* for it, row by row, and its counts; a row whose action failed is left out    *)
(* where the tab is not for pending rows, invalid accounts or errors of         *)
(* requests, since only the page counts the failure as an error of the account. *)
(* Exceptions are a run that ended before it had its accounts, where the page   *)
(* keeps the table of the run before, a fetch that failed, rows another client or an unanswered     *)
(* action changed since, a run that could not be started, and an older answer   *)
(* or one for another tab that came last, when the page does not ask again.     *)
TableTrue ==
  AtRest /\ UpToDate /\ srv.listed /\ ~known.missed /\ ~known.emptied /\ ~Mixed
    /\ known.foreign <= known.table /\ known.table = known.newest /\ srv.state \notin Active =>
    LET table == PaginateResults(srv.rows, page.pageNo, PageSize, page.filter).rows
        items == [i \in DOMAIN table |-> ResultToItem(table[i])]
    IN  /\ Visible(page) = SelectSeq(items, LAMBDA r :
                             page.filter \in {"pending", "accountInvalid", "requestError"} \/ ~r.executeError)
        /\ page.result # None => page.result[1].counts = HealthCounts(srv.rows)

(* At rest, opening the dialog and saving it untouched would leave the server's *)
(* schedule as it is, the time of the next run included, so that saving starts  *)
(* no run of its own; unless the page shows the browser's copy of the settings, *)
(* or an edit of the schedule that was not saved.                               *)
SaveWouldKeep ==
  AtRest /\ UpToDate /\ ~known.local /\ ~known.edited /\ ~known.missed /\ ~known.emptied =>
    LET settings == NormalizeConfigurableSettings(page.settings)
        saved == Updated(srv, SaveBody(settings))
    IN  /\ saved.enabled = srv.enabled /\ saved.interval = srv.interval
        /\ srv.listed \/ srv.run = 0 => saved.next = srv.next
        /\ srv.settings.usedPercentThreshold # 1 => DraftOf(saved.settings) = DraftOf(srv.settings)

(* What the server stores for a save is what the user had before his eyes in    *)
(* the dialog, field by field, unless an answer or a message replaced the draft *)
(* of the open dialog; a threshold of 1 is stored as 100.                       *)
SavedAsTyped ==
  \A r \in reqs :
    r.kind = "save" /\ r.pc = "asked" /\ r.body[1].typed # None =>
      LET saved == Updated(srv, r.body[1])
          typed == r.body[1].typed[1]
      IN  /\ saved.enabled = typed.plan.enabled /\ saved.interval = typed.plan.interval
          /\ \A f \in DOMAIN typed.draft :
               \/ saved.settings[f] = typed.draft[f]
               \/ f = "usedPercentThreshold" /\ typed.draft[f] = 1
=============================================================================
