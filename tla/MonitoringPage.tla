--------------------------- MODULE MonitoringPage ---------------------------
(***************************************************************************)
(* The monitoring page's own state beside the usage feed: the metadata it  *)
(* asks for (auth files), the account quotas it loads on demand and the    *)
(* model prices it edits (pages/MonitoringCenterPage.tsx,                  *)
(* hooks/useMonitoringData.ts, hooks/useUsageData.ts).                     *)
(*                                                                         *)
(* The rows, accounts and quota targets are those MonitoringRows and       *)
(* MonitoringView derive from the metadata shown.  Requests are answered   *)
(* and lost in any order.  `left' bounds how often each event happens; a   *)
(* scenario is a value of it, with the prices stored at the start.         *)
(***************************************************************************)
EXTENDS MonitoringView

CONSTANTS Configs,       \* the configurations the store may hold, first to last
          FileLists,     \* the auth files of the server, first to last
          Details,       \* the usage details loaded
          Now,
          Models, Prices,        \* priced models, price values
          PriceLists,    \* what the database may hold
          AllCards,      \* what the page shows of each metadata, as CardsAssumption has it
          Scenarios

VARIABLES cfg,        \* the configuration the page is rendered with
          server,     \* the server's auth files
          shown,      \* the metadata applied: the request, its configuration and its auth files
          metaLoading,
          asked,      \* metadata requests so far
          asks,       \* those not applied yet
          expanded,   \* accounts whose card is open
          accountQuota,   \* accountQuotaStates
          requestIds,     \* accountQuotaRequestIdsRef
          loads,      \* quota loads under way
          store,      \* the quota store
          prices,     \* modelPrices of the page
          stored,     \* model_prices of the database
          legacy,     \* loadLegacyModelPrices
          priceLoad,  \* the read of the prices
          puts,       \* price writes under way
          sent,       \* price writes so far
          editor,     \* the model of the price dialog
          left,       \* events that may still happen
          \* what follows is only kept for the properties
          overtaken,  \* an older answer, not a cancelled one, came last
          orphans,    \* quotas whose load was given up for one without them
          meant,      \* the prices as the user left them
          excuses,    \* why the prices may differ from that
          applied     \* the last price write applied

metaVars == <<cfg, server, shown, metaLoading, asked, asks, overtaken>>
quotaVars == <<expanded, accountQuota, requestIds, loads, store, orphans>>
priceVars == <<prices, stored, legacy, priceLoad, puts, sent, editor, meant, excuses, applied>>
pageVars == <<metaVars, quotaVars, priceVars, left>>

Spend(event) == left[event] > 0 /\ left' = [left EXCEPT ![event] = @ - 1]

(* ------------------------------ derivation ----------------------------- *)

\* The auth files of a payload: a list, a list that failed, or nothing applied yet.
Failed == 0
NoneYet == 0 - 1
Files(payload) == IF payload.files < 1 THEN <<>> ELSE FileLists[payload.files]

\* allRows: the sources and keys of the configuration rendered, the channels and auth files of
\* the payload applied, which may be of an older one; and what the cards make of them.
Rows(page, payload) ==
    LET config == Configs[payload.cfg]
        meta == IF payload.files = NoneYet THEN [files |-> <<>>, channels |-> <<>>]
                ELSE MetaPayload(config, IF payload.files = Failed THEN <<>> ELSE <<Files(payload)>>, <<config.openai>>)
    IN  BuildEventRows(Details, Context(Configs[page], meta, [m \in {} |-> 0]))
Payloads == [cfg : DOMAIN Configs, files : {NoneYet, Failed} \cup DOMAIN FileLists]
Shows(page, p) ==
    LET rows == Rows(page, p)
    IN  {[page |-> page, payload |-> p, account |-> a, targets |-> QuotaTargets(rows, Files(p), a)] :
            a \in Values(rows, LAMBDA r : r.account)}
ASSUME CardsAssumption == AllCards = UNION {Shows(page, p) : page \in DOMAIN Configs, p \in Payloads}
Accounts == {c.account : c \in AllCards}

CardsNow == {c \in AllCards : c.page = cfg /\ c.payload = [cfg |-> shown.cfg, files |-> shown.files]}
Cards == {c.account : c \in CardsNow}
Targets(a) == UNION {c.targets : c \in {c \in CardsNow : c.account = a}}

\* The quota store holds one state per provider and file name.
Key(target) == <<target[1], target[3]>>
Keys(targets) == {Key(t) : t \in targets}
AllKeys == UNION {Keys(c.targets) : c \in AllCards}

NoQuota == [status |-> "none", targets |-> {}]
NoEntry == [status |-> "none", by |-> <<>>]
NoPrices == [m \in {} |-> 0]
NoModel == ""

PageTypeOK ==
    /\ cfg \in DOMAIN Configs /\ server \in DOMAIN FileLists /\ metaLoading \in BOOLEAN /\ overtaken \in BOOLEAN
    /\ shown.cfg \in DOMAIN Configs /\ shown.files \in {NoneYet, Failed} \cup DOMAIN FileLists /\ shown.n \in 0..asked
    /\ \A q \in asks : q.n \in 1..asked /\ q.kind \in {"effect", "refresh"} /\ q.cfg \in DOMAIN Configs
    /\ expanded \subseteq Accounts /\ orphans \subseteq AllKeys
    /\ \A a \in Accounts : accountQuota[a].status \in {"none", "loading", "success", "error"} /\ requestIds[a] \in Nat
    /\ \A k \in AllKeys : store[k].status \in {"none", "loading", "success", "error"}
    /\ \A l \in loads : l.account \in Accounts /\ Keys(l.targets) \subseteq AllKeys
    /\ \A f \in {prices, stored, legacy, meant} : DOMAIN f \subseteq Models /\ \A m \in DOMAIN f : f[m] \in Prices
    /\ priceLoad.stage \in {"asked", "answered", "failed", "done"} /\ sent \in Nat /\ applied \in 0..sent

(* -------------------------------- start -------------------------------- *)

Ask(n, kind, config) == [n |-> n, kind |-> kind, cfg |-> config, cancelled |-> FALSE, answer |-> <<>>]

\* The state of a page just mounted: the prices of the old storage, the reads under way.
Mounted(config, n) ==
    [shown |-> [n |-> 0, cfg |-> config, files |-> NoneYet], asks |-> {Ask(n, "effect", config)},
     accountQuota |-> [a \in Accounts |-> NoQuota], requestIds |-> [a \in Accounts |-> 0],
     store |-> [k \in AllKeys |-> NoEntry], priceLoad |-> [stage |-> "asked", value |-> NoPrices]]

\* The prices a page that starts now will end up with.
Settled(database, browser) == IF database = NoPrices THEN browser ELSE database

PageInit ==
    /\ \E s \in Scenarios : left = s.events /\ stored = s.stored /\ legacy = s.legacy
    /\ cfg = 1 /\ server = 1 /\ metaLoading = TRUE /\ asked = 1 /\ overtaken = FALSE
    /\ shown = Mounted(cfg, 1).shown /\ asks = Mounted(cfg, 1).asks
    /\ expanded = {} /\ loads = {} /\ orphans = {}
    /\ accountQuota = Mounted(cfg, 1).accountQuota /\ requestIds = Mounted(cfg, 1).requestIds
    /\ store = Mounted(cfg, 1).store
    /\ prices = legacy /\ priceLoad = Mounted(cfg, 1).priceLoad
    /\ puts = {} /\ sent = 0 /\ applied = 0 /\ editor = NoModel
    /\ meant = Settled(stored, legacy) /\ excuses = {}

(* ------------------------------- metadata ------------------------------ *)

\* The effect's clean-up cancels its last request and asks again.
Cancelled(q) == IF q.kind = "effect" THEN [q EXCEPT !.cancelled = TRUE] ELSE q

ConfigChanges ==
    /\ Spend("config") /\ cfg < Len(Configs)
    /\ cfg' = cfg + 1 /\ metaLoading' = TRUE /\ asked' = asked + 1
    /\ asks' = {Cancelled(q) : q \in asks} \cup {Ask(asked + 1, "effect", cfg + 1)}
    /\ UNCHANGED <<server, shown, overtaken, quotaVars, priceVars>>

\* refreshAll: the header's refresh, and after an import or a change of the settings.
RefreshAll ==
    /\ Spend("refresh")
    /\ asked' = asked + 1 /\ asks' = asks \cup {Ask(asked + 1, "refresh", cfg)}
    /\ UNCHANGED <<cfg, server, shown, metaLoading, overtaken, quotaVars, priceVars>>

FilesChange ==
    /\ Spend("files") /\ server < Len(FileLists) /\ server' = server + 1
    /\ UNCHANGED <<cfg, shown, metaLoading, asked, asks, overtaken, quotaVars, priceVars>>

\* The server lists its auth files, or the request fails: loadMonitoringMetaPayload never rejects.
MetaAnswered(q) ==
    /\ Spend("answer") /\ q.answer = <<>>
    /\ \E files \in {server, Failed} : asks' = (asks \ {q}) \cup {[q EXCEPT !.answer = <<files>>]}
    /\ UNCHANGED <<cfg, server, shown, metaLoading, asked, overtaken, quotaVars, priceVars>>

\* Mutant of MetaArrives: the effect's clean-up is forgotten.
MetaArrivesAnyway(q) ==
    /\ q.answer # <<>> /\ asks' = asks \ {q}
    /\ shown' = [n |-> q.n, cfg |-> q.cfg, files |-> q.answer[1]] /\ metaLoading' = FALSE
    /\ overtaken' = (q.n < asked /\ (overtaken \/ (q.n < shown.n /\ (q.kind = "refresh" \/ q.cfg = cfg))))
    /\ UNCHANGED <<cfg, server, asked, quotaVars, priceVars, left>>

\* applyMetaPayload, unless the effect was cancelled; a refresh never is.
MetaArrives(q) ==
    /\ q.answer # <<>> /\ asks' = asks \ {q}
    /\ IF q.cancelled THEN UNCHANGED <<shown, metaLoading, overtaken>>
       ELSE /\ shown' = [n |-> q.n, cfg |-> q.cfg, files |-> q.answer[1]]
            /\ metaLoading' = FALSE
            /\ overtaken' = (q.n < asked /\ (overtaken \/ (q.n < shown.n /\ (q.kind = "refresh" \/ q.cfg = cfg))))
    /\ UNCHANGED <<cfg, server, asked, quotaVars, priceVars, left>>

(* ---------------------------- account quotas --------------------------- *)

\* loadAccountQuota up to its requests: the account and its quotas are loading, an older
\* load of the account is stale from here on.
LoadAccountQuota(a) ==
    LET targets == Targets(a)
        id == requestIds[a] + 1
        stale == {l \in loads : l.account = a /\ l.id = requestIds[a]}
    IN  /\ requestIds' = [requestIds EXCEPT ![a] = id]
        /\ accountQuota' = [accountQuota EXCEPT ![a] =
                [status |-> IF targets = {} THEN "success" ELSE "loading", targets |-> targets]]
        /\ store' = [k \in AllKeys |-> IF k \in Keys(targets) THEN [status |-> "loading", by |-> <<a, id>>] ELSE store[k]]
        /\ loads' = IF targets = {} THEN loads ELSE loads \cup {[account |-> a, id |-> id, targets |-> targets]}
        /\ orphans' = (orphans \cup UNION {Keys(l.targets) : l \in stale}) \ Keys(targets)

\* The early return: an account that was asked for with the same targets is not asked again.
Fresh(a) == accountQuota[a].status # "none" /\ accountQuota[a].targets = Targets(a)

\* toggleAccountExpanded: opening a card loads the quotas.
ToggleAccount(a) ==
    /\ Spend("quota") /\ a \in Cards
    /\ expanded' = IF a \in expanded THEN expanded \ {a} ELSE expanded \cup {a}
    /\ IF a \in expanded \/ Fresh(a) THEN UNCHANGED <<accountQuota, requestIds, loads, store, orphans>>
       ELSE LoadAccountQuota(a)
    /\ UNCHANGED <<metaVars, priceVars>>

\* The refresh button of an open card, disabled while the account is loading.
RefreshQuota(a) ==
    /\ Spend("quota") /\ a \in Cards \cap expanded /\ accountQuota[a].status # "loading"
    /\ LoadAccountQuota(a)
    /\ UNCHANGED <<expanded, metaVars, priceVars>>

\* Mutant of Stale: the request id is not compared after the answers.
NeverStale(l) == FALSE

Stale(l) == requestIds[l.account] # l.id

\* All requests of a load are settled, each with a quota or an error; a stale load writes nothing.
LoadSettles(l) ==
    /\ loads' = loads \ {l}
    /\ IF Stale(l) THEN UNCHANGED <<accountQuota, store, orphans>>
       ELSE \E outcome \in [Keys(l.targets) -> {"success", "error"}] :
            LET any == \E k \in Keys(l.targets) : outcome[k] = "success"
            IN  /\ store' = [k \in AllKeys |-> IF k \in Keys(l.targets)
                                               THEN [status |-> outcome[k], by |-> <<l.account, l.id>>] ELSE store[k]]
                /\ accountQuota' = [accountQuota EXCEPT ![l.account].status = IF any THEN "success" ELSE "error",
                                                        ![l.account].targets = l.targets]
                /\ orphans' = orphans \ Keys(l.targets)
    /\ UNCHANGED <<expanded, requestIds, metaVars, priceVars, left>>

(* ----------------------------- model prices ---------------------------- *)

Put(n, value) == [n |-> n, value |-> value]

\* GET /usage/model-prices reaches the server, or fails.
PricesAnswered ==
    /\ priceLoad.stage = "asked"
    /\ priceLoad' \in {[stage |-> "answered", value |-> stored], [stage |-> "failed", value |-> NoPrices]}
    /\ UNCHANGED <<prices, stored, legacy, puts, sent, editor, meant, excuses, applied, metaVars, quotaVars, left>>

\* syncModelPrices: the database's prices are shown, or the browser's old ones written to it.
PricesArrive ==
    LET migrate == priceLoad.stage = "answered" /\ priceLoad.value = NoPrices /\ legacy # NoPrices
    IN  /\ priceLoad.stage \in {"answered", "failed"} /\ priceLoad' = [stage |-> "done", value |-> NoPrices]
        /\ prices' = IF priceLoad.value # NoPrices THEN priceLoad.value ELSE prices
        /\ sent' = IF migrate THEN sent + 1 ELSE sent
        /\ puts' = IF migrate THEN puts \cup {Put(sent + 1, legacy)} ELSE puts
        /\ excuses' = IF priceLoad.stage = "failed" THEN excuses \cup {"unread"} ELSE excuses
        /\ UNCHANGED <<stored, legacy, editor, meant, applied, metaVars, quotaVars, left>>

\* handlePriceModelChange.
SelectModel(m) ==
    /\ Spend("select") /\ editor' = m
    /\ UNCHANGED <<prices, stored, legacy, priceLoad, puts, sent, meant, excuses, applied, metaVars, quotaVars>>

With(map, m, price) == [x \in DOMAIN map \cup {m} |-> IF x = m THEN price ELSE map[x]]
Without(map, m) == [x \in DOMAIN map \ {m} |-> map[x]]

\* setModelPrices: the page shows the prices at once; the whole map is sent, not waited for.
SetModelPrices(map) ==
    /\ prices' = map /\ sent' = sent + 1 /\ puts' = puts \cup {Put(sent + 1, map)}
    /\ excuses' = IF priceLoad.stage = "done" THEN excuses ELSE excuses \cup {"early"}

\* handleSavePrice, with whatever price the draft stands for.
SavePrice(price) ==
    /\ Spend("edit") /\ editor # NoModel
    /\ SetModelPrices(With(prices, editor, price)) /\ meant' = With(meant, editor, price)
    /\ UNCHANGED <<stored, legacy, priceLoad, editor, applied, metaVars, quotaVars>>

\* Mutant of DeletePrice: only the page forgets the price.
DeletePriceHere(m) ==
    /\ Spend("edit") /\ m \in DOMAIN prices
    /\ prices' = Without(prices, m) /\ meant' = Without(meant, m)
    /\ editor' = IF editor = m THEN NoModel ELSE editor
    /\ UNCHANGED <<puts, sent, excuses, stored, legacy, priceLoad, applied, metaVars, quotaVars>>

\* handleDeletePrice: the editor is reset if it held the model.
DeletePrice(m) ==
    /\ Spend("edit") /\ m \in DOMAIN prices
    /\ SetModelPrices(Without(prices, m)) /\ meant' = Without(meant, m)
    /\ editor' = IF editor = m THEN NoModel ELSE editor
    /\ UNCHANGED <<stored, legacy, priceLoad, applied, metaVars, quotaVars>>

\* PUT /usage/model-prices replaces all prices.
PutApplied(p) ==
    /\ puts' = puts \ {p} /\ stored' = p.value /\ applied' = Larger(applied, p.n)
    /\ excuses' = IF p.n < applied THEN excuses \cup {"overtaken"} ELSE excuses
    /\ UNCHANGED <<prices, legacy, priceLoad, sent, editor, meant, metaVars, quotaVars, left>>

\* A write that fails is only logged.
PutLost(p) ==
    /\ puts' = puts \ {p} /\ excuses' = excuses \cup {"lost"} /\ Spend("lost")
    /\ UNCHANGED <<prices, stored, legacy, priceLoad, sent, editor, meant, applied, metaVars, quotaVars>>

\* Another tab, or an import: the page does not read the prices again.
OthersPrice ==
    /\ Spend("others") /\ stored' \in PriceLists /\ excuses' = excuses \cup {"others"}
    /\ UNCHANGED <<prices, legacy, priceLoad, puts, sent, editor, meant, applied, metaVars, quotaVars>>

\* The page is loaded anew: the old storage is never cleared, so an emptied list is filled
\* from it.  (The quotas the browser keeps are QuotaSync's.)
Reload ==
    LET page == Mounted(cfg, asked + 1)
        sure == puts = {} /\ excuses = {} /\ priceLoad.stage = "done"
    IN  /\ Spend("reload")
        /\ asked' = asked + 1 /\ asks' = page.asks /\ shown' = page.shown /\ metaLoading' = TRUE /\ overtaken' = FALSE
        /\ expanded' = {} /\ loads' = {} /\ orphans' = {}
        /\ accountQuota' = page.accountQuota /\ requestIds' = page.requestIds /\ store' = page.store
        /\ prices' = legacy /\ priceLoad' = page.priceLoad /\ editor' = NoModel
        /\ meant' = IF sure THEN meant ELSE Settled(stored, legacy)
        /\ excuses' = (IF puts # {} THEN {"unsaved"} ELSE {})
                        \cup (IF sure /\ meant = NoPrices /\ legacy # NoPrices THEN {"reborn"} ELSE {})
        /\ UNCHANGED <<cfg, server, stored, legacy, puts, sent, applied>>

PageNext ==
    \/ ConfigChanges \/ RefreshAll \/ FilesChange
    \/ \E q \in asks : MetaAnswered(q) \/ MetaArrives(q)
    \/ \E a \in Accounts : ToggleAccount(a) \/ RefreshQuota(a)
    \/ \E l \in loads : LoadSettles(l)
    \/ PricesAnswered \/ PricesArrive
    \/ \E m \in Models : SelectModel(m) \/ DeletePrice(m)
    \/ \E price \in Prices : SavePrice(price)
    \/ \E p \in puts : PutApplied(p) \/ PutLost(p)
    \/ OthersPrice \/ Reload

PageSpec == PageInit /\ [][PageNext]_pageVars

(* ------------------------------ properties ----------------------------- *)

\* Once no request for metadata is under way the page is not loading and shows the answer
\* of its newest request, with the configuration it renders; only an answer of the same
\* configuration or of a refresh, neither of which is cancelled, may have been put over a
\* newer one (useMonitoringData's effect and refreshMeta).
MetaSettles == asks = {} => ~metaLoading /\ (overtaken \/ (shown.n = asked /\ shown.cfg = cfg))

\* Once no quota load is under way no account is loading; a quota is left loading only if its
\* load was given up for one without it; and what an account shows of its own targets, and
\* whether it succeeded, is of its newest load (loadAccountQuota's request ids).
QuotaSettles ==
    loads = {} =>
        /\ \A a \in Accounts : accountQuota[a].status # "loading"
        /\ \A k \in AllKeys : store[k].status = "loading" => k \in orphans
        /\ \A a \in Accounts :
            LET keys == Keys(accountQuota[a].targets)
                own == {k \in keys : store[k].by # <<>> /\ store[k].by[1] = a}
            IN  /\ \A k \in own : store[k].by[2] = requestIds[a]
                /\ own = keys /\ keys # {} =>
                    (accountQuota[a].status = "success" <=> \E k \in keys : store[k].status = "success")

\* Once the prices are read and written, page and database hold the prices as the user left
\* them, over reloads too.  The exceptions are named: an edit before the read is answered, a
\* failed read or write, writes that arrive out of order, another tab or an import, a reload
\* over a write, and an emptied list that the browser's old storage fills again.
PricesAsSaved ==
    priceLoad.stage = "done" /\ puts = {} /\ excuses = {} => prices = stored /\ stored = meant
=============================================================================
