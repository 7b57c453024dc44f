-------------------------- MODULE MCMonitoringPage --------------------------
(***************************************************************************)
(* A small instance of the monitoring page, and the reference checks of    *)
(* its pure operators.  Two auth files, one of which changes its account   *)
(* in the second list; a day has eight ticks, an hour two.                 *)
(***************************************************************************)
EXTENDS MonitoringPage, UsagePayload

(* ------------------------------- instance ------------------------------ *)

MCFileNames == {"one.json", "two.json"}
MCSecretOf == [text \in {"secret", "Bearer secret"} |-> "secret"]

NoItems == <<>>
Config(openai, apiKeys) ==
    [gemini |-> NoItems, claude |-> NoItems, codex |-> NoItems, antigravity |-> NoItems, vertex |-> NoItems,
     openai |-> openai, apiKeys |-> apiKeys]
Mirror == [name |-> "mirror", prefix |-> "", baseUrl |-> "url", index |-> "", disabled |-> FALSE, models |-> {"m"},
           keys |-> <<[key |-> "secret", index |-> "i3"]>>]
MCConfigs == <<Config(<<Mirror>>, <<>>), Config(<<>>, <<"h1">>)>>

File(index, name, provider, email) ==
    [index |-> index, name |-> name, provider |-> provider, names |-> <<email, "", "", "", "">>, status |-> "active",
     disabled |-> FALSE, unavailable |-> FALSE, runtimeOnly |-> FALSE]
MCFileLists == <<<<File("i1", "one.json", "claude", "ann"), File("i2", "two.json", "codex", "ann")>>,
                 <<File("i1", "one.json", "claude", "ann"), File("i2", "two.json", "codex", "bob")>>>>

RawTokens(in, out) == [input |-> in, output |-> out, reasoning |-> 0, cached |-> 0, read |-> 0, created |-> 0, cache |-> 0, total |-> 0]
Raw(time, index, in, out, failed) ==
    [time |-> time, source |-> "", index |-> index, keyHash |-> "", provider |-> "", authType |-> "", latency |-> <<>>,
     tokens |-> RawTokens(in, out), failed |-> failed]
Api(model, details) == [endpoint |-> "POST /v1", models |-> <<[model |-> model, details |-> details]>>]
MCDetails == CollectUsageDetails(<<Api("m", <<Raw(9, "i1", 3, 1, FALSE), Raw(5, "i2", 1, 1, FALSE), Raw(7, "i3", 1, 0, TRUE)>>)>>)

One == <<"claude", "i1", "one.json">>
Two == <<"codex", "i2", "two.json">>
CardTable(pages, configs, files, account, targets) ==
    {[page |-> p, payload |-> [cfg |-> c, files |-> f], account |-> account, targets |-> targets] :
        p \in pages, c \in configs, f \in files}
MCAllCards ==
    CardTable(1..2, 1..2, {-1, 0}, "deleted", {}) \cup CardTable({2}, {2}, 1..2, "deleted", {})
        \cup CardTable({1}, 1..2, -1..2, "mirror", {}) \cup CardTable({2}, {1}, 0..2, "i3", {})
        \cup CardTable(1..2, 1..2, {1}, "ann", {One, Two})
        \cup CardTable(1..2, 1..2, {2}, "ann", {One}) \cup CardTable(1..2, 1..2, {2}, "bob", {Two})

MCModels == {"m", "n"}
MCPrices == {1, 2}
MCPriceLists == {NoPrices, [m \in {"m"} |-> 1], [m \in {"m", "n"} |-> 2]}
OldPrices == [m \in {"n"} |-> 1]

Events(answer, config, refresh, files, quota, select, edit, lost, others, reload) ==
    [answer |-> answer, config |-> config, refresh |-> refresh, files |-> files, quota |-> quota, select |-> select, edit |-> edit,
     lost |-> lost, others |-> others, reload |-> reload]
From(events, inDatabase, inBrowser) == [events |-> events, stored |-> inDatabase, legacy |-> inBrowser]
\* Metadata under changes; quotas over changing auth files; prices, from any start.
MCScenarios ==
    {From(Events(5, 1, 2, 1, 0, 0, 0, 0, 0, 1), NoPrices, NoPrices),
     From(Events(2, 0, 1, 1, 4, 0, 0, 0, 0, 0), NoPrices, NoPrices)}
        \cup {From(e, p, l) : e \in {Events(0, 0, 0, 0, 0, 2, 2, 1, 0, 1), Events(0, 0, 0, 0, 0, 1, 1, 0, 1, 1)},
                               p \in MCPriceLists, l \in {NoPrices, OldPrices}}

(* --------------------------- reference checks -------------------------- *)

\* Lists of up to three rows: successes and failures, counted or not, of three accounts,
\* one of them still to come.
RawDetails == {Raw(9, "i1", 3, 1, FALSE), Raw(9, "i1", 0, 0, TRUE), Raw(5, "i3", 0, 0, FALSE), Raw(2, "i2", 1, 1, FALSE),
               Raw(13, "i1", 2, 0, FALSE)}
RowsOf(raws) ==
    LET config == MCConfigs[1]
        ctx == Context(config, MetaPayload(config, <<MCFileLists[1]>>, <<config.openai>>), NoPrices)
    IN  [k \in DOMAIN raws |-> EventRow(CollectUsageDetails(<<Api("m", <<raws[k]>>)>>)[1], ctx)]
RowLists == {RowsOf(raws) : raws \in BoundedSeq(RawDetails, 3)}
SortedLists == {NewestFirst(rows) : rows \in RowLists}
Ranges == DOMAIN DaysBack \cup {"all"}

\* Every detail becomes a row, newest first (collectUsageDetailsWithEndpoint, buildEventRows).
ASSUME DetailsAssumption ==
    \A raws \in BoundedSeq(RawDetails, 3) :
        LET all == CollectUsageDetails(<<Api("m", raws), Api("n", raws)>>)
        IN  Len(all) = 2 * Len(raws) /\ \A k \in 1..Len(all) - 1 : all[k].time >= all[k + 1].time

\* The pattern built row by row is that of the newest rows, in whatever order they come.
ASSUME PatternAssumption ==
    \A rows \in RowLists :
        LET newest == Reverse(First(NewestFirst(rows), PatternLength))
        IN  RecentPattern(rows) = [k \in DOMAIN newest |-> ~newest[k].failed]

\* A row of the log counts the rows of its stream up to itself.
ASSUME LogAssumption ==
    \A rows \in SortedLists :
        LET log == RealtimeLogRows(rows)
            older(k) == {j \in k..Len(rows) : StreamKey(rows[j]) = StreamKey(rows[k])}
        IN  /\ Len(log) = Len(rows)
            /\ \A k \in DOMAIN rows :
                /\ log[k].total = Cardinality({j \in older(k) : rows[j].counted})
                /\ log[k].success = Cardinality({j \in older(k) : rows[j].counted /\ ~rows[j].failed})
                /\ Len(log[k].pattern) = Min({Cardinality(older(k)), PatternLength})
                /\ Last(log[k].pattern) = ~rows[k].failed

\* The pages of the log, one after the other, are its rows, with their numbers.
ASSUME PagesAssumption ==
    \A rows \in SortedLists, size \in 1..3 :
        LET pages == LogPage(rows, 1, size).range.pages
            page(k) == LogPage(rows, k, size)
        IN  /\ FlattenSeq([k \in 1..pages |-> page(k).rows]) = rows
            /\ \A k \in 1..pages :
                /\ page(k).rows = SubSeq(rows, page(k).range.from, page(k).range.to)
                /\ page(k).range.hasNext = (k < pages) /\ page(k).range.hasPrevious = (k > 1)
            /\ page(pages + 1).rows = page(pages).rows

\* The blocks of the status bar, the accounts, models and keys and the points of a trend that
\* shows all its buckets each count every row once.
CallsOf(groups) == MapThenSumSet(LAMBDA g : groups[g].sums.calls, DOMAIN groups)
ASSUME TotalsAssumption ==
    \A rows \in SortedLists :
        /\ \A range \in Ranges :
            LET bar == StatusData(rows, StatusRange(rows, range, Now))
                ranged == RangeFilteredRows(rows, range, Now, Range(rows), 0)
                trend == UsageTrendAnalytics(ranged.rows, range, Now, <<>>)
            IN  /\ bar.success + bar.failure = ranged.total
                /\ bar.success = MapThenSumSet(LAMBDA b : bar.blocks[b].success, DOMAIN bar.blocks)
                /\ bar.failure = MapThenSumSet(LAMBDA b : bar.blocks[b].failure, DOMAIN bar.blocks)
                /\ CallsOf(trend.modelRows) = ranged.total /\ CallsOf(trend.apiKeyRows) = ranged.total
                /\ range # "d30" => trend.totals.calls = SumOver(trend.trendPoints, LAMBDA point : point.calls)
        /\ MapThenSumSet(LAMBDA g : AccountRows(rows)[g].group.sums.calls, DOMAIN AccountRows(rows)) = Len(rows)

\* A filter left after the options changed still finds rows.
ASSUME FiltersAssumption ==
    \A rows \in SortedLists, model \in {<<>>, <<"m">>, <<"gone">>}, key \in {<<>>, <<<<"unknown">>>>} :
        LET f == ResetFilters([provider |-> <<>>, model |-> model, key |-> key, status |-> <<>>], rows)
        IN  rows # <<>> => Scoped(rows, f) # <<>>

\* A chart has its first and its last label, and ten at most.
ASSUME LabelsAssumption ==
    \A n \in 1..60 : Cardinality(ChartAxisLabels(n)) <= 10 /\ {0, n - 1} \subseteq ChartAxisLabels(n)

\* What a dialog is opened with is what it saves.
ASSUME DraftsAssumption ==
    /\ \A retention, backups \in 0..2, interval \in 1..2, enabled \in BOOLEAN, url \in {"", "u"} :
        LET s == [retention |-> retention, enabled |-> enabled, interval |-> interval, backups |-> backups, url |-> url]
        IN  SettingsOf(SettingsDraft(s)) = s
    /\ \A price \in [prompt : 0..2, completion : 0..2, cache : 0..2] :
        PriceOfDraft(PriceDraft("m", [m \in {"m"} |-> price])) = price

\* Prices once normalised stay as they are.
ASSUME PricesAssumption ==
    \A p, c \in -1..1, cache \in {<<>>, <<-1>>, <<0>>, <<2>>} :
        LET once == NormalizeModelPrices([m \in {"m", ""} |-> [prompt |-> p, completion |-> c, cache |-> cache]])
        IN  once = NormalizeModelPrices([m \in DOMAIN once |-> [once[m] EXCEPT !.cache = <<once[m].cache>>]])

\* Trimming keeps the newest details; merging keeps the count.
TimeLists == {times \in BoundedSeq(1..3, 3) : \A k \in 1..Len(times) - 1 : times[k] <= times[k + 1]}
Payload(a, b) ==
    LET listed(key, times) == [k \in DOMAIN times |-> [time |-> times[k], id |-> <<key, k>>]]
    IN  [order |-> <<<<"e", "a">>, <<"e", "b">>>>, requests |-> Len(a) + Len(b), count |-> Len(a) + Len(b), limited |-> FALSE,
         latest |-> Max({0} \cup ToSet(a) \cup ToSet(b)),
         details |-> [key \in {<<"e", "a">>, <<"e", "b">>} |-> listed(key, IF key[2] = "a" THEN a ELSE b)]]
ASSUME TrimAssumption ==
    \A a, b \in TimeLists :
        LET p == Payload(a, b)
            refs == ToSet(Refs(p))
            newest == {r \in refs : Cardinality({q \in refs : AheadOf(q, r)}) < Retention}
            t == Trim(p)
            merged == Merge(p, [Payload(b, a) EXCEPT !.latest = p.latest + 1])
        IN  /\ Len(a) + Len(b) > Retention + TrimBuffer =>
                /\ UNION {ToSet(t.details[key]) : key \in DOMAIN t.details} = {r.detail : r \in newest}
                /\ \A key \in DOMAIN t.details :
                    \A k \in 1..Len(t.details[key]) - 1 : t.details[key][k].time <= t.details[key][k + 1].time
            /\ t.count = CountDetails(t) /\ merged.count = CountDetails(merged)
            /\ merged.count <= Retention + TrimBuffer /\ merged.requests = 2 * p.requests
=============================================================================
