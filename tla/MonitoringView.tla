--------------------------- MODULE MonitoringView ---------------------------
(***************************************************************************)
(* What the monitoring page shows of the event rows: ranges, summaries,    *)
(* rankings, trends, accounts, the request log (hooks/useMonitoringData.ts *)
(* and pages/MonitoringCenterPage.tsx).  Pure operators only.  Time is     *)
(* counted in ticks; days have one length.  Rates and averages are the     *)
(* pairs of numbers they divide, <<0, 0>> for an empty one.                *)
(***************************************************************************)
EXTENDS MonitoringRows, FiniteSetsExt

CONSTANTS DayLength, HourLength,    \* ticks of a day and of an hour
          WindowLength,             \* the half hour of the rates per minute
          Blocks, BlockLength,      \* the status bar: number of blocks, length of the shortest
          PatternLength,            \* outcomes of a recent pattern: 10
          Points,                   \* points of a trend: 24
          StatsLimit, LogLimit      \* rows that accounts and the log look at

ASSUME ViewAssumption ==
    /\ {DayLength, HourLength, WindowLength, Blocks, BlockLength, PatternLength, Points, StatsLimit, LogLimit}
         \subseteq Nat \ {0}
    /\ DayLength % HourLength = 0

SumOver(rows, Value(_)) == MapThenSumSet(LAMBDA k : Value(rows[k]), DOMAIN rows)
Values(rows, Value(_)) == {Value(rows[k]) : k \in DOMAIN rows}
First(s, n) == SubSeq(s, 1, IF Len(s) < n THEN Len(s) ELSE n)
LastOf(s, n) == SubSeq(s, IF Len(s) > n THEN Len(s) - n + 1 ELSE 1, Len(s))

(* -------------------------------- ranges ------------------------------- *)

DaysBack == [today |-> 0, d7 |-> 6, d14 |-> 13, d30 |-> 29]
DayOf(t) == t \div DayLength
HourOf(t) == t \div HourLength
DayStart(t) == DayOf(t) * DayLength

\* getRangeStartMs; "all" has no start.
InRange(t, range, now) ==
    /\ t <= now
    /\ range = "all" \/ t >= DayStart(now) - DaysBack[range] * DayLength

\* buildRangeFilteredRows: the limit cuts the rows the search found, not their number.
RangeFilteredRows(rows, range, now, found, limit) ==
    LET kept == SelectSeq(rows, LAMBDA r : InRange(r.time, range, now) /\ r \in found)
    IN  [rows |-> IF limit = 0 THEN kept ELSE First(kept, limit), total |-> Len(kept)]

(* ------------------------------- summaries ----------------------------- *)

\* The sums every group of rows keeps.
Sums(rows) ==
    LET calls == Len(rows)
        failures == Len(SelectSeq(rows, LAMBDA r : r.failed))
        timed == SelectSeq(rows, LAMBDA r : r.latency # <<>>)
    IN  [calls |-> calls, successes |-> calls - failures, failures |-> failures,
         input |-> SumOver(rows, LAMBDA r : r.input), output |-> SumOver(rows, LAMBDA r : r.output),
         reasoning |-> SumOver(rows, LAMBDA r : r.reasoning), cached |-> SumOver(rows, LAMBDA r : r.cached),
         total |-> SumOver(rows, LAMBDA r : r.total), cost |-> SumOver(rows, LAMBDA r : r.cost),
         latency |-> <<SumOver(timed, LAMBDA r : r.latency[1]), Len(timed)>>,
         lastSeen |-> Max({0} \cup Values(rows, LAMBDA r : r.time))]

\* buildMonitoringSummary and the page's accumulator: a task fails with any of its calls.
Summary(rows, now) ==
    LET s == Sums(rows)
        tasks == Values(rows, LAMBDA r : r.task)
        failed == Values(SelectSeq(rows, LAMBDA r : r.failed), LAMBDA r : r.task)
        days == Larger(Cardinality(Values(rows, LAMBDA r : DayOf(r.time))), 1)
        recent == SelectSeq(rows, LAMBDA r : r.time >= now - WindowLength /\ r.time <= now)
        zero == SelectSeq(rows, LAMBDA r : r.total = 0)
    IN  [sums |-> s, successRate |-> <<s.successes, s.calls>>,
         recentCalls |-> Len(recent), recentTokens |-> SumOver(recent, LAMBDA r : r.total),
         daily |-> <<s.calls, s.total, days>>, tasks |-> Cardinality(tasks), taskFailures |-> Cardinality(failed),
         zeroCalls |-> Len(zero), zeroModels |-> Values(zero, LAMBDA r : r.model)]

\* usageRowGroups: only the counted rows; today's rows include those still to come.
UsageRowGroups(rows, range, now) ==
    LET counted == SelectSeq(rows, LAMBDA r : r.counted)
        today == SelectSeq(counted, LAMBDA r : DayOf(r.time) = DayOf(now))
        yesterday == SelectSeq(counted, LAMBDA r : DayOf(r.time) = DayOf(now) - 1)
        trend == SelectSeq(counted, LAMBDA r : InRange(r.time, range, now))
    IN  [trendRows |-> trend, top |-> Summary(counted, now), today |-> Summary(today, now), trend |-> Summary(trend, now),
         todayCost |-> Sums(today).cost, yesterdayCost |-> Sums(yesterday).cost]

\* formatDeltaPercent: the change in percent, 100 from nothing.
DeltaPercent(current, previous) ==
    IF previous <= 0 THEN IF current > 0 THEN 100 ELSE 0 ELSE ((current - previous) * 100) \div previous

(* -------------------------- rankings and trends ------------------------ *)

\* Rows by their group, groupOf[row]: [group |-> sums, with the names seen].
Grouped(rows, groupOf) ==
    [g \in Values(rows, LAMBDA r : groupOf[r]) |->
        LET own == SelectSeq(rows, LAMBDA r : groupOf[r] = g)
        IN  [sums |-> Sums(own), labels |-> Values(own, LAMBDA r : r.label), channels |-> Values(own, LAMBDA r : r.channel),
             indices |-> Values(own, LAMBDA r : r.authIndex), providers |-> Values(own, LAMBDA r : r.provider)]]

\* buildFilledTrendBuckets: the hours of today, or the days of the range.
FilledTrendBuckets(range, now) ==
    CASE range = "all" -> {}
      [] range = "today" -> HourOf(DayStart(now))..HourOf(now)
      [] OTHER -> DayOf(now) - DaysBack[range]..DayOf(now)
BucketOf(t, range) == IF range = "today" THEN HourOf(t) ELSE DayOf(t)

\* The points by time, the last ones only.
LastPoints(points) == [b \in {b \in DOMAIN points : Cardinality({c \in DOMAIN points : c > b}) < Points} |-> points[b]]

\* buildUsageTrendAnalytics: keys are ranked over all rows, the rest over the filter's.
UsageTrendAnalytics(rows, range, now, filter) ==
    LET scoped == SelectSeq(rows, LAMBDA r : filter = <<>> \/ r.key = filter)
        bucket(r) == BucketOf(r.time, range)
        used == Values(scoped, bucket)
        point(b) == Sums(SelectSeq(scoped, LAMBDA r : bucket(r) = b))
        trend == [b \in FilledTrendBuckets(range, now) \cup used |-> point(b)]
        tokens == [b \in used |-> point(b)]
    IN  [apiKeys |-> Values(rows, LAMBDA r : r.key) \ {<<"unknown">>}, totals |-> Sums(scoped),
         trendPoints |-> LastPoints(trend), tokenPoints |-> LastPoints(tokens),
         modelRows |-> Grouped(scoped, [r \in Range(scoped) |-> r.model]),
         apiKeyRows |-> Grouped(rows, [r \in Range(rows) |-> r.key])]

\* getRankingMetricValue, getAccountSortValue.
MetricValue(sums, metric) ==
    CASE metric = "cost" -> sums.cost [] metric = "tokens" -> sums.total [] metric = "recent" -> sums.lastSeen [] OTHER -> sums.calls

\* The order of a ranking: by the metric, then by the given tie-breaks.
Ahead(a, b, keys) ==
    \E k \in DOMAIN keys :
        /\ MetricValue(a, keys[k]) > MetricValue(b, keys[k])
        /\ \A j \in 1..k - 1 : MetricValue(a, keys[j]) = MetricValue(b, keys[j])
ModelOrder(metric) == <<metric, "tokens", "requests">>
ApiKeyOrder(metric) == <<metric, "requests", "cost">>
AccountOrder(metric) == <<metric, "recent", "requests">>

\* getChartAxisLabels: the positions of about eight labels, the last one always.
ChartAxisLabels(n) ==
    IF n <= 10 THEN 0..n - 1
    ELSE LET step == ((n - 1) + 7) \div 8 IN {k \in 0..n - 1 : k % step = 0} \cup {n - 1}

(* ------------------------------- accounts ------------------------------ *)

\* addRecentPatternRow: the newest rows, newest first, built one by one.
AddRecentRow(recent, row) ==
    LET at == SelectInSeq(recent, LAMBDA r : row.time > r.time)
    IN  IF at = 0 THEN IF Len(recent) < PatternLength THEN Append(recent, row) ELSE recent
        ELSE First(SubSeq(recent, 1, at - 1) \o <<row>> \o SubSeq(recent, at, Len(recent)), PatternLength)

\* recentPatternFromRows: oldest first, whether each succeeded.
RecentPattern(rows) ==
    LET recent == FoldLeft(AddRecentRow, <<>>, rows) IN [k \in DOMAIN recent |-> ~Reverse(recent)[k].failed]

\* getGroupIdentity: an account per channel; a deleted credential per index.
AccountGroup(r) ==
    <<Or(r.account, Or(r.label, "-")), IF r.deleted THEN r.authIndex ELSE "", IF r.channel = "-" THEN "" ELSE r.channel>>

AccountRows(rows) ==
    LET looked == First(rows, StatsLimit)
        groups == Grouped(looked, [r \in Range(looked) |-> AccountGroup(r)])
    IN  [g \in DOMAIN groups |->
            LET own == SelectSeq(looked, LAMBDA r : AccountGroup(r) = g)
            IN  [account |-> own[1].account, group |-> groups[g], pattern |-> RecentPattern(own), rows |-> own,
                 models |-> Grouped(own, [r \in Range(own) |-> r.model])]]

\* getAccountHealthTone.
HealthTone(sums) ==
    CASE sums.calls = 0 \/ sums.successes * 100 >= sums.calls * 95 -> "good"
      [] sums.calls > 0 /\ sums.successes * 100 < sums.calls * 95 /\ sums.successes * 100 >= sums.calls * 85 -> "warn"
      [] OTHER -> "bad"

\* buildAccountStatusRange: "all" starts at the oldest event, if there is one.
StatusRange(rows, range, now) ==
    [start |-> IF range # "all" THEN DayStart(now) - DaysBack[range] * DayLength
               ELSE IF rows = <<>> THEN now - Blocks * BlockLength ELSE Min(Values(rows, LAMBDA r : r.time)),
     end |-> now]

\* buildAccountStatusData: every event of the range falls into one block.
StatusData(rows, span) ==
    LET duration == Larger(span.end - span.start, BlockLength)
        block(t) == Min({Blocks - 1, Larger(((t - span.start) * Blocks) \div duration, 0)})
        seen == SelectSeq(rows, LAMBDA r : r.time >= span.start /\ r.time <= span.end)
        own(b) == SelectSeq(seen, LAMBDA r : block(r.time) = b)
    IN  [blocks |-> [b \in 0..Blocks - 1 |-> [success |-> Sums(own(b)).successes, failure |-> Sums(own(b)).failures]],
         success |-> Sums(seen).successes, failure |-> Sums(seen).failures]

(* ----------------------------- request log ----------------------------- *)

\* scopedRows; a filter's "all" is <<>>.
Scoped(rows, f) ==
    SelectSeq(rows, LAMBDA r : /\ f.provider = <<>> \/ r.provider = f.provider[1]
                               /\ f.model = <<>> \/ r.model = f.model[1]
                               /\ f.key = <<>> \/ r.key = f.key[1]
                               /\ f.status = <<>> \/ r.failed = (f.status[1] = "failed"))

\* The options of the filters, and a filter whose value they lack is reset.
FilterOptions(rows) ==
    [provider |-> Values(rows, LAMBDA r : r.provider), model |-> Values(rows, LAMBDA r : r.model),
     key |-> Values(rows, LAMBDA r : r.key) \ {<<"unknown">>}]
ResetFilters(f, rows) ==
    LET Kept(field) == f[field] = <<>> \/ f[field][1] \in FilterOptions(rows)[field]
    IN  [field \in DOMAIN f |-> IF field = "status" \/ Kept(field) THEN f[field] ELSE <<>>]

\* buildRealtimeLogRows: from the oldest row on, each stream's counts and last outcomes.
StreamKey(r) == <<r.account, r.provider, r.model, r.channel>>
RealtimeLogRows(rows) ==
    LET looked == First(rows, LogLimit)
        n == Len(looked)
        empty == [total |-> 0, success |-> 0, pattern |-> <<>>]
        next(m, r) == [total |-> m.total + (IF r.counted THEN 1 ELSE 0),
                       success |-> m.success + (IF r.counted /\ ~r.failed THEN 1 ELSE 0),
                       pattern |-> LastOf(Append(m.pattern, ~r.failed), PatternLength)]
        step(acc, r) ==
            LET m == next(acc.metrics[StreamKey(r)], r)
            IN  [metrics |-> [acc.metrics EXCEPT ![StreamKey(r)] = m], out |-> <<m>> \o acc.out]
    IN  FoldLeft(step, [metrics |-> [s \in Values(looked, StreamKey) |-> empty], out |-> <<>>], Reverse(looked)).out

\* getClientPaginationRange.
ClientPaginationRange(page, size, total, visible) ==
    LET at == Larger(1, page)
        pages == (total + size - 1) \div size
        from == IF total > 0 /\ visible > 0 THEN (at - 1) * size + 1 ELSE 0
    IN  [page |-> at, pages |-> pages, from |-> from,
         to |-> IF visible > 0 THEN Min({total, from + visible - 1}) ELSE 0,
         hasPrevious |-> at > 1, hasNext |-> at < pages]
LogPage(rows, page, size) ==
    LET pages == (Len(rows) + size - 1) \div size
        at == Min({Larger(1, page), Larger(1, pages)})
        shown == SubSeq(rows, (at - 1) * size + 1, Min({at * size, Len(rows)}))
    IN  [rows |-> shown, range |-> ClientPaginationRange(at, size, Len(rows), Len(shown))]

(* ------------------------ settings and price drafts -------------------- *)

\* The draft of the settings dialog: fields are texts, a text is <<>> or its number.
SettingsDraft(s) == [retention |-> <<s.retention>>, enabled |-> s.enabled, interval |-> <<s.interval>>,
                     backups |-> <<s.backups>>, url |-> s.url]
SettingsOf(draft) ==
    LET number(text, least, default) == IF text # <<>> /\ text[1] >= least THEN text[1] ELSE default
    IN  [retention |-> number(draft.retention, 0, 0), enabled |-> draft.enabled, interval |-> number(draft.interval, 1, 1440),
         backups |-> number(draft.backups, 0, 0), url |-> draft.url]
CanSaveSettings(draft) == SettingsOf(draft).enabled => SettingsOf(draft).url # ""

\* createPriceDraft, handleSavePrice: an empty cache price is the prompt's.
PriceDraft(model, prices) ==
    IF model \in DOMAIN prices
    THEN [prompt |-> <<prices[model].prompt>>, completion |-> <<prices[model].completion>>, cache |-> <<prices[model].cache>>]
    ELSE [prompt |-> <<>>, completion |-> <<>>, cache |-> <<>>]
PriceOfDraft(draft) ==
    LET value(text) == IF text # <<>> THEN NonNegative(text[1]) ELSE 0
    IN  [prompt |-> value(draft.prompt), completion |-> value(draft.completion),
         cache |-> IF draft.cache = <<>> THEN value(draft.prompt) ELSE value(draft.cache)]

(* ---------------------------- account quotas --------------------------- *)

\* authFilesByAuthIndex: of several files under one index the first counts.
FirstUnder(files, index) == files[Min({k \in DOMAIN files : files[k].index = index})]

\* buildAccountQuotaTargetsByAccount: the credentials of an account whose provider has quotas.
QuotaProviders == {"antigravity", "claude", "codex", "kimi"}
QuotaTargets(rows, files, account) ==
    LET held == {r \in ToSet(First(rows, StatsLimit)) : r.account = account /\ r.authIndex \in Indices(files)}
        target(f) == <<f.provider, f.index, f.name>>
    IN  {target(f) : f \in {f \in {FirstUnder(files, r.authIndex) : r \in held} : f.provider \in QuotaProviders}}

\* hasUsableQuotaContent: any list, or a plan, tier or balance.
UsableQuota(q) == q.status = "success" /\ (q.lists # {} \/ q.plan \/ q.tier \/ q.balance)
=============================================================================
