---------------------------- MODULE InspectionAssets ----------------------------
(* The statistics of the account files on the inspection page: which files      *)
(* count, what is wrong with each, and the counts of all files and of each      *)
(* provider, taken in chunks between other work of the browser.                 *)
(*                                                                              *)
(* A file is a record [provider, key, disabled, code, http, failed]: key says   *)
(* whether it is an API key and not an account, code is the code of its last    *)
(* error or "none", http that error's status, and failed whether the file says  *)
(* without one that it is unavailable or in error.  A percentage is an integer, *)
(* and Unset is one that is missing.                                            *)
EXTENDS InspectionView, InspectionSettings

\* isInspectableAccountInspectionAuthFile
Inspectable(file) == file.provider \in Providers /\ ~file.key

AccountInvalid(file) == file.code = "inspection_http_error" /\ file.http \in AccountErrorStatuses

RequestError(file) == ~AccountInvalid(file) /\ (file.code # "none" \/ file.failed)

-----------------------------------------------------------------------------
(* Quota: a window is [used, remaining, reached]; remaining is in hundredths    *)
(* and above one is a percentage.                                               *)

UsedPercent(window) ==
  LET whole == IF window.remaining > 100 THEN window.remaining \div 100 ELSE window.remaining
  IN  IF window.used # Unset THEN Bounded(window.used, 0, 100)
      ELSE IF window.remaining = Unset THEN Unset
      ELSE 100 - Bounded(whole, 0, 100)

\* The largest percentage that is known, Unset if none is
MostUsed(percentages) == Max(percentages \cup {Unset})
GroupUsed(group) == MostUsed({UsedPercent(w) : w \in group.windows})

\* In the mode claude-gpt the groups of that name count, if they tell anything.
AntigravityUsed(groups, mode) ==
  LET chosen == {g \in groups : mode = "max-used" \/ g.claudeGpt}
      used == MostUsed({GroupUsed(g) : g \in chosen})
  IN  IF used # Unset THEN used ELSE MostUsed({GroupUsed(g) : g \in groups})

\* isQuotaLowWindow
LowWindow(window, threshold) ==
  \/ window.reached
  \/ window.used # Unset /\ window.used >= threshold
  \/ window.remaining # Unset /\ window.remaining <= 0

\* isProviderQuotaLow; a quota that was not read successfully is not low.
QuotaLow(provider, quota, threshold, mode) ==
  /\ quota.status = "success"
  /\ CASE provider = "antigravity" ->
            LET used == AntigravityUsed(quota.groups, mode) IN used # Unset /\ used >= threshold
       [] provider = "xai" -> quota.billing # Unset /\ quota.billing >= threshold
       [] OTHER -> \E w \in UNION {g.windows : g \in quota.groups} : LowWindow(w, threshold)

-----------------------------------------------------------------------------
Kinds == {"total", "enabled", "disabled", "highAvailable", "quotaLow", "accountInvalid", "requestError"}
EmptyStats == [k \in Kinds |-> 0]

\* incrementProviderStats
Increment(stats, file, low) ==
  LET bad == low \/ AccountInvalid(file) \/ RequestError(file)
      holds == [total |-> TRUE, enabled |-> ~file.disabled, disabled |-> file.disabled,
                highAvailable |-> ~file.disabled /\ ~bad, quotaLow |-> low,
                accountInvalid |-> AccountInvalid(file), requestError |-> RequestError(file)]
  IN  [k \in Kinds |-> stats[k] + IF holds[k] THEN 1 ELSE 0]

\* accumulateAuthFileAccountStats: all counts the files, providers does for each
\* provider that has one.
Accumulate(stats, file, quota, settings) ==
  LET p == file.provider
      low == QuotaLow(p, quota, settings.usedPercentThreshold, settings.mode)
      entry == IF p \in DOMAIN stats.providers THEN stats.providers[p] ELSE EmptyStats
  IN  IF ~Inspectable(file) THEN stats
      ELSE [all |-> Increment(stats.all, file, low),
            providers |-> (p :> Increment(entry, file, low)) @@ stats.providers]

\* scheduleAuthFileAccountStats: the files in chunks, each from where the one
\* before ended.
AccountStats(files, quotas, settings, chunk) ==
  LET starts == {i \in DOMAIN files : (i - 1) % chunk = 0}
      Chunk(i) == SubSeq(files, i, Min({i + chunk - 1, Len(files)}))
      Through(stats, i) == FoldLeft(LAMBDA acc, f : Accumulate(acc, f, quotas[f], settings), stats, Chunk(i))
  IN  FoldLeft(Through, [all |-> EmptyStats, providers |-> << >>], SetToSortSeq(starts, <))

\* The card of a provider that has no files shows them all.
SelectedStats(stats, provider) ==
  IF provider \in DOMAIN stats.providers THEN stats.providers[provider] ELSE stats.all
=============================================================================
