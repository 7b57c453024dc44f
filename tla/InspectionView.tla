----------------------------- MODULE InspectionView -----------------------------
(* What the page makes of an answer of the inspection: the server's filters,    *)
(* pages and counts of the results, and the page's reading of them.             *)
(*                                                                              *)
(* A result is a record [key, action, status, error, executeError, quota,       *)
(* disabled, executed]; status is 0 where there was no answer, and error and    *)
(* executeError say whether there is such a text.                               *)
EXTENDS Integers, SequencesExt, FiniteSetsExt

AccountErrorStatuses == {400, 401, 403, 404}

\* The six tabs of the table, and the health each of them shows
HealthOf ==
  [accountInvalid |-> "authInvalid", requestError |-> "inspectionError",
   quotaExhausted |-> "quotaExhausted", recoverable |-> "recoverable",
   highAvailable |-> "healthy"]
Health == {HealthOf[f] : f \in DOMAIN HealthOf} \cup {"disabled"}

-----------------------------------------------------------------------------
(* The server *)
HealthBucketOf(r) ==
  CASE r.action = "delete" \/ r.status \in AccountErrorStatuses -> "authInvalid"
    [] OTHER ->
         CASE r.error -> "inspectionError"
           [] ~r.error /\ (r.quota \/ r.action = "disable") -> "quotaExhausted"
           [] ~r.error /\ ~r.quota /\ r.action = "enable" -> "recoverable"
           [] ~r.error /\ ~r.quota /\ r.action = "keep" ->
                IF r.disabled THEN "disabled" ELSE "healthy"

Pending(r) == r.action # "keep" /\ ~r.executed

MatchesFilter(r, filter) ==
  IF filter = "pending" THEN Pending(r) ELSE HealthBucketOf(r) = HealthOf[filter]

HealthCounts(rows) ==
  [h \in Health |-> Cardinality({i \in DOMAIN rows : HealthBucketOf(rows[i]) = h})]

PageInfoFor(total, page, size) ==
  [page |-> page, pageSize |-> size, total |-> total,
   totalPages |-> (total + size - 1) \div size, hasMore |-> page * size < total]

PaginateResults(rows, page, size, filter) ==
  LET matching == SelectSeq(rows, LAMBDA r : MatchesFilter(r, filter))
      start == (page - 1) * size
  IN  [rows |-> SubSeq(matching, start + 1, Min({Len(matching), start + size})),
       info |-> PageInfoFor(Len(matching), page, size)]

-----------------------------------------------------------------------------
(* The page *)

\* accountInspectionBackendResultToItem: one error for both.
ResultToItem(r) == [r EXCEPT !.error = r.executeError \/ r.error]

\* resolveResultHealthStatus: the server's rule, asked of an item
ResolveResultHealthStatus(item) == HealthBucketOf(item)

\* buildInspectionResultsViewState: an item goes to the tab of its health, if
\* there is one, and to the pending ones.
FilterRows(items, filter) ==
  SelectSeq(items, LAMBDA item :
    IF filter = "pending" THEN Pending(item)
    ELSE ResolveResultHealthStatus(item) = HealthOf[filter])

ManualActions(item) ==
  IF ResolveResultHealthStatus(item) = "healthy" THEN {}
  ELSE {IF item.disabled THEN "enable" ELSE "disable", "delete"}

\* The page's own counts, when the answer has none
CountActions(items) ==
  [a \in {"delete", "disable", "enable"} |->
     Cardinality({i \in DOMAIN items : Pending(items[i]) /\ items[i].action = a})]

\* getPaginationRange of a table with visible rows
PaginationRange(info, visible) ==
  IF info.total <= 0 \/ visible <= 0
  THEN [from |-> IF visible > 0 THEN 1 ELSE 0, to |-> visible,
        hasPrevious |-> info.page > 1, hasNext |-> info.hasMore]
  ELSE LET from == (info.page - 1) * info.pageSize + 1
       IN  [from |-> from, to |-> Min({info.total, from + visible - 1}),
            hasPrevious |-> info.page > 1, hasNext |-> info.hasMore]

Active == {"running", "paused", "stopping"}
Ended == {"completed", "partial"}

ProgressStatus(s) ==
  CASE s.state = "paused" -> "paused"
    [] s.state \in {"running", "stopping"} -> "running"
    [] s.state \in {"failed", "stopped"} -> s.state
    [] OTHER -> IF s.state \in Ended \/ s.finished > 0 THEN "completed" ELSE "idle"

RunStatus(s) ==
  CASE s.state = "paused" -> "paused"
    [] s.state \in {"running", "stopping"} -> "running"
    [] s.state = "failed" -> "error"
    [] s.state = "stopped" -> "idle"
    [] OTHER -> IF s.state \in Ended \/ s.finished > 0
                THEN (IF s.failed THEN "error" ELSE "success") ELSE "idle"
=============================================================================
