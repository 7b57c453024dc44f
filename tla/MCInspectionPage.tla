---------------------------- MODULE MCInspectionPage ----------------------------
EXTENDS InspectionPage, InspectionAssets

Row(key, action, status, quota) ==
  [key |-> key, action |-> action, status |-> status, error |-> FALSE, executeError |-> FALSE,
   quota |-> quota, disabled |-> FALSE, executed |-> FALSE]

\* Two accounts with the error of an account, on two pages, one out of quota, and
\* one whose probe failed
MCRank == [a |-> 1, b |-> 2, c |-> 3, d |-> 4]
MCOutcomes == {<<Row("a", "delete", 401, FALSE), Row("b", "disable", 403, FALSE),
                 Row("c", "disable", 0, TRUE), [Row("d", "keep", 0, FALSE) EXCEPT !.error = TRUE]>>}

MCCopies == {[workers |-> 9]}
MCClean == [deleteWorkers |-> Unset, retries |-> 1]
MCEdits == {[field |-> "workers", value |-> 2], [field |-> "workers", value |-> 9],
            [field |-> "usedPercentThreshold", value |-> 1]}

Finished == [settings |-> [Defaults EXCEPT !.workers = 6, !.confirmations = 3], enabled |-> TRUE,
             state |-> "completed", rows |-> CHOOSE rows \in MCOutcomes : TRUE]
Paused == [settings |-> Defaults, enabled |-> FALSE, state |-> "paused", rows |-> << >>]
Idle == [settings |-> Defaults, enabled |-> FALSE, state |-> "idle", rows |-> << >>]

MCScenarios ==
  [start : {Finished, Idle},
   events : {<<"run">>, <<"others">>,
             <<"loaded", "run", "control">>,
             <<"loaded", "run", "fault">>,
             <<"loaded", "others", "run">>,
             <<"loaded", "others", "control">>,
             <<"loaded", "others", "others", "fault">>,
             <<"loaded", "act", "others">>,
             <<"loaded", "table", "others", "table">>,
             <<"loaded", "dialog", "dialog", "others", "dialog">>}]
  \cup
  [start : {Finished},
   events : {<<"loaded", "fault", "run">>,
             <<"loaded", "table", "table", "act">>,
             <<"loaded", "act", "table", "fault">>,
             <<"loaded", "dialog", "dialog", "dialog", "fault">>}]
  \cup
  [start : {Paused},
   events : {<<"loaded", "run">>, <<"loaded", "control", "table">>}]

-----------------------------------------------------------------------------
(* The statistics of the account files, against their definition file by file:  *)
(* the chunks count every file once, and the providers add up to the whole.     *)
File(provider, key, disabled, code, http) ==
  [provider |-> provider, key |-> key, disabled |-> disabled, code |-> code, http |-> http,
   failed |-> disabled]
Window(used, remaining) == [used |-> used, remaining |-> remaining, reached |-> FALSE]

MCFiles == {File("codex", FALSE, FALSE, "none", 0), File("codex", FALSE, TRUE, "none", 0),
            File("codex", TRUE, FALSE, "none", 0),
            File("xai", FALSE, FALSE, "inspection_http_error", 401),
            File("antigravity", FALSE, FALSE, "inspection_http_error", 500)}
MCQuota ==
  [status |-> "success", billing |-> 100,
   groups |-> {[claudeGpt |-> TRUE, windows |-> {Window(Unset, 5000), Window(30, Unset)}],
               [claudeGpt |-> FALSE, windows |-> {Window(Unset, 0)}]}]
MCQuotas == [f \in MCFiles |-> MCQuota]
MCAssetSettings == [usedPercentThreshold |-> 50, mode |-> "claude-gpt"]

ASSUME AccountStatsCountsEveryFileOnce ==
  \A files \in BoundedSeq(MCFiles, 3), chunk \in 1..4 :
    LET stats == AccountStats(files, MCQuotas, MCAssetSettings, chunk)
        Files(p) == {i \in DOMAIN files : Inspectable(files[i]) /\ (p = "all" \/ files[i].provider = p)}
        Counted(s, p) ==
          LET Count(Is(_)) == Cardinality({i \in Files(p) : Is(files[i])})
              Low(f) == QuotaLow(f.provider, MCQuota, 50, "claude-gpt")
              Fine(f) == ~f.disabled /\ f.code = "none" /\ ~f.failed /\ ~Low(f)
          IN  /\ s.total = Cardinality(Files(p)) /\ s.total = s.enabled + s.disabled
              /\ s.highAvailable = Count(Fine)
              /\ s.quotaLow = Count(Low)
              /\ s.accountInvalid = Count(AccountInvalid) /\ s.requestError = Count(RequestError)
    IN  /\ Counted(stats.all, "all")
        /\ DOMAIN stats.providers = {files[i].provider : i \in Files("all")}
        /\ \A p \in DOMAIN stats.providers : Counted(SelectedStats(stats, p), p)

ASSUME UsedPercentReadsBothUnits ==
  /\ UsedPercent(Window(Unset, 5000)) = 50 /\ UsedPercent(Window(Unset, 50)) = 50
  /\ UsedPercent(Window(Unset, 100)) = 0 /\ UsedPercent(Window(120, 0)) = 100
  /\ AntigravityUsed(MCQuota.groups, "max-used") = 100
  /\ AntigravityUsed(MCQuota.groups, "claude-gpt") = 50

=============================================================================
