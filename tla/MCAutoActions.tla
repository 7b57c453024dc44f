----------------------------- MODULE MCAutoActions -----------------------------
(* Small instances of AutoActions for TLC.                                  *)
EXTENDS AutoActions

R(status, body) == [status |-> status, body |-> body]
A(fails, quota, deep) == [refreshFails |-> fails, quota |-> quota, deep |-> deep]

\* Every kind of response a single quota request may get.
Singles == {R(0, "garbled"), R(200, "low"), R(200, "over"), R(200, "blank"), R(200, "empty"),
            R(200, "garbled"), R(200, "exhausted"), R(401, "garbled"), R(403, "garbled"),
            R(402, "garbled"), R(429, "exhausted"), R(500, "garbled")}
Deeps   == {R(0, "garbled"), R(200, "content"), R(200, "garbled"), R(403, "garbled"),
            R(402, "garbled"), R(429, "exhausted"), R(500, "garbled")}

\* One URL of each kind; two URLs of which the first fails; every deep probe
\* of one or two URLs behind quota data under the threshold.
MCAnswers ==
  {A(TRUE, <<R(200, "low")>>, << >>)}
  \cup {A(FALSE, <<r>>, << >>) : r \in Singles}
  \cup {A(FALSE, <<r, s>>, << >>) : r \in {R(0, "garbled"), R(403, "garbled")},
                                    s \in {R(200, "low"), R(500, "garbled"), R(404, "garbled")}}
  \cup {A(FALSE, <<R(200, "low")>>, <<d>>) : d \in Deeps}
  \cup {A(FALSE, <<R(200, "low")>>, <<d, e>>) : d \in {R(0, "garbled"), R(500, "garbled")}, e \in Deeps}

\* Answers that call for delete, and for enable or nothing, of a codex account.
MCFewAnswers == {A(FALSE, <<r>>, << >>) : r \in {R(401, "garbled"), R(200, "low")}}

Raw(qd, re, dp, inv, req, n) ==
  [quotaDisable |-> qd, recovery |-> re, deep |-> dp, invalid |-> inv, requestError |-> req,
   confirmations |-> n]

\* Three accounts: one with a file of its own and two that share one.
MCAccounts  == {"solo", "left", "right"}
MCFileOf    == [a \in Accounts |-> IF a = "solo" THEN "own" ELSE "shared"]
MCAnswersTo == [a \in Accounts |-> IF a = "solo" THEN MCAnswers ELSE MCFewAnswers]

Start(file, p, raw) == [files |-> {file}, provider |-> [a \in Accounts |-> p], raw |-> raw]

\* One account under every setting that acts at once (only antigravity has
\* deep probes; claude, kimi and xai are judged alike, so one of them stands
\* for all), or two codex accounts of one file under settings that act at
\* once or on a second confirmation.
MCStarts ==
  {Start("own", p[1], Raw(qd, re, p[2], inv, req, 1)) :
     p \in {<<"antigravity", TRUE>>, <<"antigravity", FALSE>>, <<"codex", FALSE>>, <<"xai", FALSE>>},
     qd \in BOOLEAN, re \in BOOLEAN, inv \in {"", "disable", "delete", "enable"}, req \in {"", "disable", "delete"}}
  \cup {Start("shared", "codex", Raw(TRUE, TRUE, FALSE, "delete", "", n)) : n \in {0, 9}}
=============================================================================
