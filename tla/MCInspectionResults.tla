-------------------------- MODULE MCInspectionResults --------------------------
(* A small instance of InspectionResults for TLC.                           *)
EXTENDS InspectionResults, TLC

CONSTANTS solo, left, right, first, second

V(action, error, quota, denied) ==
  [action |-> action, error |-> error, quota |-> quota, denied |-> denied]

\* A healthy account, one to disable and one to enable; a denied one. What is
\* listed with an error comes from refreshes that fail.
Probed == {V("keep", FALSE, FALSE, FALSE), V("disable", FALSE, TRUE, FALSE),
           V("enable", FALSE, FALSE, FALSE)}
Denied == {V("delete", FALSE, FALSE, TRUE)}

\* Either one account with two requests in flight, or two accounts of one file
\* that are denied, with one request.
MCAccounts   == {solo, left, right}
MCPools      == {{solo}, {left, right}}
MCFileOf     == [a \in Accounts |-> IF a = solo THEN "own" ELSE "shared"]
MCRequests   == {first, second}
MCAtATime    == [a \in Accounts |-> IF a = solo THEN 2 ELSE 1]
MCVerdictsOf == [a \in Accounts |-> IF a = solo THEN Probed ELSE Denied]
MCManualOn   == [a \in Accounts |-> IF a = solo THEN Manual ELSE {"delete"}]
MCSymmetry   == Permutations({left, right}) \cup Permutations(MCRequests)
=============================================================================
