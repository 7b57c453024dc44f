--------------------------- MODULE MCInspectionRun ---------------------------
(* Small instances of InspectionRun for TLC.                               *)
EXTENDS InspectionRun

\* The first two accounts share a provider, so their probes compete for it.
MCProviderOf == [i \in Accounts |-> IF i <= 2 THEN "codex" ELSE "claude"]
MCAccountsIn == [r \in Runs |-> IF r = 1 THEN 3 ELSE 1]
MCProviders  == {"codex", "claude"}
=============================================================================
