----------------------------- MODULE MCQuotaSync -----------------------------
EXTENDS QuotaSync

MCProviderOf == [k1 |-> "codex", k2 |-> "codex"]
=============================================================================
