---------------------------- MODULE MCUsageBackup ----------------------------
(* Two events, one whose source reads the same masked and one of a short mail *)
(* address, whose source changes twice.                                       *)
EXTENDS UsageBackup

MCMasks == <<0, 2>>
On == [backup |-> TRUE, prune |-> FALSE, expire |-> FALSE]
MCChoices == {On, [On EXCEPT !.prune = TRUE, !.expire = TRUE]}
Budget(e, f, r, n) == [edits |-> e, failures |-> f, restarts |-> r, replacements |-> n]
MCScenarios == {Budget(2, 0, 0, 1), Budget(1, 1, 1, 1), Budget(1, 0, 2, 0)}
=============================================================================
