----------------------------- MODULE MCUsageStore -----------------------------
(* Small instances of UsageStore for TLC.                                   *)
EXTENDS UsageStore, TLC

MCEvents == 1..2

\* Callers of the same kind are interchangeable.
MCSymmetry == Permutations(Readers) \cup Permutations(Writers)

\* Deletions take the first event or both, in whatever order they came.
MCTimeOf == [e \in Events |-> e]
MCFailed == {2}
=============================================================================
