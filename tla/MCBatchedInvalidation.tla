----------------------- MODULE MCBatchedInvalidation -----------------------
EXTENDS BatchedInvalidation, TLC

\* Not for runs with liveness.
Symmetry == Permutations(Rid) \cup Permutations(Served)
=============================================================================
