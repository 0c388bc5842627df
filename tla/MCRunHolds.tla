----------------------------- MODULE MCRunHolds -----------------------------
(* RunHolds on small instances; each .cfg says what is in its world.        *)
EXTENDS RunHolds, TLC

Symmetry == Permutations(Apps) \cup Permutations(Starts) \cup Permutations(Stops)
=============================================================================
