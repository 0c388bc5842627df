----------------------------- MODULE MCOwnership -----------------------------
(* Ownership with two games and a self-test, one after the other or at once. *)
EXTENDS Ownership, TLC

Symmetry == Permutations(Apps) \cup Permutations(Starts)
=============================================================================
