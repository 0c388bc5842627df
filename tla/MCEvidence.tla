------------------------------ MODULE MCEvidence ------------------------------
(* Tables are alike to every definition of Evidence and to every property. *)
EXTENDS Evidence, TLC
Alike == Permutations(Tables)
================================================================================
