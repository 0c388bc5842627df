------------------------------- MODULE MCLibrary -------------------------------
(* The library on a small device.  Tables are alike to every definition and *)
(* to every property, so they may be exchanged for one another.             *)
EXTENDS Library
Alike == Permutations(Tables)
================================================================================
