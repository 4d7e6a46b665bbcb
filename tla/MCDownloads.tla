---------------------------- MODULE MCDownloads ----------------------------
(* Instances of Downloads for TLC.                                         *)
EXTENDS Downloads

CONSTANTS d1, alice

Alone    == d1 :> alice
Symmetry == Permutations(Tasks) \cup Permutations(Calls)
=============================================================================
