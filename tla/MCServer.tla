------------------------------ MODULE MCServer ------------------------------
(* Bounds for TLC.                                                         *)
EXTENDS Server, TLC
Perms == Permutations(Procs) \cup Permutations(Layers \ {Default})
=============================================================================
