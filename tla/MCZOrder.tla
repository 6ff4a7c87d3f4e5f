------------------------------ MODULE MCZOrder ------------------------------
(* Bounds for TLC.                                                         *)
EXTENDS ZOrder, TLC
MCRects == {0..1, 1..2}
MCMenuRects == {1..1}
Perms == Permutations(Clients)
=============================================================================
