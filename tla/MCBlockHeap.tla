---------------------------- MODULE MCBlockHeap ----------------------------
(* Bounds for TLC: an array of four blocks and two blocks beyond it.       *)
EXTENDS BlockHeap
=============================================================================
