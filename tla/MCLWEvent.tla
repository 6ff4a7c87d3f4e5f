----------------------------- MODULE MCLWEvent ------------------------------
(* Symmetry and the unassigned statuses for TLC.                           *)
EXTENDS LWEvent, TLC
Perms == Permutations(Clients)
MCZeroes == {[shift |-> {}, btn |-> {}]}
MCTwo == MCZeroes \cup {[shift |-> ShiftKeys, btn |-> Reported]}
MCAny == [shift : SUBSET (ShiftKeys \cup LockKeys), btn : SUBSET Reported]
=============================================================================
