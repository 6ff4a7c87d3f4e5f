----------------------------- MODULE MCSyncMsg ------------------------------
EXTENDS SyncMsg, TLC
MCSymmetry == Permutations(Threads)
=============================================================================
