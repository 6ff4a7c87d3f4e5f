-------------------------- MODULE BlockHeapProofs --------------------------
(* The block heap is correct for every heap size and any supply of special *)
(* blocks.                                                                 *)
EXTENDS BlockHeap, TLAPS

HeapInv == TypeOK /\ NoFreeBelowCursor /\ UsedIffHeld

\* What the search of BlockDataAlloc finds: an index in range, free.
LEMMA SearchStops ==
  ASSUME TypeOK, NEW i \in FreeFromCursor
  PROVE  i \in Index /\ i + 1 \in 0 .. HeapSize /\ i >= Cursor /\ Words[i] = "FREE"
  BY HeapSizeAssumption DEF FreeFromCursor, Index

\* The inductive step of the heap invariant, one step per operation.
LEMMA HeapInvStep == HeapInv /\ [Next]_vars => HeapInv'
<1> SUFFICES ASSUME HeapInv, [Next]_vars PROVE HeapInv'
  OBVIOUS
<1> USE HeapSizeAssumption, SpecialsAssumption
        DEF HeapInv, TypeOK, NoFreeBelowCursor, UsedIffHeld, Index, Block
<1>1. CASE AllocFromArray
  <2>1. PICK i \in FreeFromCursor :
              /\ \A j \in FreeFromCursor : i <= j
              /\ heap' = "array"
              /\ bds' = [Words EXCEPT ![i] = "USED"]
              /\ free' = i + 1
              /\ held' = held \cup {i}
    BY <1>1 DEF AllocFromArray
  <2>2. i \in Index /\ Words \in [Index -> {"FREE", "USED"}] /\ Cursor \in 0 .. HeapSize
    BY <2>1 DEF FreeFromCursor, Words, Cursor
  <2>3. \A j \in Index : j < i => Words[j] = "USED"
    <3> SUFFICES ASSUME NEW j \in Index, j < i PROVE Words[j] = "USED"
      OBVIOUS
    <3>1. CASE j >= Cursor
      BY <2>1, <2>2, <3>1 DEF FreeFromCursor
    <3>2. CASE j < Cursor
      <4>1. heap = "array" /\ Cursor = free /\ Words = bds
        BY <1>1, <3>2 DEF AllocFromArray, Cursor, Words
      <4> QED
        BY <3>2, <4>1
    <3> QED
      BY <2>2, <3>1, <3>2
  <2>4. \A j \in Index : Words[j] = "USED" <=> j \in held
    BY <1>1 DEF Words, AllocFromArray
  <2>5. TypeOK'
    BY <2>1, <2>2
  <2>6. NoFreeBelowCursor'
    BY <2>1, <2>2, <2>3
  <2>7. UsedIffHeld'
    BY <2>1, <2>2, <2>4
  <2> QED
    BY <2>5, <2>6, <2>7
<1>2. CASE AllocSpecial
  <2>1. PICK s \in Specials : held' = held \cup {s}
    BY <1>2 DEF AllocSpecial
  <2>2. s \notin Index
    BY <2>1
  <2>3. UNCHANGED <<heap, bds, free>>
    BY <1>2 DEF AllocSpecial
  <2> QED
    BY <2>1, <2>2, <2>3
<1>3. ASSUME NEW b \in Block, BlockDataFree(b) PROVE HeapInv'
  <2>1. CASE b \in Specials
    BY <1>3, <2>1 DEF BlockDataFree
  <2>2. CASE b \in Index
    BY <1>3, <2>2 DEF BlockDataFree
  <2> QED
    BY <2>1, <2>2
<1>4. CASE DestroyBlockDataHeap
  BY <1>4 DEF DestroyBlockDataHeap
<1>5. CASE InitBlockDataHeap
  BY <1>5 DEF InitBlockDataHeap
<1>6. CASE UNCHANGED vars
  BY <1>6 DEF vars
<1> QED
  BY <1>1, <1>2, <1>3, <1>4, <1>5, <1>6 DEF Next

\* In every reachable state the cursor hides no free block and the status
\* words agree with what callers hold.
THEOREM HeapCorrect == Spec => [](TypeOK /\ NoFreeBelowCursor /\ UsedIffHeld)
<1>1. Init => HeapInv
  BY HeapSizeAssumption, SpecialsAssumption
     DEF Init, HeapInv, TypeOK, NoFreeBelowCursor, UsedIffHeld, Index, Block
<1> QED
  BY <1>1, HeapInvStep, PTL DEF Spec, HeapInv

\* BlockDataAlloc falls back to calloc only when the whole array is in use.
THEOREM SpillCorrect == Spec => SpillsOnlyWhenFull
<1>1. HeapInv /\ [Next]_vars
        => [held' \cap Specials \subseteq held \/ Index \subseteq held]_vars
  <2> SUFFICES ASSUME HeapInv, Next
               PROVE  held' \cap Specials \subseteq held \/ Index \subseteq held
    BY DEF vars
  <2> USE HeapSizeAssumption, SpecialsAssumption DEF HeapInv
  <2>1. CASE AllocFromArray
    BY <2>1 DEF AllocFromArray, FreeFromCursor, Index
  <2>2. CASE AllocSpecial
    <3>1. heap = "array"
      BY <2>2 DEF AllocSpecial, FreeFromCursor, Cursor, Words, Index, TypeOK
    <3>2. \A i \in Index : bds[i] = "USED"
      BY <2>2, <3>1 DEF AllocSpecial, FreeFromCursor, Cursor, Words, Index,
                        TypeOK, NoFreeBelowCursor
    <3> QED
      BY <3>1, <3>2 DEF UsedIffHeld
  <2>3. ASSUME NEW b \in Block, BlockDataFree(b)
        PROVE  held' \cap Specials \subseteq held
    BY <2>3 DEF BlockDataFree
  <2> QED
    BY <2>1, <2>2, <2>3 DEF Next, DestroyBlockDataHeap, InitBlockDataHeap
<1> QED
  BY <1>1, HeapCorrect, PTL DEF Spec, HeapInv, SpillsOnlyWhenFull

\* blockheap.c, BlockDataAlloc and BlockDataFree: a block's status word says
\* BDS_SPECIAL or BDS_USED exactly while a caller holds the block, so no block
\* is handed out twice and none is lost.
THEOREM UsedCorrect == Spec => []UsedIffHeld
  BY HeapCorrect, PTL
=============================================================================
