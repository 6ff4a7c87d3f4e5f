----------------------------- MODULE BlockHeap -----------------------------
(***************************************************************************)
(* The heap of fixed-size blocks of src/kernel/blockheap.c.  It backs the  *)
(* notification messages (message.c), the clipping and invalid rectangles  *)
(* (desktop-*.c, gdi.c, ext/skin), the menu and the accelerator objects.   *)
(*                                                                         *)
(* A heap is an array of HeapSize blocks, each headed by a status word,    *)
(* and a cursor heap->free where the search for a free block starts.  When *)
(* the array is full a block is taken from calloc and marked BDS_SPECIAL.  *)
(* BlockDataAlloc and BlockDataFree run wholly under heap->lock, so each   *)
(* is one step here.                                                       *)
(***************************************************************************)
EXTENDS Integers

CONSTANTS HeapSize,   \* heap->heap_size
          Specials    \* identities of the blocks calloc hands out one by one

ASSUME HeapSizeAssumption == HeapSize \in Nat \ {0}
ASSUME SpecialsAssumption == Specials \cap Int = {}

Index == 0 .. HeapSize - 1
Block == Index \cup Specials

VARIABLES
  heap,   \* "none": heap->heap = NULL; "array": allocated; "gone": destroyed
  bds,    \* status word of each block of the array
  free,   \* heap->free, the first index the search looks at
  held    \* the blocks callers hold (allocated and not yet freed)

vars == <<heap, bds, free, held>>

Init ==
  /\ heap = "none"
  /\ bds = [i \in Index |-> "FREE"]
  /\ free = 0
  /\ held = {}
-----------------------------------------------------------------------------
(* The first BlockDataAlloc callocs the array, which clears every status   *)
(* word, and only then sets the cursor to 0.                               *)
\* Fault: the cursor is not reset when the array is allocated anew.
CursorNotReset == free

Cursor == IF heap = "none" THEN 0 ELSE free
Words  == IF heap = "none" THEN [i \in Index |-> "FREE"] ELSE bds

\* Fault: the search looks at every block but the last.
FreeFromCursorShort ==
  {j \in Index : j >= Cursor /\ j < HeapSize - 1 /\ Words[j] = "FREE"}

\* The blocks the search can stop at.
FreeFromCursor == {j \in Index : j >= Cursor /\ Words[j] = "FREE"}

\* The search stops at the first free block at or above the cursor and moves
\* the cursor past it.
AllocFromArray ==
  /\ heap # "gone"
  /\ \E i \in FreeFromCursor :
       /\ \A j \in FreeFromCursor : i <= j
       /\ heap' = "array"
       /\ bds' = [Words EXCEPT ![i] = "USED"]
       /\ free' = i + 1
       /\ held' = held \cup {i}

\* No free block at or above the cursor: calloc a single block, BDS_SPECIAL.
AllocSpecial ==
  /\ heap # "gone"
  /\ FreeFromCursor = {}
  /\ \E s \in Specials \ held : held' = held \cup {s}
  /\ UNCHANGED <<heap, bds, free>>

\* Fault: the status word of a freed block is not cleared.
BlockDataFreeKeepsWord(b) ==
  /\ heap # "gone"
  /\ b \in held
  /\ held' = held \ {b}
  /\ UNCHANGED <<heap, bds, free>>

\* BlockDataFree (heap, data): a special block goes back to the C library; a
\* block of the array becomes BDS_FREE and pulls the cursor down to it.
BlockDataFree(b) ==
  /\ heap # "gone"
  /\ b \in held
  /\ held' = held \ {b}
  /\ \/ /\ b \in Specials
        /\ UNCHANGED <<bds, free>>
     \/ /\ b \in Index
        /\ bds' = [bds EXCEPT ![b] = "FREE"]
        /\ free' = IF free > b THEN b ELSE free
  /\ UNCHANGED heap

\* DestroyBlockDataHeap (heap): the array goes, with the blocks callers still
\* hold in it; special blocks are not tracked and stay with their callers.
DestroyBlockDataHeap ==
  /\ heap # "gone"
  /\ heap' = "gone"
  /\ held' = held \cap Specials
  /\ UNCHANGED <<bds, free>>

\* InitBlockDataHeap (heap) on a destroyed heap, as ext/skin does for every
\* skin window it opens: the cursor is not written.
InitBlockDataHeap ==
  /\ heap = "gone"
  /\ heap' = "none"
  /\ UNCHANGED <<bds, free, held>>

Next ==
  \/ AllocFromArray
  \/ AllocSpecial
  \/ \E b \in Block : BlockDataFree(b)
  \/ DestroyBlockDataHeap
  \/ InitBlockDataHeap

Spec == Init /\ [][Next]_vars
-----------------------------------------------------------------------------
\* Type invariant of the heap structure.
TypeOK ==
  /\ heap \in {"none", "array", "gone"}
  /\ bds \in [Index -> {"FREE", "USED"}]
  /\ free \in 0 .. HeapSize
  /\ held \subseteq Block

\* No block below the cursor is free: the search of BlockDataAlloc, which
\* never looks below heap->free, misses nothing.
NoFreeBelowCursor ==
  heap = "array" => \A i \in Index : i < free => bds[i] = "USED"

\* A status word is BDS_USED exactly while a caller holds the block: no block
\* is handed out twice and none leaks.
UsedIffHeld ==
  /\ heap = "array" => \A i \in Index : bds[i] = "USED" <=> i \in held
  /\ heap # "array" => held \cap Index = {}

\* A block is taken from calloc only when callers hold every block of the
\* array: BlockDataAlloc never spills over while the array has room.
SpillsOnlyWhenFull ==
  [][held' \cap Specials \subseteq held \/ Index \subseteq held]_vars
=============================================================================
