---------------------------- MODULE ServerProofs ----------------------------
(* The client table and the list of layers stay sound for any number of    *)
(* processes and layers and any size of the table.                         *)
EXTENDS Server, FiniteSetTheorems, SequenceTheorems, LeastNumber, TLAPS

EntryType == [proc : Procs \cup {Free, Itself}, layer : Layers \cup {NULL},
              next : Pointers, prev : Pointers]

\* What the steps below need of the state, apart from pointers and lists.
LayersInv ==
  /\ TypeOK /\ LayersSound
  /\ chain \in Seq(Layers)
  /\ client[0].proc = Itself /\ client[0].layer = Default

\* Least finds a member of the set it is given.
LEMMA LeastIn ==
  ASSUME NEW S \in SUBSET Nat, S # {}
  PROVE  Least(S) \in S
  BY LeastExists DEF Least

\* A sequence without its element k.
LEMMA RemoveAt ==
  ASSUME NEW S, NEW s \in Seq(S), NEW k \in 1 .. Len(s)
  PROVE  LET r == SubSeq(s, 1, k - 1) \o SubSeq(s, k + 1, Len(s))
         IN  /\ r \in Seq(S) /\ Len(r) = Len(s) - 1
             /\ \A j \in 1 .. Len(s) - 1 : r[j] = IF j < k THEN s[j] ELSE s[j + 1]
<1> DEFINE a == SubSeq(s, 1, k - 1)
           b == SubSeq(s, k + 1, Len(s))
<1>1. Len(s) \in Nat /\ \A i \in 1 .. Len(s) : s[i] \in S
  OBVIOUS
<1>2. /\ a \in Seq(S) /\ Len(a) = k - 1
      /\ \A i \in 1 .. k - 1 : a[i] = s[i]
  BY <1>1, SubSeqProperties
<1>3. /\ b \in Seq(S) /\ Len(b) = Len(s) - k
      /\ \A i \in 1 .. Len(s) - k : b[i] = s[k + i]
  BY <1>1, SubSeqProperties
<1> HIDE DEF a, b
<1>4. /\ a \o b \in Seq(S) /\ Len(a \o b) = Len(a) + Len(b)
      /\ \A i \in 1 .. Len(a) + Len(b) :
           (a \o b)[i] = IF i <= Len(a) THEN a[i] ELSE b[i - Len(a)]
  BY <1>2, <1>3, ConcatProperties
<1>5. ASSUME NEW j \in 1 .. Len(s) - 1
      PROVE  (a \o b)[j] = IF j < k THEN s[j] ELSE s[j + 1]
  <2>1. j \in 1 .. Len(a) + Len(b) /\ j \in Int /\ k \in Int
    BY <1>1, <1>2, <1>3
  <2>2. (a \o b)[j] = IF j <= Len(a) THEN a[j] ELSE b[j - Len(a)]
    BY <1>4, <2>1
  <2>3. CASE j < k
    <3>1. j <= Len(a) /\ j \in 1 .. k - 1
      BY <1>2, <2>1, <2>3
    <3>2. a[j] = s[j]
      BY <1>2, <3>1
    <3> QED
      BY <2>2, <2>3, <3>1, <3>2
  <2>4. CASE k <= j
    <3>1. ~(j <= Len(a)) /\ ~(j < k) /\ Len(a) = k - 1
      BY <1>2, <2>1, <2>4
    <3>2. j - Len(a) \in 1 .. Len(s) - k /\ k + (j - Len(a)) = j + 1
      BY <1>1, <2>1, <2>4, <3>1
    <3>3. b[j - Len(a)] = s[j + 1]
      BY <1>3, <3>2
    <3> QED
      BY <2>2, <3>1, <3>3
  <2> QED
    BY <2>1, <2>3, <2>4
<1>6. /\ a \o b \in Seq(S) /\ Len(a \o b) = Len(s) - 1
      /\ \A j \in 1 .. Len(s) - 1 : (a \o b)[j] = IF j < k THEN s[j] ELSE s[j + 1]
  BY <1>1, <1>2, <1>3, <1>4, <1>5
<1> QED
  BY <1>6 DEF a, b

\* How many numbers an interval holds.
LEMMA IntervalCount ==
  ASSUME NEW n \in Nat
  PROVE  /\ IsFiniteSet(1 .. n) /\ Cardinality(1 .. n) = n
         /\ IsFiniteSet(0 .. n) /\ Cardinality(0 .. n) = n + 1
         /\ IsFiniteSet(0 .. n - 1) /\ Cardinality(0 .. n - 1) = n
<1>1. IsFiniteSet(1 .. n) /\ Cardinality(1 .. n) = IF 1 > n THEN 0 ELSE n - 1 + 1
  BY FS_Interval
<1>2. IsFiniteSet(0 .. n) /\ Cardinality(0 .. n) = IF 0 > n THEN 0 ELSE n - 0 + 1
  BY FS_Interval
<1>3. IsFiniteSet(0 .. n - 1)
      /\ Cardinality(0 .. n - 1) = IF 0 > n - 1 THEN 0 ELSE n - 1 - 0 + 1
  BY FS_Interval
<1> QED
  BY <1>1, <1>2, <1>3

\* The entries of the table are 0, 1, ... up to its size.
LEMMA Table ==
  ASSUME TypeOK
  PROVE  /\ Cardinality(Entries) \in 1 .. MaxSize
         /\ Entries = 0 .. Cardinality(Entries) - 1
         /\ client \in [Entries -> EntryType]
<1>1. PICK n \in 1 .. MaxSize : client \in [0 .. n - 1 -> EntryType]
  BY DEF TypeOK, EntryType
<1>2. n \in Nat /\ Entries = 0 .. n - 1
  BY <1>1, SizesAssumption DEF Entries
<1>3. Cardinality(0 .. n - 1) = n
  BY <1>2, IntervalCount
<1> QED
  BY <1>1, <1>2, <1>3

\* What TypeOK says of a process that is connected.
LEMMA EntryOfIn ==
  ASSUME LayersInv, NEW p \in Procs, Connected(p)
  PROVE  /\ EntryOf(p) \in Entries \ {0} /\ client[EntryOf(p)].proc = p
         /\ Ptr(EntryOf(p)) \in Pointers
<1>1. EntryOf(p) \in Entries /\ client[EntryOf(p)].proc = p
  BY Zenon DEF EntryOf, Connected
<1>2. p # Itself
  BY NamesAssumption DEF Itself
<1>3. EntryOf(p) # 0
  BY <1>1, <1>2 DEF LayersInv
<1>4. EntryOf(p) \in 1 .. MaxSize - 1 /\ base \in 0 .. MaxMoves
  BY <1>1, <1>3, Table, SizesAssumption DEF LayersInv, TypeOK
<1> QED
  BY <1>1, <1>3, <1>4 DEF Ptr, Pointers

-----------------------------------------------------------------------------
(* The layers and their semaphores.                                        *)

\* The used semaphore slots are no more than the layers.
LEMMA UsageCount ==
  ASSUME LayersInv
  PROVE  /\ IsFiniteSet(usage) /\ Cardinality(usage) \in Nat
         /\ Cardinality(usage) <= Len(chain)
<1> DEFINE f == [k \in 1 .. Len(chain) |-> sem[chain[k]]]
<1>1. Len(chain) \in Nat /\ DOMAIN chain = 1 .. Len(chain)
  BY DEF LayersInv
<1>2. usage = {sem[l] : l \in LayerList}
  BY DEF LayersInv, LayersSound
<1>3. f \in Surjection(1 .. Len(chain), usage)
  BY <1>1, <1>2 DEF LayerList, Surjection
<1>4. IsFiniteSet(1 .. Len(chain)) /\ Cardinality(1 .. Len(chain)) = Len(chain)
  BY <1>1, IntervalCount
<1>5. IsFiniteSet(usage) /\ Cardinality(usage) <= Len(chain)
  BY <1>3, <1>4, FS_Surjection
<1> QED
  BY <1>5, FS_CardinalityType

\* do_alloc_layer finds a slot that is free and within the bitmap.
LEMMA SlotFree ==
  ASSUME LayersInv, RoomForLayer
  PROVE  Least(0 .. Cardinality(usage) \ usage) \in (0 .. MaxLayers - 1) \ usage
<1> DEFINE S == 0 .. Cardinality(usage)
<1>1. /\ IsFiniteSet(usage) /\ Cardinality(usage) \in Nat
      /\ Cardinality(usage) <= Len(chain) /\ Len(chain) \in Nat
  BY UsageCount DEF LayersInv
<1>2. S \ usage # {}
  <2> SUFFICES ASSUME S \subseteq usage PROVE FALSE
    OBVIOUS
  <2>1. Cardinality(S) <= Cardinality(usage)
    BY <1>1, FS_Subset
  <2>2. Cardinality(S) = Cardinality(usage) + 1
    BY <1>1, IntervalCount
  <2> QED
    BY <1>1, <2>1, <2>2
<1>3. Least(S \ usage) \in S \ usage
  <2>1. S \ usage \in SUBSET Nat
    BY <1>1
  <2> QED
    BY <1>2, <2>1, LeastIn
<1>4. Cardinality(usage) < MaxLayers
  BY <1>1, SizesAssumption DEF RoomForLayer
<1> QED
  BY <1>1, <1>3, <1>4, SizesAssumption

\* The list of layers and the semaphores after a layer was made.
LayersType ==
  /\ chain \in Seq(Layers) /\ Len(chain) \in 1 .. MaxLayers
  /\ LayerList \subseteq Layers
  /\ sem \in [LayerList -> 0 .. MaxLayers - 1]
  /\ usage \subseteq 0 .. MaxLayers - 1 /\ keys \in 1 .. MaxKeys
  /\ \A j, k \in DOMAIN chain :
       j # k => chain[j] # chain[k] /\ sem[chain[j]] # sem[chain[k]]
  /\ usage = {sem[l] : l \in LayerList}

LEMMA NewLayerSound ==
  ASSUME LayersInv, RoomForLayer, NEW l \in Layers, l \notin LayerList, NewLayer(l)
  PROVE  LayersType' /\ LayerList' = LayerList \cup {l}
<1> DEFINE slot == Least(0 .. Cardinality(usage) \ usage)
<1>1. /\ chain' = <<l>> \o chain
      /\ sem' = [x \in LayerList \cup {l} |-> IF x = l THEN slot ELSE sem[x]]
      /\ usage' = usage \cup {slot} /\ keys' = keys + 1
  BY DEF NewLayer
<1>2. slot \in (0 .. MaxLayers - 1) \ usage
  BY SlotFree
<1> HIDE DEF slot
<1>3. /\ chain \in Seq(Layers) /\ Len(chain) \in Nat /\ DOMAIN chain = 1 .. Len(chain)
      /\ Len(chain) < MaxLayers /\ keys \in 1 .. MaxKeys /\ keys < MaxKeys
      /\ sem \in [LayerList -> 0 .. MaxLayers - 1]
      /\ usage \subseteq 0 .. MaxLayers - 1
      /\ \A j, k \in DOMAIN chain :
           j # k => chain[j] # chain[k] /\ sem[chain[j]] # sem[chain[k]]
      /\ usage = {sem[x] : x \in LayerList} /\ LayerList \subseteq Layers
  BY DEF LayersInv, TypeOK, LayersSound, RoomForLayer
<1>4. /\ chain' \in Seq(Layers) /\ Len(chain') = Len(chain) + 1
      /\ DOMAIN chain' = 1 .. Len(chain) + 1
      /\ \A k \in 1 .. Len(chain) + 1 : chain'[k] = IF k = 1 THEN l ELSE chain[k - 1]
  BY <1>1, <1>3
<1>5. LayerList' = LayerList \cup {l}
  <2>1. ASSUME NEW x \in LayerList PROVE x \in LayerList'
    <3>1. PICK k \in 1 .. Len(chain) : x = chain[k]
      BY <1>3 DEF LayerList
    <3>2. k + 1 \in 1 .. Len(chain) + 1 /\ chain'[k + 1] = x
      BY <1>3, <1>4, <3>1
    <3> QED
      BY <1>4, <3>2 DEF LayerList
  <2>2. l \in LayerList'
    BY <1>3, <1>4 DEF LayerList
  <2>3. ASSUME NEW x \in LayerList' PROVE x \in LayerList \cup {l}
    <3>1. PICK k \in 1 .. Len(chain) + 1 : x = chain'[k]
      BY <1>4 DEF LayerList
    <3> QED
      BY <1>3, <1>4, <3>1 DEF LayerList
  <2> QED
    BY <2>1, <2>2, <2>3
<1>6. sem' \in [LayerList' -> 0 .. MaxLayers - 1]
  BY <1>1, <1>2, <1>3, <1>5
<1>7. \A k \in 1 .. Len(chain) : chain[k] \in LayerList
  BY <1>3 DEF LayerList
<1>8. ASSUME NEW j \in DOMAIN chain', NEW k \in DOMAIN chain', j # k
      PROVE  chain'[j] # chain'[k] /\ sem'[chain'[j]] # sem'[chain'[k]]
  <2>1. ASSUME NEW m \in 2 .. Len(chain) + 1
        PROVE  /\ chain'[m] = chain[m - 1] /\ m - 1 \in 1 .. Len(chain)
               /\ chain'[m] \in LayerList /\ sem'[chain'[m]] = sem[chain[m - 1]]
               /\ sem'[chain'[m]] \in usage
    <3>1. chain'[m] = chain[m - 1] /\ m - 1 \in 1 .. Len(chain)
      BY <1>3, <1>4
    <3>2. chain'[m] \in LayerList /\ chain'[m] # l
      BY <1>7, <3>1
    <3> QED
      BY <1>1, <1>3, <3>1, <3>2
  <2>2. chain'[1] = l /\ sem'[l] = slot
    BY <1>1, <1>3, <1>4
  <2>3. CASE j = 1
    <3>1. k \in 2 .. Len(chain) + 1
      BY <1>3, <1>4, <1>8, <2>3
    <3> QED
      BY <1>2, <2>1, <2>2, <2>3, <3>1
  <2>4. CASE k = 1
    <3>1. j \in 2 .. Len(chain) + 1
      BY <1>3, <1>4, <1>8, <2>4
    <3> QED
      BY <1>2, <2>1, <2>2, <2>4, <3>1
  <2>5. CASE j # 1 /\ k # 1
    <3>1. j \in 2 .. Len(chain) + 1 /\ k \in 2 .. Len(chain) + 1
      BY <1>3, <1>4, <2>5
    <3>2. j - 1 # k - 1
      BY <1>8, <3>1
    <3> QED
      BY <1>3, <2>1, <3>1, <3>2
  <2> QED
    BY <2>3, <2>4, <2>5
<1>9. usage' = {sem'[x] : x \in LayerList'}
  BY <1>1, <1>3, <1>5
<1>10. Len(chain') \in 1 .. MaxLayers /\ keys' \in 1 .. MaxKeys
  BY <1>1, <1>3, <1>4, SizesAssumption
<1>11. usage' \subseteq 0 .. MaxLayers - 1 /\ LayerList' \subseteq Layers
  BY <1>1, <1>2, <1>3, <1>5
<1> QED
  BY <1>4, <1>5, <1>6, <1>8, <1>9, <1>10, <1>11 DEF LayersType


\* The table and the heads of the lists.
TableType ==
  /\ \E n \in 1 .. MaxSize : client \in [0 .. n - 1 -> EntryType]
  /\ base \in 0 .. MaxMoves
  /\ head \in [LayerList -> Pointers]
  /\ client[0].proc = Itself /\ client[0].layer = Default
  /\ \A i \in Entries : client[i].layer \in LayerList \cup {NULL}

TopType == topmost \in LayerList /\ Default \in LayerList

ProcsType ==
  /\ running \subseteq Procs /\ windows \subseteq Procs /\ missed \subseteq Procs
  /\ crash \in {"no", "memory", "join", "topmost"}

LEMMA Parts ==
  /\ LayersInv => TableType /\ LayersType /\ TopType /\ ProcsType
  /\ TableType' /\ LayersType' /\ TopType' /\ ProcsType' => LayersInv'
<1>1. LayersInv => TableType /\ LayersType /\ TopType /\ ProcsType
  BY DEF LayersInv, TypeOK, LayersSound, TableType, LayersType, TopType,
     ProcsType, EntryType
<1>2. ASSUME TableType', LayersType', TopType', ProcsType' PROVE LayersInv'
  <2>1. topmost' \in Layers
    BY <1>2 DEF TopType, LayersType
  <2>2. TypeOK'
    BY <1>2, <2>1 DEF TypeOK, TableType, LayersType, ProcsType, EntryType
  <2>3. LayersSound'
    BY <1>2 DEF LayersSound, TableType, LayersType, TopType
  <2> QED
    BY <1>2, <2>2, <2>3 DEF LayersInv, TableType, LayersType
<1> QED
  BY <1>1, <1>2

LEMMA EmptyType ==
  /\ Empty \in EntryType /\ Empty.proc = Free /\ Empty.layer = NULL
  /\ Empty.next = Nil /\ Empty.prev = Nil
  BY DEF Empty, EntryType, Pointers

\* A step that leaves the layers alone.
LEMMA LayersKept ==
  ASSUME LayersInv, UNCHANGED layers
  PROVE  LayersType' /\ TopType' /\ LayerList' = LayerList
<1>1. LayersType /\ TopType
  BY Parts
<1>2. LayerList' = LayerList
  BY DEF layers, LayerList
<1> QED
  BY <1>1, <1>2 DEF layers, LayersType, TopType

\* A step that leaves the layers, the table and the lists alone.
LEMMA AllKept ==
  ASSUME LayersInv, UNCHANGED <<lists, layers>>, ProcsType'
  PROVE  LayersInv'
<1>1. LayersType' /\ TopType' /\ LayerList' = LayerList
  BY LayersKept
<1>2. client' = client /\ base' = base /\ head' = head
  BY DEF lists
<1>3. TableType
  BY Parts
<1>4. TableType'
  BY <1>1, <1>2, <1>3 DEF TableType, Entries
<1> QED
  BY <1>1, <1>4, Parts

LEMMA InitLayers == ASSUME Init PROVE LayersInv
<1>1. /\ chain = <<Default>> /\ Len(chain) = 1 /\ DOMAIN chain = {1} /\ chain[1] = Default
      /\ chain \in Seq(Layers)
  BY DefaultAssumption DEF Init
<1>2. LayerList = {Default}
  BY <1>1 DEF LayerList
<1>3. /\ client = [i \in 0 .. NALLOC - 1 |->
                 IF i = 0 THEN [Empty EXCEPT !.proc = Itself, !.layer = Default] ELSE Empty]
      /\ base = 0 /\ head = [l \in {Default} |-> Nil] /\ topmost = Default
      /\ sem = [l \in {Default} |-> 0] /\ usage = {0} /\ keys = 1
      /\ running = {} /\ windows = {} /\ missed = {} /\ crash = "no"
  BY DEF Init
<1>4. /\ [Empty EXCEPT !.proc = Itself, !.layer = Default] \in EntryType
      /\ [Empty EXCEPT !.proc = Itself, !.layer = Default].proc = Itself
      /\ [Empty EXCEPT !.proc = Itself, !.layer = Default].layer = Default
  BY DefaultAssumption DEF Empty, EntryType, Pointers
<1>6. NALLOC \in 1 .. MaxSize /\ NALLOC \in Nat \ {0} /\ Entries = 0 .. NALLOC - 1
      /\ 0 \in Entries
  BY <1>3, SizesAssumption DEF Entries
<1>7. client \in [0 .. NALLOC - 1 -> EntryType]
  BY <1>3, <1>4, EmptyType
<1>8. /\ client[0].proc = Itself /\ client[0].layer = Default
      /\ \A i \in Entries \ {0} : client[i] = Empty
  BY <1>3, <1>4, <1>6
<1>9. \A i \in Entries : client[i].layer \in LayerList \cup {NULL}
  BY <1>2, <1>8, EmptyType
<1>10. head \in [LayerList -> Pointers] /\ base \in 0 .. MaxMoves
  BY <1>2, <1>3, SizesAssumption DEF Pointers
<1>11. LayersSound
  <2>1. usage = {sem[l] : l \in LayerList}
    BY <1>2, <1>3
  <2> QED
    BY <1>1, <1>2, <1>3, <1>9, <2>1 DEF LayersSound
<1>12. TypeOK
  <2>1. /\ Len(chain) \in 1 .. MaxLayers /\ LayerList \subseteq Layers /\ topmost \in Layers
        /\ sem \in [LayerList -> 0 .. MaxLayers - 1]
        /\ usage \subseteq 0 .. MaxLayers - 1 /\ keys \in 1 .. MaxKeys
    BY <1>1, <1>2, <1>3, SizesAssumption, DefaultAssumption
  <2> QED
    BY <1>3, <1>6, <1>7, <1>10, <2>1 DEF TypeOK, EntryType
<1> QED
  BY <1>1, <1>8, <1>9, <1>11, <1>12 DEF LayersInv

-----------------------------------------------------------------------------
(* What each step that changes the table makes of it.                      *)

\* An entry written field by field.
LEMMA EntryFields ==
  ASSUME NEW e \in EntryType
  PROVE  e = [proc |-> e.proc, layer |-> e.layer, next |-> e.next, prev |-> e.prev]
  BY DEF EntryType

LEMMA OffType ==
  ASSUME NEW ptr \in Pointers, NEW to \in 0 .. MaxMoves
  PROVE  Off(ptr, to) \in Pointers
<1>1. CASE ptr = Nil
  BY <1>1 DEF Off, Pointers
<1>2. CASE ptr \in (0 .. MaxMoves) \X (1 .. MaxSize - 1)
  <2>1. ptr # Nil /\ ptr[2] \in 1 .. MaxSize - 1
    BY <1>2 DEF Nil
  <2> QED
    BY <2>1 DEF Off, Pointers
<1> QED
  BY <1>1, <1>2 DEF Pointers

LEMMA AcceptTable ==
  ASSUME LayersInv, NEW p \in Procs, Accept(p)
  PROVE  \E f \in Entries \ {0} :
           /\ client[f].proc = Free
           /\ client' = [client EXCEPT ![f] = [proc |-> p, layer |-> NULL,
                                               next |-> client[f].next,
                                               prev |-> client[f].prev]]
<1> DEFINE free == {i \in Entries : client[i].proc = Free}
           f == Least(free)
<1>1. free # {} /\ client' = [client EXCEPT ![f] = [@ EXCEPT !.proc = p, !.layer = NULL]]
  BY DEF Accept
<1>2. f \in free
  <2>1. free \in SUBSET Nat
    BY Table, SizesAssumption DEF LayersInv
  <2> HIDE DEF free
  <2> QED
    BY <1>1, <2>1, LeastIn
<1> HIDE DEF f
<1>3. f \in Entries \ {0} /\ client[f].proc = Free /\ client[f] \in EntryType
  BY <1>2, Table DEF LayersInv, Free, Itself
<1> DEFINE e == [client[f] EXCEPT !.proc = p, !.layer = NULL]
<1>4. e = [proc |-> p, layer |-> NULL, next |-> client[f].next, prev |-> client[f].prev]
  <2>1. /\ e \in EntryType /\ e.proc = p /\ e.layer = NULL
        /\ e.next = client[f].next /\ e.prev = client[f].prev
    BY <1>3 DEF EntryType
  <2> HIDE DEF e
  <2> QED
    BY <2>1, EntryFields
<1>5. client' = [client EXCEPT ![f] = e]
  BY <1>1
<1> HIDE DEF e
<1> QED
  BY <1>3, <1>4, <1>5

LEMMA GrowTable ==
  ASSUME LayersInv, NEW p \in Procs, NEW to, AcceptGrow(p, to)
  PROVE  LET n == Cardinality(Entries) IN
         /\ n \in Nat \ {0} /\ n + NALLOC \in 1 .. MaxSize /\ Entries = 0 .. n - 1
         /\ client' \in [0 .. n + NALLOC - 1 -> EntryType]
         /\ \A i \in Entries :
              client'[i] = [proc |-> client[i].proc, layer |-> client[i].layer,
                            next |-> Off(client[i].next, to), prev |-> Off(client[i].prev, to)]
         /\ client'[n] = [proc |-> p, layer |-> NULL, next |-> Nil, prev |-> Nil]
         /\ \A i \in n + 1 .. n + NALLOC - 1 : client'[i] = Empty
         /\ to \in 0 .. MaxMoves
         /\ \A i \in Entries : client[i].proc # Free
<1> DEFINE n == Cardinality(Entries)
           g == Grown(to)
<1>1. /\ n + NALLOC <= MaxSize /\ to \in base .. base + 1 /\ to <= MaxMoves
      /\ client' = [g EXCEPT ![n] = [@ EXCEPT !.proc = p]]
      /\ \A i \in Entries : client[i].proc # Free
  BY DEF AcceptGrow
<1>2. /\ n \in 1 .. MaxSize /\ Entries = 0 .. n - 1 /\ client \in [Entries -> EntryType]
      /\ base \in 0 .. MaxMoves
  BY Table DEF LayersInv, TypeOK
<1>3. g = [i \in 0 .. n + NALLOC - 1 |->
             IF i \in Entries
             THEN [client[i] EXCEPT !.next = Off(@, to), !.prev = Off(@, to)]
             ELSE Empty]
  BY DEF Grown
<1> HIDE DEF n, g
<1>4. /\ n \in Nat \ {0} /\ n + NALLOC \in 1 .. MaxSize /\ NALLOC \in Nat \ {0}
      /\ to \in 0 .. MaxMoves
  BY <1>1, <1>2, SizesAssumption
<1>5. /\ n \in 0 .. n + NALLOC - 1 /\ n \notin Entries
      /\ \A i \in Entries : i \in 0 .. n + NALLOC - 1 /\ i # n
      /\ \A i \in n + 1 .. n + NALLOC - 1 : i \in 0 .. n + NALLOC - 1 /\ i # n /\ i \notin Entries
  BY <1>2, <1>4
<1>6. client' = [i \in 0 .. n + NALLOC - 1 |-> IF i = n THEN [g[n] EXCEPT !.proc = p] ELSE g[i]]
  BY <1>1, <1>3
<1>7. g[n] = Empty
  BY <1>3, <1>5
<1>8. [Empty EXCEPT !.proc = p] = [proc |-> p, layer |-> NULL, next |-> Nil, prev |-> Nil]
  BY DEF Empty
<1>9. client'[n] = [proc |-> p, layer |-> NULL, next |-> Nil, prev |-> Nil]
  BY <1>5, <1>6, <1>7, <1>8
<1>10. \A i \in n + 1 .. n + NALLOC - 1 : client'[i] = Empty
  BY <1>3, <1>5, <1>6
<1>11. ASSUME NEW i \in Entries
       PROVE  /\ client'[i] = [proc |-> client[i].proc, layer |-> client[i].layer,
                               next |-> Off(client[i].next, to),
                               prev |-> Off(client[i].prev, to)]
              /\ client'[i] \in EntryType
  <2>1. client'[i] = [client[i] EXCEPT !.next = Off(@, to), !.prev = Off(@, to)]
    BY <1>3, <1>5, <1>6
  <2>2. client[i] \in EntryType
    BY <1>2
  <2>3. client[i].next \in Pointers /\ client[i].prev \in Pointers
    BY <2>2 DEF EntryType
  <2>4. Off(client[i].next, to) \in Pointers /\ Off(client[i].prev, to) \in Pointers
    BY <1>4, <2>3, OffType
  <2>5. client'[i] = [proc |-> client[i].proc, layer |-> client[i].layer,
                      next |-> Off(client[i].next, to), prev |-> Off(client[i].prev, to)]
    BY <2>1, <2>2 DEF EntryType
  <2> QED
    BY <2>2, <2>4, <2>5 DEF EntryType
<1>12. client'[n] \in EntryType
  BY <1>9 DEF EntryType, Pointers
<1>13. client' \in [0 .. n + NALLOC - 1 -> EntryType]
  <2>1. ASSUME NEW i \in 0 .. n + NALLOC - 1 PROVE client'[i] \in EntryType
    <3>1. i \in Entries \/ i = n \/ i \in n + 1 .. n + NALLOC - 1
      BY <1>2, <1>4
    <3> QED
      BY <1>10, <1>11, <1>12, <3>1, EmptyType
  <2> QED
    BY <1>6, <2>1
<1> QED
  BY <1>1, <1>2, <1>4, <1>9, <1>10, <1>11, <1>13 DEF n

\* The fields of the entries after one of them has left its list.
LEMMA UnlinkedTable ==
  ASSUME LayersInv, NEW i \in Entries, client' = Unlinked(client, i)
  PROVE  /\ client' \in [Entries -> EntryType] /\ client'[i] = Empty
         /\ \A j \in Entries \ {i} :
              client'[j] =
                [proc |-> client[j].proc, layer |-> client[j].layer,
                 next |-> IF client[i].prev = Ptr(j) /\ client[i].next # Ptr(j)
                          THEN client[i].next ELSE client[j].next,
                 prev |-> IF client[i].next = Ptr(j)
                          THEN client[i].prev ELSE client[j].prev]
<1>1. client \in [Entries -> EntryType]
  BY Table DEF LayersInv
<1>2. client' =
        [j \in Entries |->
           CASE j = i -> Empty
             [] j # i /\ client[i].next = Ptr(j) -> [client[j] EXCEPT !.prev = client[i].prev]
             [] j # i /\ client[i].prev = Ptr(j) /\ client[i].next # Ptr(j) ->
                  [client[j] EXCEPT !.next = client[i].next]
             [] OTHER -> client[j]]
  BY DEF Unlinked, Entries
<1>3. client'[i] = Empty
  BY <1>2
<1>4. ASSUME NEW j \in Entries \ {i}
      PROVE  /\ client'[j] =
                [proc |-> client[j].proc, layer |-> client[j].layer,
                 next |-> IF client[i].prev = Ptr(j) /\ client[i].next # Ptr(j)
                          THEN client[i].next ELSE client[j].next,
                 prev |-> IF client[i].next = Ptr(j)
                          THEN client[i].prev ELSE client[j].prev]
             /\ client'[j] \in EntryType
  <2>1. /\ client[j] \in EntryType /\ client[i] \in EntryType
        /\ client[i].next \in Pointers /\ client[i].prev \in Pointers
    BY <1>1 DEF EntryType
  <2>2. CASE client[i].next = Ptr(j)
    <3>1. client'[j] = [client[j] EXCEPT !.prev = client[i].prev]
      BY <1>2, <2>2
    <3> QED
      BY <2>1, <2>2, <3>1 DEF EntryType
  <2>3. CASE client[i].next # Ptr(j) /\ client[i].prev = Ptr(j)
    <3>1. client'[j] = [client[j] EXCEPT !.next = client[i].next]
      BY <1>2, <2>3
    <3> QED
      BY <2>1, <2>3, <3>1 DEF EntryType
  <2>4. CASE client[i].next # Ptr(j) /\ client[i].prev # Ptr(j)
    <3>1. client'[j] = client[j]
      BY <1>2, <2>4
    <3> QED
      BY <2>1, <2>4, <3>1 DEF EntryType
  <2> QED
    BY <2>2, <2>3, <2>4
<1>5. client' \in [Entries -> EntryType]
  BY <1>2, <1>3, <1>4, EmptyType
<1> QED
  BY <1>3, <1>4, <1>5

\* The fields of the entries after one of them has joined a layer.
LEMMA JoinedTable ==
  ASSUME LayersInv, NEW i \in Entries \ {0}, NEW l \in Layers, Joined(i, l)
  PROVE  LET first == IF l \in DOMAIN head THEN head[l] ELSE Nil IN
         /\ client' \in [Entries -> EntryType] /\ first \in Pointers
         /\ client'[i] = [proc |-> client[i].proc, layer |-> l, next |-> first, prev |-> Nil]
         /\ \A j \in Entries \ {i} :
              client'[j] =
                [proc |-> client[j].proc, layer |-> client[j].layer, next |-> client[j].next,
                 prev |-> IF first = Ptr(j) THEN Ptr(i) ELSE client[j].prev]
         /\ head' \in [DOMAIN head \cup {l} -> Pointers]
         /\ head'[l] = Ptr(i) /\ \A x \in DOMAIN head \ {l} : head'[x] = head[x]
<1> DEFINE first == IF l \in DOMAIN head THEN head[l] ELSE Nil
<1>1. /\ client \in [Entries -> EntryType] /\ head \in [LayerList -> Pointers]
      /\ Ptr(i) \in Pointers
  <2>1. /\ client \in [Entries -> EntryType] /\ Entries = 0 .. Cardinality(Entries) - 1
        /\ Cardinality(Entries) \in 1 .. MaxSize
    BY Table DEF LayersInv
  <2>2. head \in [LayerList -> Pointers] /\ base \in 0 .. MaxMoves
    BY DEF LayersInv, TypeOK
  <2>3. i \in 1 .. MaxSize - 1
    BY <2>1, SizesAssumption
  <2> QED
    BY <2>1, <2>2, <2>3 DEF Ptr, Pointers
<1>2. first \in Pointers
  BY <1>1 DEF Pointers
<1>3. /\ client' = [j \in Entries |->
            CASE j = i -> [client[i] EXCEPT !.layer = l, !.prev = Nil, !.next = first]
              [] j # i /\ first = Ptr(j) -> [client[j] EXCEPT !.prev = Ptr(i)]
              [] OTHER -> client[j]]
      /\ head' = [x \in DOMAIN head \cup {l} |-> IF x = l THEN Ptr(i) ELSE head[x]]
  BY DEF Joined
<1> HIDE DEF first
<1>4. /\ client'[i] = [proc |-> client[i].proc, layer |-> l, next |-> first, prev |-> Nil]
      /\ client'[i] \in EntryType
  <2>1. client'[i] = [client[i] EXCEPT !.layer = l, !.prev = Nil, !.next = first]
    BY <1>3
  <2>2. client[i] \in EntryType /\ Nil \in Pointers
    BY <1>1 DEF Pointers
  <2> QED
    BY <1>2, <2>1, <2>2 DEF EntryType
<1>5. ASSUME NEW j \in Entries \ {i}
      PROVE  /\ client'[j] =
                 [proc |-> client[j].proc, layer |-> client[j].layer, next |-> client[j].next,
                  prev |-> IF first = Ptr(j) THEN Ptr(i) ELSE client[j].prev]
             /\ client'[j] \in EntryType
  <2>1. client[j] \in EntryType
    BY <1>1
  <2>2. CASE first = Ptr(j)
    <3>1. client'[j] = [client[j] EXCEPT !.prev = Ptr(i)]
      BY <1>3, <2>2
    <3> QED
      BY <1>1, <2>1, <2>2, <3>1 DEF EntryType
  <2>3. CASE first # Ptr(j)
    <3>1. client'[j] = client[j]
      BY <1>3, <2>3
    <3> QED
      BY <2>1, <2>3, <3>1 DEF EntryType
  <2> QED
    BY <2>2, <2>3
<1>6. client' \in [Entries -> EntryType]
  BY <1>3, <1>4, <1>5
<1>7. /\ head' \in [DOMAIN head \cup {l} -> Pointers]
      /\ head'[l] = Ptr(i) /\ \A x \in DOMAIN head \ {l} : head'[x] = head[x]
  BY <1>1, <1>3
<1> QED
  BY <1>2, <1>4, <1>5, <1>6, <1>7 DEF first

-----------------------------------------------------------------------------
(* Every step keeps the layers and the table sound.                        *)

LEMMA AcceptLayers ==
  ASSUME LayersInv, NEW p \in Procs, Accept(p)
  PROVE  LayersInv'
<1>1. PICK f \in Entries \ {0} :
        client' = [client EXCEPT ![f] = [proc |-> p, layer |-> NULL,
                                         next |-> client[f].next, prev |-> client[f].prev]]
  BY AcceptTable
<1> DEFINE e == [proc |-> p, layer |-> NULL, next |-> client[f].next, prev |-> client[f].prev]
<1>2. /\ base' = base /\ head' = head /\ UNCHANGED layers
      /\ running' = running \cup {p} /\ missed' = {} /\ windows' = windows /\ crash' = crash
  BY DEF Accept
<1>3. TableType /\ LayersType /\ TopType /\ ProcsType
  BY Parts
<1>4. LayersType' /\ TopType' /\ LayerList' = LayerList
  BY <1>2, LayersKept
<1>5. PICK n \in 1 .. MaxSize : client \in [0 .. n - 1 -> EntryType]
  BY <1>3 DEF TableType
<1>6. e \in EntryType /\ e.layer = NULL
  <2>1. client[f] \in EntryType
    BY Table DEF LayersInv
  <2> QED
    BY <2>1 DEF EntryType
<1>12. client' = [client EXCEPT ![f] = e]
  BY <1>1
<1> HIDE DEF e
<1>7. /\ client' \in [0 .. n - 1 -> EntryType] /\ client'[0] = client[0]
      /\ Entries' = Entries /\ Entries = 0 .. n - 1 /\ client'[f] = e
      /\ \A i \in Entries \ {f} : client'[i] = client[i]
  BY <1>5, <1>6, <1>12 DEF Entries
<1>8. \A i \in Entries' : client'[i].layer \in LayerList \cup {NULL}
  BY <1>3, <1>6, <1>7 DEF TableType
<1>9. client'[0].proc = Itself /\ client'[0].layer = Default
      /\ base' \in 0 .. MaxMoves /\ head' \in [LayerList -> Pointers]
  BY <1>2, <1>3, <1>7 DEF TableType
<1>10. TableType'
  BY <1>4, <1>7, <1>8, <1>9 DEF TableType
<1>11. ProcsType'
  BY <1>2, <1>3 DEF ProcsType
<1> QED
  BY <1>4, <1>10, <1>11, Parts

LEMMA GrowLayers ==
  ASSUME LayersInv, NEW p \in Procs, NEW to, AcceptGrow(p, to)
  PROVE  LayersInv'
<1> DEFINE n == Cardinality(Entries)
<1>1. /\ n \in Nat \ {0} /\ n + NALLOC \in 1 .. MaxSize /\ Entries = 0 .. n - 1
      /\ client' \in [0 .. n + NALLOC - 1 -> EntryType]
      /\ \A i \in Entries :
           client'[i] = [proc |-> client[i].proc, layer |-> client[i].layer,
                         next |-> Off(client[i].next, to), prev |-> Off(client[i].prev, to)]
      /\ client'[n] = [proc |-> p, layer |-> NULL, next |-> Nil, prev |-> Nil]
      /\ \A i \in n + 1 .. n + NALLOC - 1 : client'[i] = Empty
      /\ to \in 0 .. MaxMoves /\ \A i \in Entries : client[i].proc # Free
  BY GrowTable
<1> HIDE DEF n
<1>2. /\ base' = to /\ head' = [l \in DOMAIN head |-> Off(head[l], to)] /\ UNCHANGED layers
      /\ running' = running \cup {p} /\ missed' = {} /\ windows' = windows /\ crash' = crash
  BY DEF AcceptGrow, OffHead
<1>3. TableType /\ LayersType /\ TopType /\ ProcsType
  BY Parts
<1>4. LayersType' /\ TopType' /\ LayerList' = LayerList
  BY <1>2, LayersKept
<1>5. head' \in [LayerList -> Pointers]
  <2>1. head \in [LayerList -> Pointers]
    BY <1>3 DEF TableType
  <2> QED
    BY <1>1, <1>2, <2>1, OffType
<1>6. /\ 0 \in Entries /\ client'[0].proc = client[0].proc /\ client'[0].layer = client[0].layer
      /\ Entries' = 0 .. n + NALLOC - 1
  <2>1. 0 \in Entries
    BY <1>1
  <2>2. client'[0].proc = client[0].proc /\ client'[0].layer = client[0].layer
    <3>1. client'[0] = [proc |-> client[0].proc, layer |-> client[0].layer,
                        next |-> Off(client[0].next, to), prev |-> Off(client[0].prev, to)]
      BY <1>1, <2>1, Zenon
    <3> QED
      BY <3>1
  <2>3. Entries' = 0 .. n + NALLOC - 1
    BY <1>1 DEF Entries
  <2> QED
    BY <2>1, <2>2, <2>3
<1>7. ASSUME NEW i \in Entries'
      PROVE  client'[i].layer \in LayerList \cup {NULL}
  <2>1. i \in Entries \/ i = n \/ i \in n + 1 .. n + NALLOC - 1
    BY <1>1, <1>6, SizesAssumption
  <2>2. CASE i \in Entries
    <3>1. client[i].layer \in LayerList \cup {NULL}
      BY <1>3, <2>2 DEF TableType
    <3>2. client'[i] = [proc |-> client[i].proc, layer |-> client[i].layer,
                        next |-> Off(client[i].next, to), prev |-> Off(client[i].prev, to)]
      BY <1>1, <2>2, Zenon
    <3>3. client'[i].layer = client[i].layer
      BY <3>2
    <3> QED
      BY <3>1, <3>3
  <2>3. CASE i = n
    BY <1>1, <2>3
  <2>4. CASE i \in n + 1 .. n + NALLOC - 1
    <3>1. client'[i] = Empty
      BY <1>1, <2>4
    <3> QED
      BY <3>1, EmptyType
  <2> QED
    BY <2>1, <2>2, <2>3, <2>4
<1>8. base' \in 0 .. MaxMoves /\ client'[0].proc = Itself /\ client'[0].layer = Default
  BY <1>1, <1>2, <1>3, <1>6 DEF TableType
<1>9. TableType'
  <2>1. \E m \in 1 .. MaxSize : client' \in [0 .. m - 1 -> EntryType]
    <3> DEFINE m == n + NALLOC
    <3>1. n + NALLOC - 1 = m - 1 /\ m \in 1 .. MaxSize
      BY <1>1, SizesAssumption
    <3>2. client' \in [0 .. m - 1 -> EntryType]
      BY <1>1, <3>1, Zenon
    <3> QED
      BY <3>1, <3>2
  <2>2. head' \in [LayerList' -> Pointers]
    BY <1>4, <1>5
  <2>3. \A i \in Entries' : client'[i].layer \in LayerList' \cup {NULL}
    BY <1>4, <1>7
  <2> QED
    BY <1>8, <2>1, <2>2, <2>3, Zenon DEF TableType
<1>10. ProcsType'
  BY <1>2, <1>3 DEF ProcsType
<1> QED
  BY <1>4, <1>9, <1>10, Parts

LEMMA RemoveLayers ==
  ASSUME LayersInv, NEW p \in Procs, RemoveClient(p)
  PROVE  LayersInv'
<1> DEFINE i == EntryOf(p)
<1>1. /\ Connected(p) /\ client' = Unlinked(client, i)
      /\ head' = [l \in DOMAIN head |-> IF head[l] = Ptr(i) THEN client[i].next ELSE head[l]]
      /\ base' = base /\ UNCHANGED layers
      /\ windows' = windows \ {p} /\ missed' = {} /\ running' = running /\ crash' = crash
  BY DEF RemoveClient, HeadWithout
<1>2. i \in Entries \ {0}
  BY <1>1, EntryOfIn
<1> HIDE DEF i
<1>3. /\ client' \in [Entries -> EntryType] /\ client'[i] = Empty
      /\ \A j \in Entries \ {i} :
           client'[j].proc = client[j].proc /\ client'[j].layer = client[j].layer
  <2>1. /\ client' \in [Entries -> EntryType] /\ client'[i] = Empty
        /\ \A j \in Entries \ {i} :
              client'[j] =
                [proc |-> client[j].proc, layer |-> client[j].layer,
                 next |-> IF client[i].prev = Ptr(j) /\ client[i].next # Ptr(j)
                          THEN client[i].next ELSE client[j].next,
                 prev |-> IF client[i].next = Ptr(j)
                          THEN client[i].prev ELSE client[j].prev]
    BY <1>1, <1>2, UnlinkedTable
  <2> QED
    BY <2>1
<1>4. /\ TableType /\ LayersType /\ TopType /\ ProcsType
      /\ Cardinality(Entries) \in 1 .. MaxSize
      /\ Entries = 0 .. Cardinality(Entries) - 1 /\ client \in [Entries -> EntryType]
  BY Parts, Table DEF LayersInv
<1>5. LayersType' /\ TopType' /\ LayerList' = LayerList
  BY <1>1, LayersKept
<1>6. Entries' = Entries /\ 0 \in Entries /\ client'[0].proc = Itself /\ client'[0].layer = Default
  BY <1>2, <1>3, <1>4, SizesAssumption DEF Entries, TableType
<1>7. head' \in [LayerList -> Pointers]
  <2>1. head \in [LayerList -> Pointers] /\ client[i].next \in Pointers
    BY <1>2, <1>4 DEF TableType, EntryType
  <2> QED
    BY <1>1, <2>1
<1>8. \A j \in Entries' : client'[j].layer \in LayerList \cup {NULL}
  BY <1>3, <1>4, <1>6, EmptyType DEF TableType
<1>9. base' \in 0 .. MaxMoves
  BY <1>1, <1>4 DEF TableType
<1>10. TableType'
  <2>1. \E n \in 1 .. MaxSize : client' \in [0 .. n - 1 -> EntryType]
    BY <1>3, <1>4
  <2> QED
    BY <1>5, <1>6, <1>7, <1>8, <1>9, <2>1 DEF TableType
<1>11. ProcsType'
  BY <1>1, <1>4 DEF ProcsType
<1> QED
  BY <1>5, <1>10, <1>11, Parts


LEMMA JoinLayers ==
  ASSUME LayersInv, NEW p \in Procs, NEW l \in Layers, JoinLayer(p, l)
  PROVE  LayersInv' /\ LayerList' = LayerList \cup {l}
<1> DEFINE i == EntryOf(p)
<1>1. /\ Connected(p) /\ Joined(i, l)
      /\ base' = base /\ missed' = {} /\ windows' = windows /\ running' = running
      /\ crash' = crash
  BY DEF JoinLayer
<1>2. i \in Entries \ {0}
  BY <1>1, EntryOfIn
<1>3. /\ TableType /\ LayersType /\ TopType /\ ProcsType
      /\ Cardinality(Entries) \in 1 .. MaxSize
      /\ Entries = 0 .. Cardinality(Entries) - 1 /\ client \in [Entries -> EntryType]
  BY Parts, Table DEF LayersInv
<1>4. LayersType' /\ TopType' /\ LayerList' = LayerList \cup {l}
  <2>1. CASE l \in LayerList /\ UNCHANGED layers
    BY <2>1, LayersKept
  <2>2. CASE l \notin LayerList /\ RoomForLayer /\ NewLayer(l) /\ topmost' = l
    <3>1. LayersType' /\ LayerList' = LayerList \cup {l}
      BY <2>2, NewLayerSound
    <3> QED
      BY <1>3, <2>2, <3>1 DEF TopType
  <2> QED
    BY <2>1, <2>2 DEF JoinLayer
<1> HIDE DEF i
<1> DEFINE first == IF l \in DOMAIN head THEN head[l] ELSE Nil
<1>5. /\ client' \in [Entries -> EntryType]
      /\ client'[i] = [proc |-> client[i].proc, layer |-> l, next |-> first, prev |-> Nil]
      /\ \A j \in Entries \ {i} :
           client'[j] =
             [proc |-> client[j].proc, layer |-> client[j].layer, next |-> client[j].next,
              prev |-> IF first = Ptr(j) THEN Ptr(i) ELSE client[j].prev]
      /\ head' \in [DOMAIN head \cup {l} -> Pointers]
  BY <1>1, <1>2, JoinedTable
<1> HIDE DEF first
<1>6. /\ client'[i].proc = client[i].proc /\ client'[i].layer = l
      /\ \A j \in Entries \ {i} :
           client'[j].proc = client[j].proc /\ client'[j].layer = client[j].layer
  BY <1>5
<1>7. Entries' = Entries /\ 0 \in Entries
  BY <1>3, <1>5, SizesAssumption DEF Entries
<1>8. client'[0].proc = Itself /\ client'[0].layer = Default /\ base' \in 0 .. MaxMoves
  BY <1>1, <1>2, <1>3, <1>6, <1>7 DEF TableType
<1>9. \A j \in Entries' : client'[j].layer \in LayerList' \cup {NULL}
  BY <1>3, <1>4, <1>6, <1>7 DEF TableType
<1>10. head' \in [LayerList' -> Pointers]
  BY <1>3, <1>4, <1>5 DEF TableType
<1>11. TableType'
  <2>1. \E n \in 1 .. MaxSize : client' \in [0 .. n - 1 -> EntryType]
    BY <1>3, <1>5
  <2> QED
    BY <1>8, <1>9, <1>10, <2>1, Zenon DEF TableType
<1>12. ProcsType'
  BY <1>1, <1>3 DEF ProcsType
<1> QED
  BY <1>4, <1>11, <1>12, Parts

LEMMA CreateLayers ==
  ASSUME LayersInv, NEW l \in Layers, ServerCreateLayer(l)
  PROVE  LayersInv' /\ LayerList' = LayerList \cup {l}
<1>1. /\ l \notin LayerList /\ RoomForLayer /\ NewLayer(l)
      /\ head' = [x \in DOMAIN head \cup {l} |-> IF x = l THEN Nil ELSE head[x]]
      /\ UNCHANGED <<client, base, topmost, running, windows, crash>> /\ missed' = {}
  BY DEF ServerCreateLayer
<1>2. TableType /\ LayersType /\ TopType /\ ProcsType
  BY Parts
<1>3. LayersType' /\ LayerList' = LayerList \cup {l}
  BY <1>1, NewLayerSound
<1>4. TopType' /\ ProcsType'
  BY <1>1, <1>2, <1>3 DEF TopType, ProcsType
<1>5. head' \in [LayerList' -> Pointers]
  BY <1>1, <1>2, <1>3 DEF TableType, Pointers
<1>6. TableType'
  <2>1. /\ \E n \in 1 .. MaxSize : client' \in [0 .. n - 1 -> EntryType]
        /\ base' \in 0 .. MaxMoves /\ client'[0].proc = Itself /\ client'[0].layer = Default
    BY <1>1, <1>2 DEF TableType
  <2>2. \A i \in Entries' : client'[i].layer \in LayerList' \cup {NULL}
    BY <1>1, <1>2, <1>3 DEF TableType, Entries
  <2> QED
    BY <1>5, <2>1, <2>2 DEF TableType
<1> QED
  BY <1>3, <1>4, <1>6, Parts

\* The list of layers without the one that is deleted.
LEMMA LessLayers ==
  ASSUME LayersInv, NEW k \in DOMAIN chain, ServerDeleteLayer(k)
  PROVE  LayersType' /\ TopType' /\ LayerList' = LayerList \ {chain[k]}
<1> DEFINE l == chain[k]
<1>1. /\ l # Default /\ topmost' = IF k # 1 THEN chain[1] ELSE chain[2]
      /\ chain' = SubSeq(chain, 1, k - 1) \o SubSeq(chain, k + 1, Len(chain))
      /\ sem' = [x \in DOMAIN sem \ {l} |-> sem[x]]
      /\ usage' = usage \ {sem[l]} /\ keys' = keys
  BY DEF ServerDeleteLayer, NextTopmost
<1>2. /\ chain \in Seq(Layers) /\ Len(chain) \in 1 .. MaxLayers
      /\ Len(chain) \in Nat /\ DOMAIN chain = 1 .. Len(chain)
      /\ LayerList \subseteq Layers
      /\ sem \in [LayerList -> 0 .. MaxLayers - 1]
      /\ usage \subseteq 0 .. MaxLayers - 1 /\ keys \in 1 .. MaxKeys
      /\ \A j, m \in DOMAIN chain :
           j # m => chain[j] # chain[m] /\ sem[chain[j]] # sem[chain[m]]
      /\ usage = {sem[x] : x \in LayerList} /\ Default \in LayerList
  BY Parts DEF LayersType, TopType
<1>3. k \in 1 .. Len(chain) /\ MaxLayers \in Nat
  BY <1>2, SizesAssumption
<1>4. /\ chain' \in Seq(Layers) /\ Len(chain') = Len(chain) - 1
      /\ \A j \in 1 .. Len(chain) - 1 :
           chain'[j] = IF j < k THEN chain[j] ELSE chain[j + 1]
  BY <1>1, <1>2, <1>3, RemoveAt, Zenon
<1>5. DOMAIN chain' = 1 .. Len(chain) - 1
  BY <1>4
<1>6. PICK d \in 1 .. Len(chain) : Default = chain[d]
  BY <1>2 DEF LayerList
<1>7. d # k /\ Len(chain) >= 2
  BY <1>1, <1>2, <1>3, <1>6
<1> DEFINE o == [j \in 1 .. Len(chain) - 1 |-> IF j < k THEN j ELSE j + 1]
<1>8. /\ \A j \in 1 .. Len(chain) - 1 :
           o[j] \in (1 .. Len(chain)) \ {k} /\ chain'[j] = chain[o[j]]
      /\ \A j, m \in 1 .. Len(chain) - 1 : j # m => o[j] # o[m]
      /\ \A m \in (1 .. Len(chain)) \ {k} : \E j \in 1 .. Len(chain) - 1 : o[j] = m
  <2>1. \A j \in 1 .. Len(chain) - 1 :
          o[j] \in (1 .. Len(chain)) \ {k} /\ chain'[j] = chain[o[j]]
    BY <1>2, <1>3, <1>4
  <2>2. \A j, m \in 1 .. Len(chain) - 1 : j # m => o[j] # o[m]
    BY <1>2, <1>3
  <2>3. ASSUME NEW m \in (1 .. Len(chain)) \ {k}
        PROVE  \E j \in 1 .. Len(chain) - 1 : o[j] = m
    <3>1. CASE m < k
      BY <1>2, <1>3, <3>1
    <3>2. CASE k < m
      <4>1. m - 1 \in 1 .. Len(chain) - 1 /\ o[m - 1] = m
        BY <1>2, <1>3, <3>2
      <4> QED
        BY <4>1
    <3> QED
      BY <1>3, <3>1, <3>2
  <2> QED
    BY <2>1, <2>2, <2>3
<1> HIDE DEF o
<1>9. \A m \in 1 .. Len(chain) : chain[m] \in LayerList
  BY <1>2 DEF LayerList
<1>10. LayerList' = LayerList \ {l}
  <2>1. ASSUME NEW x \in LayerList' PROVE x \in LayerList \ {l}
    <3>1. PICK j \in 1 .. Len(chain) - 1 : x = chain'[j]
      BY <1>5 DEF LayerList
    <3>2. o[j] \in (1 .. Len(chain)) \ {k} /\ x = chain[o[j]]
      BY <1>8, <3>1
    <3> QED
      BY <1>2, <1>3, <1>9, <3>2
  <2>2. ASSUME NEW x \in LayerList \ {l} PROVE x \in LayerList'
    <3>1. PICK m \in 1 .. Len(chain) : x = chain[m]
      BY <1>2 DEF LayerList
    <3>2. PICK j \in 1 .. Len(chain) - 1 : o[j] = m
      BY <1>8, <3>1
    <3> QED
      BY <1>5, <1>8, <3>1, <3>2 DEF LayerList
  <2> QED
    BY <2>1, <2>2
<1>11. topmost' \in LayerList' /\ Default \in LayerList'
  <2>1. topmost' \in LayerList \ {l}
    <3>0. \A m \in 1 .. Len(chain) : m # k => chain[m] \in LayerList \ {l}
      BY <1>2, <1>3, <1>9
    <3>1. CASE k # 1
      <4>1. 1 \in 1 .. Len(chain)
        BY <1>2
      <4> QED
        BY <1>1, <3>0, <3>1, <4>1
    <3>2. CASE k = 1
      <4>1. 2 \in 1 .. Len(chain) /\ 2 # k
        BY <1>2, <1>7, <3>2
      <4> QED
        BY <1>1, <3>0, <3>2, <4>1
    <3> QED
      BY <3>1, <3>2
  <2> QED
    BY <1>1, <1>2, <1>10, <2>1
<1>12. \A j, m \in DOMAIN chain' :
         j # m => chain'[j] # chain'[m] /\ sem'[chain'[j]] # sem'[chain'[m]]
  <2>1. \A j \in 1 .. Len(chain) - 1 :
          /\ o[j] \in 1 .. Len(chain) /\ chain'[j] = chain[o[j]]
          /\ sem'[chain'[j]] = sem[chain[o[j]]]
    <3> SUFFICES ASSUME NEW j \in 1 .. Len(chain) - 1
                 PROVE  /\ o[j] \in 1 .. Len(chain) /\ chain'[j] = chain[o[j]]
                        /\ sem'[chain'[j]] = sem[chain[o[j]]]
      OBVIOUS
    <3>1. o[j] \in 1 .. Len(chain) /\ o[j] # k /\ chain'[j] = chain[o[j]]
      BY <1>8
    <3>2. chain[o[j]] \in LayerList /\ chain[o[j]] # l
      BY <1>2, <1>3, <1>9, <3>1
    <3>3. sem'[chain[o[j]]] = sem[chain[o[j]]]
      BY <1>1, <1>2, <3>2
    <3> QED
      BY <3>1, <3>3
  <2> SUFFICES ASSUME NEW j \in 1 .. Len(chain) - 1, NEW m \in 1 .. Len(chain) - 1, j # m
               PROVE  chain'[j] # chain'[m] /\ sem'[chain'[j]] # sem'[chain'[m]]
    BY <1>5
  <2>2. o[j] \in DOMAIN chain /\ o[m] \in DOMAIN chain /\ o[j] # o[m]
    BY <1>2, <1>8
  <2>3. chain[o[j]] # chain[o[m]] /\ sem[chain[o[j]]] # sem[chain[o[m]]]
    BY <1>2, <2>2
  <2> QED
    BY <2>1, <2>3
<1>13. usage' = {sem'[x] : x \in LayerList'}
  <2>1. \A x \in LayerList' : sem'[x] = sem[x] /\ sem[x] # sem[l]
    <3> SUFFICES ASSUME NEW x \in LayerList \ {l}
                 PROVE  sem'[x] = sem[x] /\ sem[x] # sem[l]
      BY <1>10
    <3>1. PICK m \in 1 .. Len(chain) : x = chain[m]
      BY <1>2 DEF LayerList
    <3> QED
      BY <1>1, <1>2, <1>3, <3>1
  <2>2. usage' = {sem[x] : x \in LayerList} \ {sem[l]}
    BY <1>1, <1>2
  <2>3. {sem[x] : x \in LayerList} \ {sem[l]} = {sem[x] : x \in LayerList \ {l}}
    BY <1>10, <2>1
  <2>4. {sem[x] : x \in LayerList \ {l}} = {sem'[x] : x \in LayerList'}
    BY <1>10, <2>1
  <2> QED
    BY <2>2, <2>3, <2>4
<1>14. sem' \in [LayerList' -> 0 .. MaxLayers - 1] /\ usage' \subseteq 0 .. MaxLayers - 1
  BY <1>1, <1>2, <1>10
<1>15. Len(chain') \in 1 .. MaxLayers
  <2>1. Len(chain') = Len(chain) - 1
    BY <1>4
  <2>2. Len(chain) \in Int /\ Len(chain) <= MaxLayers /\ Len(chain) >= 2
    BY <1>2, <1>3, <1>7
  <2> QED
    BY <1>3, <2>1, <2>2
<1> QED
  BY <1>1, <1>2, <1>4, <1>10, <1>11, <1>12, <1>13, <1>14, <1>15 DEF LayersType, TopType

LEMMA DeleteLayers ==
  ASSUME LayersInv, NEW k \in DOMAIN chain, ServerDeleteLayer(k)
  PROVE  LayersInv' /\ LayerList' = LayerList \ {chain[k]}
<1> DEFINE l == chain[k]
<1>1. /\ client' = [i \in Entries |-> IF i \in Members(l) THEN Empty ELSE client[i]]
      /\ head' = [x \in DOMAIN head \ {l} |-> head[x]]
      /\ running' = running \ {client[i].proc : i \in Members(l)} /\ missed' = {}
      /\ UNCHANGED <<base, windows, crash>> /\ l # Default
  BY DEF ServerDeleteLayer
<1>2. LayersType' /\ TopType' /\ LayerList' = LayerList \ {l}
  BY LessLayers
<1>3. /\ TableType /\ ProcsType /\ Cardinality(Entries) \in 1 .. MaxSize
      /\ Entries = 0 .. Cardinality(Entries) - 1 /\ client \in [Entries -> EntryType]
      /\ client[0].layer = Default
  BY Parts, Table, SizesAssumption DEF LayersInv
<1>4. ProcsType'
  BY <1>1, <1>3 DEF ProcsType
<1>5. client' \in [Entries -> EntryType] /\ Entries' = Entries
  BY <1>1, <1>3, EmptyType DEF Entries
<1>6. 0 \in Entries /\ 0 \notin Members(l)
  BY <1>3, SizesAssumption DEF Members
<1>7. client'[0].proc = Itself /\ client'[0].layer = Default
      /\ base' \in 0 .. MaxMoves /\ head' \in [LayerList' -> Pointers]
  BY <1>1, <1>2, <1>3, <1>6 DEF TableType
<1>8. ASSUME NEW i \in Entries' PROVE client'[i].layer \in LayerList' \cup {NULL}
  <2>1. CASE i \in Members(l)
    BY <1>1, <1>5, <2>1, EmptyType
  <2>2. CASE i \notin Members(l)
    <3>1. client'[i] = client[i] /\ client[i].layer \in LayerList \cup {NULL}
      BY <1>1, <1>3, <1>5, <2>2 DEF TableType
    <3>2. client[i].layer # l
      BY <1>1, <1>3, <1>5, <2>2 DEF Members
    <3> QED
      BY <1>2, <3>1, <3>2
  <2> QED
    BY <2>1, <2>2
<1>9. TableType'
  <2>1. \E n \in 1 .. MaxSize : client' \in [0 .. n - 1 -> EntryType]
    BY <1>3, <1>5
  <2> QED
    BY <1>7, <1>8, <2>1, Zenon DEF TableType
<1> QED
  BY <1>2, <1>4, <1>9, Parts


LEMMA OtherLayers ==
  ASSUME LayersInv,
         \/ \E p \in Procs :
              \/ AcceptNoMemory(p) \/ Die(p) \/ SetTopmostClientUnjoined(p)
              \/ OpenWindows(p) \/ CloseWindows(p)
              \/ \E l \in Layers : JoinLayerFull(p, l)
         \/ Send2TopMostClients
         \/ UNCHANGED vars
  PROVE  LayersInv' /\ UNCHANGED <<lists, layers>>
<1>1. ProcsType
  BY Parts
<1>2. CASE \E p \in Procs : \/ AcceptNoMemory(p) \/ SetTopmostClientUnjoined(p)
                            \/ \E l \in Layers : JoinLayerFull(p, l)
  <2>1. /\ UNCHANGED <<lists, layers, running, windows>> /\ missed' = {}
        /\ crash' \in {"memory", "join", "topmost"}
    BY <1>2 DEF AcceptNoMemory, SetTopmostClientUnjoined, JoinLayerFull
  <2>2. ProcsType'
    BY <1>1, <2>1 DEF ProcsType
  <2> QED
    BY <2>1, <2>2, AllKept
<1>3. CASE \E p \in Procs : Die(p) \/ OpenWindows(p) \/ CloseWindows(p)
  <2>1. /\ UNCHANGED <<lists, layers, crash>> /\ missed' = {}
        /\ running' \subseteq running /\ windows' \subseteq windows \cup Procs
    BY <1>3 DEF Die, OpenWindows, CloseWindows
  <2>2. ProcsType'
    BY <1>1, <2>1 DEF ProcsType
  <2> QED
    BY <2>1, <2>2, AllKept
<1>4. CASE Send2TopMostClients
  <2> DEFINE walk == Walk(topmost)
             steps == {n \in DOMAIN walk : walk[n] # Nil}
             failed == {n \in steps : client[walk[n][2]].proc \notin running}
             S == {m \in steps : client[walk[m][2]].proc \in running /\ \E f \in failed : f < m}
  <2>1. /\ UNCHANGED <<lists, layers, running, windows, crash>>
        /\ missed' = {client[walk[n][2]].proc : n \in S}
    BY <1>4, Zenon DEF Send2TopMostClients
  <2>2. \A n \in S : client[walk[n][2]].proc \in running
    OBVIOUS
  <2> HIDE DEF S, walk
  <2>3. missed' \subseteq running
    BY <2>1, <2>2
  <2>4. ProcsType'
    BY <1>1, <2>1, <2>3 DEF ProcsType
  <2> QED
    BY <2>1, <2>4, AllKept
<1>5. CASE UNCHANGED vars
  <2>1. UNCHANGED <<lists, layers, running, windows, missed, crash>>
    BY <1>5 DEF vars
  <2>2. ProcsType'
    BY <1>1, <2>1 DEF ProcsType
  <2> QED
    BY <2>1, <2>2, AllKept
<1> QED
  BY <1>2, <1>3, <1>4, <1>5

LEMMA TopmostLayers ==
  ASSUME LayersInv, NEW l \in Layers, ServerSetTopmostLayer(l)
  PROVE  LayersInv' /\ LayerList' = LayerList
<1>1. /\ l \in LayerList /\ topmost' = l /\ missed' = {}
      /\ UNCHANGED <<client, base, head, chain, sem, usage, keys, running, windows, crash>>
  BY DEF ServerSetTopmostLayer, lists
<1>2. TableType /\ LayersType /\ TopType /\ ProcsType
  BY Parts
<1>3. LayerList' = LayerList
  BY <1>1 DEF LayerList
<1>4. LayersType' /\ TopType' /\ ProcsType'
  BY <1>1, <1>2, <1>3 DEF LayersType, TopType, ProcsType
<1>5. TableType'
  BY <1>1, <1>2, <1>3 DEF TableType, Entries
<1> QED
  BY <1>3, <1>4, <1>5, Parts

LEMMA LayersAlways == Spec => []LayersInv
<1>1. Init => LayersInv
  BY InitLayers
<1>2. LayersInv /\ [Next]_vars => LayersInv'
  <2> SUFFICES ASSUME LayersInv, [Next]_vars PROVE LayersInv'
    OBVIOUS
  <2>1. ASSUME NEW p \in Procs,
               \/ Accept(p) \/ AcceptNoMemory(p)
               \/ \E to \in base .. base + 1 : AcceptGrow(p, to)
               \/ Die(p) \/ RemoveClient(p)
               \/ \E l \in Layers : JoinLayer(p, l) \/ JoinLayerFull(p, l)
               \/ SetTopmostClientUnjoined(p)
               \/ OpenWindows(p) \/ CloseWindows(p)
        PROVE  LayersInv'
    BY <2>1, AcceptLayers, GrowLayers, RemoveLayers, JoinLayers, OtherLayers
  <2>2. ASSUME NEW l \in Layers, ServerCreateLayer(l) \/ ServerSetTopmostLayer(l)
        PROVE  LayersInv'
    BY <2>2, CreateLayers, TopmostLayers
  <2>3. ASSUME NEW k \in DOMAIN chain, ServerDeleteLayer(k) PROVE LayersInv'
    BY <2>3, DeleteLayers
  <2>4. CASE Send2TopMostClients \/ UNCHANGED vars
    BY <2>4, OtherLayers
  <2> QED
    BY <2>1, <2>2, <2>3, <2>4 DEF Next
<1> QED
  BY <1>1, <1>2, PTL DEF Spec

\* Every field of the server's table, lists and layers keeps its type and its
\* limits: the table its size, the semaphore slots the bitmap of do_alloc_layer.
THEOREM TypeCorrect == Spec => []TypeOK
<1>1. LayersInv => TypeOK
  BY DEF LayersInv
<1> QED
  BY <1>1, LayersAlways, PTL

\* The topmost layer and every client's layer exist, the default layer is never
\* lost, and no two layers share a semaphore: alloc_layer, do_alloc_layer and
\* ServerDeleteLayer, whatever was made and deleted before.
THEOREM LayersCorrect == Spec => []LayersSound
<1>1. LayersInv => LayersSound
  BY DEF LayersInv
<1> QED
  BY <1>1, LayersAlways, PTL

-----------------------------------------------------------------------------
(* The lists of clients.  A layer's list is a sequence of entries, each     *)
(* once, that next and prev link in both directions.                        *)

At(q, k) == IF k \in 1 .. Len(q) THEN Ptr(q[k]) ELSE Nil

Chained(l, q) ==
  /\ q \in Seq(Entries \ {0})
  /\ \A j, k \in 1 .. Len(q) : j # k => q[j] # q[k]
  /\ Members(l) = {q[k] : k \in 1 .. Len(q)}
  /\ \A k \in 1 .. Len(q) :
       client[q[k]].next = At(q, k + 1) /\ client[q[k]].prev = At(q, k - 1)

\* The inductive invariant: every layer's list is such a sequence, and what is
\* in no layer, or free, points nowhere.
ListInv ==
  /\ \A l \in LayerList : \E q \in Seq(Entries \ {0}) : Chained(l, q) /\ head[l] = At(q, 1)
  /\ \A i \in Entries :
       i = 0 \/ client[i].layer = NULL => client[i].next = Nil /\ client[i].prev = Nil
  /\ \A i \in Entries : client[i].proc = Free => client[i].layer = NULL

LEMMA PtrEq ==
  /\ \A i, j : Ptr(i) = Ptr(j) => i = j
  /\ \A i : Ptr(i) # Nil /\ Ptr(i)[2] = i
  BY DEF Ptr, Nil

\* A list none of whose entries changes.
LEMMA ChainedKept ==
  ASSUME NEW l, NEW q, Chained(l, q), Entries' = Entries, base' = base,
         Members(l)' = Members(l),
         \A i \in Members(l) : /\ client'[i].next = client[i].next
                               /\ client'[i].prev = client[i].prev
  PROVE  Chained(l, q)' /\ \A k : At(q, k)' = At(q, k)
<1>1. \A k : At(q, k)' = At(q, k)
  BY DEF At, Ptr
<1>2. \A k \in 1 .. Len(q) : q[k] \in Members(l)
  BY DEF Chained
<1> QED
  BY <1>1, <1>2 DEF Chained

\* The same for all layers that stay, when only heads of others change.
LEMMA NoMembers ==
  ASSUME LayersInv, NEW l \in Layers, l \notin LayerList
  PROVE  Members(l) = {}
<1>1. l # NULL
  BY NamesAssumption DEF NULL
<1> QED
  BY <1>1 DEF LayersInv, LayersSound, Members

LEMMA EmptyChain ==
  ASSUME NEW l, Members(l) = {}
  PROVE  <<>> \in Seq(Entries \ {0}) /\ Chained(l, <<>>) /\ At(<<>>, 1) = Nil
  BY DEF Chained, At

LEMMA InitLists == ASSUME Init PROVE ListInv
<1>1. LayersInv
  BY InitLayers
<1>2. /\ LayerList = {Default} /\ head[Default] = Nil
      /\ \A i \in Entries : client[i].next = Nil /\ client[i].prev = Nil
      /\ \A i \in Entries \ {0} : client[i].layer = NULL
      /\ client[0].proc # Free
  <2>1. /\ client = [i \in 0 .. NALLOC - 1 |->
                 IF i = 0 THEN [Empty EXCEPT !.proc = Itself, !.layer = Default] ELSE Empty]
        /\ head = [l \in {Default} |-> Nil] /\ chain = <<Default>>
    BY DEF Init
  <2>2. /\ [Empty EXCEPT !.proc = Itself, !.layer = Default].next = Nil
        /\ [Empty EXCEPT !.proc = Itself, !.layer = Default].prev = Nil
    BY DEF Empty
  <2>3. Entries = 0 .. NALLOC - 1
    BY <2>1 DEF Entries
  <2>4. LayerList = {Default}
    BY <2>1 DEF LayerList
  <2>5. \A i \in Entries : client[i].next = Nil /\ client[i].prev = Nil
    BY <2>1, <2>2, <2>3, EmptyType
  <2>6. \A i \in Entries \ {0} : client[i].layer = NULL
    BY <2>1, <2>3, EmptyType
  <2> QED
    BY <1>1, <2>1, <2>4, <2>5, <2>6 DEF LayersInv, Free, Itself
<1>3. Members(Default) = {}
  <2>1. Default # NULL
    BY NamesAssumption, DefaultAssumption DEF NULL
  <2> QED
    BY <1>2, <2>1 DEF Members
<1>4. Chained(Default, <<>>) /\ At(<<>>, 1) = Nil /\ <<>> \in Seq(Entries \ {0})
  BY <1>3, EmptyChain
<1>5. \A i \in Entries : client[i].proc = Free => client[i].layer = NULL
  BY <1>2
<1> QED
  BY <1>2, <1>4, <1>5, Zenon DEF ListInv

LEMMA AcceptLists ==
  ASSUME LayersInv, ListInv, NEW p \in Procs, Accept(p)
  PROVE  ListInv'
<1>1. PICK f \in Entries \ {0} :
        /\ client[f].proc = Free
        /\ client' = [client EXCEPT ![f] = [proc |-> p, layer |-> NULL,
                                            next |-> client[f].next, prev |-> client[f].prev]]
  BY AcceptTable
<1>2. client[f].layer = NULL /\ p # Free
  BY <1>1, NamesAssumption DEF ListInv, Free
<1>3. base' = base /\ head' = head /\ UNCHANGED layers
  BY DEF Accept
<1>4. LayerList' = LayerList
  BY <1>3, LayersKept
<1>5. /\ Entries' = Entries /\ client'[f].proc = p
      /\ \A i \in Entries : /\ client'[i].next = client[i].next
                            /\ client'[i].prev = client[i].prev
                            /\ client'[i].layer = client[i].layer
      /\ \A i \in Entries \ {f} : client'[i].proc = client[i].proc
  <2>1. Entries' = Entries /\ \A i \in Entries \ {f} : client'[i] = client[i]
    BY <1>1, Table DEF LayersInv, Entries
  <2>2. client'[f] = [proc |-> p, layer |-> NULL,
                      next |-> client[f].next, prev |-> client[f].prev]
    BY <1>1, Table DEF LayersInv
  <2> QED
    BY <1>2, <2>1, <2>2
<1>6. ASSUME NEW l \in LayerList'
      PROVE  \E q \in Seq(Entries' \ {0}) : Chained(l, q)' /\ head'[l] = At(q, 1)'
  <2>1. PICK q \in Seq(Entries \ {0}) : Chained(l, q) /\ head[l] = At(q, 1)
    BY <1>4 DEF ListInv
  <2>2. Members(l)' = Members(l) /\ \A i \in Members(l) : i \in Entries
    BY <1>5 DEF Members
  <2>3. Chained(l, q)' /\ At(q, 1)' = At(q, 1)
    BY <1>3, <1>5, <2>1, <2>2, ChainedKept
  <2> QED
    BY <1>3, <1>5, <2>1, <2>3
<1>7. /\ \A i \in Entries' :
           i = 0 \/ client'[i].layer = NULL => client'[i].next = Nil /\ client'[i].prev = Nil
      /\ \A i \in Entries' : client'[i].proc = Free => client'[i].layer = NULL
  BY <1>2, <1>5 DEF ListInv
<1> QED
  BY <1>6, <1>7 DEF ListInv


LEMMA GrowLists ==
  ASSUME LayersInv, ListInv, NEW p \in Procs, NEW to, AcceptGrow(p, to)
  PROVE  ListInv'
<1> DEFINE n == Cardinality(Entries)
<1>1. /\ n \in Nat \ {0} /\ n + NALLOC \in 1 .. MaxSize /\ Entries = 0 .. n - 1
      /\ client' \in [0 .. n + NALLOC - 1 -> EntryType]
      /\ \A i \in Entries :
           client'[i] = [proc |-> client[i].proc, layer |-> client[i].layer,
                         next |-> Off(client[i].next, to), prev |-> Off(client[i].prev, to)]
      /\ client'[n] = [proc |-> p, layer |-> NULL, next |-> Nil, prev |-> Nil]
      /\ \A i \in n + 1 .. n + NALLOC - 1 : client'[i] = Empty
      /\ \A i \in Entries : client[i].proc # Free
  BY GrowTable
<1> HIDE DEF n
<1>2. /\ base' = to /\ head' = [l \in DOMAIN head |-> Off(head[l], to)] /\ UNCHANGED layers
  BY DEF AcceptGrow, OffHead
<1>3. LayerList' = LayerList /\ DOMAIN head = LayerList
  BY <1>2, LayersKept DEF LayersInv, TypeOK
<1>4. ASSUME NEW i \in Entries
      PROVE  /\ client'[i].proc = client[i].proc /\ client'[i].layer = client[i].layer
             /\ client'[i].next = Off(client[i].next, to)
             /\ client'[i].prev = Off(client[i].prev, to)
  <2>1. client'[i] = [proc |-> client[i].proc, layer |-> client[i].layer,
                      next |-> Off(client[i].next, to), prev |-> Off(client[i].prev, to)]
    BY <1>1, Zenon
  <2> QED
    BY <2>1
<1>5. Entries \subseteq Entries' /\ Entries' = 0 .. n + NALLOC - 1
  BY <1>1, SizesAssumption DEF Entries
<1>6. ASSUME NEW i \in Entries' \ Entries
      PROVE  /\ i # 0 /\ client'[i].layer = NULL
             /\ client'[i].next = Nil /\ client'[i].prev = Nil
  <2>1. i # 0 /\ (i = n \/ i \in n + 1 .. n + NALLOC - 1)
    BY <1>1, <1>5, SizesAssumption
  <2>2. CASE i = n
    BY <1>1, <2>1, <2>2
  <2>3. CASE i \in n + 1 .. n + NALLOC - 1
    <3>1. client'[i] = Empty
      BY <1>1, <2>3
    <3> QED
      BY <2>1, <3>1, EmptyType
  <2> QED
    BY <2>1, <2>2, <2>3
<1>7. \A q, k : At(q, k)' = Off(At(q, k), to)
  <2> SUFFICES ASSUME NEW q, NEW k PROVE At(q, k)' = Off(At(q, k), to)
    OBVIOUS
  <2>1. CASE k \in 1 .. Len(q)
    BY <1>2, <2>1 DEF At, Off, Ptr, Nil
  <2>2. CASE k \notin 1 .. Len(q)
    BY <2>2 DEF At, Off
  <2> QED
    BY <2>1, <2>2
<1>8. \A l \in LayerList : Members(l)' = Members(l)
  <2>1. NULL \notin LayerList
    BY NamesAssumption DEF NULL, LayersInv, TypeOK
  <2> QED
    BY <1>4, <1>5, <1>6, <2>1 DEF Members
<1>9. ASSUME NEW l \in LayerList'
      PROVE  \E q \in Seq(Entries' \ {0}) : Chained(l, q)' /\ head'[l] = At(q, 1)'
  <2>1. PICK q \in Seq(Entries \ {0}) : Chained(l, q) /\ head[l] = At(q, 1)
    BY <1>3 DEF ListInv
  <2>2. q \in Seq(Entries' \ {0})
    <3>1. Len(q) \in Nat /\ q \in [1 .. Len(q) -> Entries \ {0}]
      BY <2>1
    <3>2. q \in [1 .. Len(q) -> Entries' \ {0}]
      BY <1>5, <3>1
    <3> QED
      BY <3>1, <3>2
  <2>3. head'[l] = At(q, 1)'
    BY <1>2, <1>3, <1>7, <2>1
  <2>4. ASSUME NEW k \in 1 .. Len(q)
        PROVE  client'[q[k]].next = At(q, k + 1)' /\ client'[q[k]].prev = At(q, k - 1)'
    <3>1. q[k] \in Entries
      BY <2>1
    <3>2. client[q[k]].next = At(q, k + 1) /\ client[q[k]].prev = At(q, k - 1)
      BY <2>1 DEF Chained
    <3>3. At(q, k + 1)' = Off(At(q, k + 1), to) /\ At(q, k - 1)' = Off(At(q, k - 1), to)
      BY <1>7
    <3> QED
      BY <1>4, <3>1, <3>2, <3>3
  <2>5. /\ Members(l)' = {q[k] : k \in 1 .. Len(q)}
        /\ \A j, k \in 1 .. Len(q) : j # k => q[j] # q[k]
    BY <1>3, <1>8, <2>1 DEF Chained
  <2>6. Chained(l, q)'
    BY <2>2, <2>4, <2>5 DEF Chained
  <2> QED
    BY <2>2, <2>3, <2>6
<1>10. ASSUME NEW i \in Entries', i = 0 \/ client'[i].layer = NULL
       PROVE  client'[i].next = Nil /\ client'[i].prev = Nil
  <2>1. CASE i \in Entries
    BY <1>4, <1>10, <2>1 DEF ListInv, Off
  <2> QED
    BY <1>6, <2>1
<1>11. ASSUME NEW i \in Entries', client'[i].proc = Free PROVE client'[i].layer = NULL
  BY <1>1, <1>4, <1>6, <1>11
<1> QED
  BY <1>9, <1>10, <1>11 DEF ListInv

\* A layer other than the one whose list changes.
LEMMA MembersApart ==
  ASSUME NEW l, NEW m, l # m
  PROVE  Members(l) \cap Members(m) = {}
  BY DEF Members

LEMMA JoinLists ==
  ASSUME LayersInv, ListInv, NEW p \in Procs, NEW l \in Layers, JoinLayer(p, l)
  PROVE  ListInv'
<1>0. PICK i : i = EntryOf(p)
  OBVIOUS
<1>1. Connected(p) /\ Joined(i, l) /\ base' = base /\ client[i].layer = NULL
  BY <1>0 DEF JoinLayer
<1>2. i \in Entries \ {0} /\ client[i].proc = p
  BY <1>0, <1>1, EntryOfIn
<1>3. LayerList' = LayerList \cup {l} /\ DOMAIN head = LayerList
  BY JoinLayers DEF LayersInv, TypeOK
<1>4. l # NULL /\ p # Free
  BY NamesAssumption DEF NULL, Free
<1> DEFINE first == IF l \in DOMAIN head THEN head[l] ELSE Nil
<1>5. PICK q \in Seq(Entries \ {0}) : Chained(l, q) /\ first = At(q, 1)
  <2>1. CASE l \in LayerList
    BY <1>3, <2>1 DEF ListInv
  <2>2. CASE l \notin LayerList
    BY <1>3, <2>2, NoMembers, EmptyChain
  <2> QED
    BY <2>1, <2>2
<1>6. /\ client' \in [Entries -> EntryType]
      /\ client'[i] = [proc |-> client[i].proc, layer |-> l, next |-> first, prev |-> Nil]
      /\ \A j \in Entries \ {i} :
           client'[j] =
             [proc |-> client[j].proc, layer |-> client[j].layer, next |-> client[j].next,
              prev |-> IF first = Ptr(j) THEN Ptr(i) ELSE client[j].prev]
      /\ head'[l] = Ptr(i) /\ \A x \in DOMAIN head \ {l} : head'[x] = head[x]
  BY <1>1, <1>2, JoinedTable
<1> HIDE DEF first
<1>7. /\ client'[i].layer = l /\ client'[i].next = At(q, 1) /\ client'[i].prev = Nil
      /\ client'[i].proc = p
  BY <1>2, <1>5, <1>6
<1>8. ASSUME NEW j \in Entries \ {i}
      PROVE  /\ client'[j].proc = client[j].proc /\ client'[j].layer = client[j].layer
             /\ client'[j].next = client[j].next
             /\ client'[j].prev = IF first = Ptr(j) THEN Ptr(i) ELSE client[j].prev
  <2>1. client'[j] =
          [proc |-> client[j].proc, layer |-> client[j].layer, next |-> client[j].next,
           prev |-> IF first = Ptr(j) THEN Ptr(i) ELSE client[j].prev]
    BY <1>6, Zenon
  <2> QED
    BY <2>1
<1>9. Entries' = Entries /\ \A r, k : At(r, k)' = At(r, k)
  BY <1>1, <1>6 DEF Entries, At, Ptr
<1>10. i \notin Members(l) /\ \A m \in LayerList : i \notin Members(m)
  <2>1. NULL \notin LayerList
    BY NamesAssumption DEF NULL, LayersInv, TypeOK
  <2> QED
    BY <1>1, <1>4, <2>1 DEF Members
<1>11. /\ Members(l)' = Members(l) \cup {i}
       /\ \A m \in LayerList \ {l} : Members(m)' = Members(m)
  BY <1>2, <1>7, <1>8, <1>9, <1>10 DEF Members
<1>12. \A j \in Entries : first = Ptr(j) => j \in Members(l)
  <2> SUFFICES ASSUME NEW j \in Entries, first = Ptr(j) PROVE j \in Members(l)
    OBVIOUS
  <2>1. At(q, 1) # Nil
    BY <1>5, PtrEq
  <2>2. 1 \in 1 .. Len(q) /\ At(q, 1) = Ptr(q[1])
    BY <2>1 DEF At
  <2>3. q[1] = j
    BY <1>5, <2>2, PtrEq
  <2> QED
    BY <1>5, <2>2, <2>3 DEF Chained
<1>13a. PICK r : r = <<i>> \o q
  OBVIOUS
<1>13. /\ r \in Seq(Entries \ {0}) /\ Len(r) = Len(q) + 1 /\ Len(q) \in Nat
       /\ r[1] = i /\ \A k \in 2 .. Len(q) + 1 : r[k] = q[k - 1]
  BY <1>2, <1>5, <1>13a
<1>14. /\ At(r, 0) = Nil /\ At(r, 1) = Ptr(i)
       /\ \A k \in 2 .. Len(q) + 2 : At(r, k) = At(q, k - 1)
  BY <1>13 DEF At
<1>15. Chained(l, r)'
  <2>1. ASSUME NEW k \in 1 .. Len(r)
        PROVE  client'[r[k]].next = At(r, k + 1) /\ client'[r[k]].prev = At(r, k - 1)
    <3>1. CASE k = 1
      <4>1. At(r, 2) = At(q, 1) /\ r[k] = i /\ k + 1 = 2 /\ k - 1 = 0
        BY <1>13, <1>14, <3>1
      <4> QED
        BY <1>7, <1>14, <4>1
    <3>2. CASE k # 1
      <4>1. /\ r[k] = q[k - 1] /\ k - 1 \in 1 .. Len(q)
            /\ At(r, k + 1) = At(q, k) /\ (k - 1) + 1 = k
        BY <1>13, <1>14, <3>2
      <4>2. /\ client[q[k - 1]].next = At(q, k)
            /\ client[q[k - 1]].prev = At(q, (k - 1) - 1)
            /\ q[k - 1] \in Members(l)
        BY <1>5, <4>1 DEF Chained
      <4>3. q[k - 1] \in Entries \ {i}
        BY <1>10, <4>2 DEF Members
      <4>4. client'[q[k - 1]].next = At(r, k + 1)
        BY <1>8, <4>1, <4>2, <4>3
      <4>5. CASE k = 2
        <5>1. 1 \in 1 .. Len(q) /\ first = Ptr(q[k - 1]) /\ k - 1 = 1
          BY <1>5, <4>1, <4>5 DEF At
        <5> QED
          BY <1>8, <1>14, <4>1, <4>3, <4>4, <5>1
      <4>6. CASE k # 2
        <5>1. k - 1 \in 2 .. Len(q) + 2 /\ (k - 1) - 1 \in 1 .. Len(q) /\ 1 \in 1 .. Len(q)
              /\ k - 1 # 1
          BY <1>13, <3>2, <4>1, <4>6
        <5>2. first # Ptr(q[k - 1])
          <6>1. first = Ptr(q[1]) /\ q[1] # q[k - 1]
            BY <1>5, <4>1, <5>1 DEF At, Chained
          <6> QED
            BY <6>1, PtrEq
        <5>3. At(r, k - 1) = At(q, (k - 1) - 1)
          BY <1>14, <5>1
        <5> QED
          BY <1>8, <4>1, <4>2, <4>3, <4>4, <5>2, <5>3
      <4> QED
        BY <4>5, <4>6
    <3> QED
      BY <3>1, <3>2
  <2>2. \A j, k \in 1 .. Len(r) : j # k => r[j] # r[k]
    <3>1. \A k \in 2 .. Len(q) + 1 : r[k] \in Members(l) /\ r[k] = q[k - 1] /\ k - 1 \in 1 .. Len(q)
      BY <1>5, <1>13 DEF Chained
    <3>2. \A k \in 2 .. Len(q) + 1 : r[k] # i
      BY <1>10, <3>1
    <3>3. ASSUME NEW j \in 2 .. Len(q) + 1, NEW k \in 2 .. Len(q) + 1, j # k
          PROVE  r[j] # r[k]
      <4>1. r[j] = q[j - 1] /\ r[k] = q[k - 1] /\ j - 1 # k - 1
        BY <3>1, <3>3
      <4> QED
        BY <1>5, <3>1, <4>1 DEF Chained
    <3>4. \A k \in 1 .. Len(r) : k = 1 \/ k \in 2 .. Len(q) + 1
      BY <1>13
    <3> QED
      BY <1>13, <3>2, <3>3, <3>4
  <2>3. Members(l)' = {r[k] : k \in 1 .. Len(r)}
    <3>1. ASSUME NEW x \in Members(l) PROVE \E k \in 1 .. Len(r) : r[k] = x
      <4>1. PICK k \in 1 .. Len(q) : x = q[k]
        BY <1>5 DEF Chained
      <4>2. k + 1 \in 1 .. Len(r) /\ r[k + 1] = x
        BY <1>13, <4>1
      <4> QED
        BY <4>2
    <3>2. 1 \in 1 .. Len(r) /\ r[1] = i
      BY <1>13
    <3>3. ASSUME NEW k \in 1 .. Len(r) PROVE r[k] \in Members(l) \cup {i}
      <4>1. k = 1 \/ (k \in 2 .. Len(q) + 1 /\ k - 1 \in 1 .. Len(q))
        BY <1>13
      <4> QED
        BY <1>5, <1>13, <4>1 DEF Chained
    <3> QED
      BY <1>11, <3>1, <3>2, <3>3
  <2>4. r \in Seq(Entries' \ {0})
    BY <1>9, <1>13
  <2> QED
    BY <1>9, <2>1, <2>2, <2>3, <2>4 DEF Chained
<1>16. ASSUME NEW m \in LayerList'
       PROVE  \E s \in Seq(Entries' \ {0}) : Chained(m, s)' /\ head'[m] = At(s, 1)'
  <2>1. CASE m = l
    BY <1>6, <1>9, <1>13, <1>14, <1>15, <2>1
  <2>2. CASE m # l
    <3>1. m \in LayerList \ {l}
      BY <1>3, <2>2
    <3>2. PICK s \in Seq(Entries \ {0}) : Chained(m, s) /\ head[m] = At(s, 1)
      BY <3>1 DEF ListInv
    <3>3. ASSUME NEW j \in Members(m)
          PROVE  client'[j].next = client[j].next /\ client'[j].prev = client[j].prev
      <4>1. j \in Entries \ {i} /\ j \notin Members(l)
        BY <1>10, <2>2, <3>1, MembersApart DEF Members
      <4> QED
        BY <1>8, <1>12, <4>1
    <3>4. Chained(m, s)' /\ At(s, 1)' = At(s, 1)
      BY <1>1, <1>9, <1>11, <3>1, <3>2, <3>3, ChainedKept
    <3> QED
      BY <1>3, <1>6, <1>9, <3>1, <3>2, <3>4
  <2> QED
    BY <2>1, <2>2
<1>17. ASSUME NEW j \in Entries', j = 0 \/ client'[j].layer = NULL
       PROVE  client'[j].next = Nil /\ client'[j].prev = Nil
  <2>1. j \in Entries \ {i}
    BY <1>2, <1>4, <1>7, <1>9, <1>17
  <2>2. j = 0 \/ client[j].layer = NULL
    BY <1>8, <1>17, <2>1
  <2>3. j \notin Members(l)
    BY <1>4, <2>2 DEF Members
  <2> QED
    BY <1>8, <1>12, <2>1, <2>2, <2>3 DEF ListInv
<1>18. ASSUME NEW j \in Entries', client'[j].proc = Free PROVE client'[j].layer = NULL
  <2>1. j \in Entries \ {i}
    BY <1>4, <1>7, <1>9, <1>18
  <2> QED
    BY <1>8, <1>18, <2>1 DEF ListInv
<1> QED
  BY <1>16, <1>17, <1>18 DEF ListInv


\* What a pointer of a list points at is in the list.
LEMMA AtMember ==
  ASSUME NEW l, NEW q, Chained(l, q), NEW k, NEW j, At(q, k) = Ptr(j)
  PROVE  k \in 1 .. Len(q) /\ q[k] = j /\ j \in Members(l)
<1>1. At(q, k) # Nil
  BY PtrEq
<1>2. k \in 1 .. Len(q) /\ Ptr(q[k]) = Ptr(j)
  BY <1>1 DEF At
<1>3. q[k] = j
  BY <1>2, PtrEq
<1> QED
  BY <1>2, <1>3 DEF Chained

\* The pointers of a sequence without its element k.
LEMMA AtWithout ==
  ASSUME NEW S, NEW q \in Seq(S), NEW k \in 1 .. Len(q), NEW r, Len(r) = Len(q) - 1,
         \A b \in 1 .. Len(q) - 1 : r[b] = IF b < k THEN q[b] ELSE q[b + 1]
  PROVE  \A c \in 0 .. Len(q) : At(r, c) = IF c < k THEN At(q, c) ELSE At(q, c + 1)
<1>1. Len(r) = Len(q) - 1 /\ Len(q) \in Nat /\ k \in Nat
  OBVIOUS
<1> SUFFICES ASSUME NEW c \in 0 .. Len(q)
             PROVE  At(r, c) = IF c < k THEN At(q, c) ELSE At(q, c + 1)
  OBVIOUS
<1>2. CASE c < k
  <2>1. c \in 1 .. Len(r) <=> c \in 1 .. Len(q)
    BY <1>1, <1>2
  <2>2. c \in 1 .. Len(r) => r[c] = q[c]
    BY <1>1, <1>2
  <2> QED
    BY <1>2, <2>1, <2>2 DEF At
<1>3. CASE ~(c < k)
  <2>1. c \in 1 .. Len(r) <=> c + 1 \in 1 .. Len(q)
    BY <1>1, <1>3
  <2>2. c \in 1 .. Len(r) => r[c] = q[c + 1]
    BY <1>1, <1>3
  <2> QED
    BY <1>3, <2>1, <2>2 DEF At
<1> QED
  BY <1>2, <1>3

LEMMA RemoveLists ==
  ASSUME LayersInv, ListInv, NEW p \in Procs, RemoveClient(p)
  PROVE  ListInv'
<1>0. PICK i : i = EntryOf(p)
  OBVIOUS
<1>1. /\ Connected(p) /\ client' = Unlinked(client, i) /\ base' = base /\ UNCHANGED layers
      /\ head' = [l \in DOMAIN head |-> IF head[l] = Ptr(i) THEN client[i].next ELSE head[l]]
  BY <1>0 DEF RemoveClient, HeadWithout
<1>2. i \in Entries \ {0} /\ client[i].proc = p
  BY <1>0, <1>1, EntryOfIn
<1>3. LayerList' = LayerList /\ DOMAIN head = LayerList /\ NULL \notin LayerList
  BY <1>1, LayersKept, NamesAssumption DEF LayersInv, TypeOK, NULL
<1>4. /\ client' \in [Entries -> EntryType] /\ client'[i] = Empty
      /\ \A j \in Entries \ {i} :
           client'[j] =
             [proc |-> client[j].proc, layer |-> client[j].layer,
              next |-> IF client[i].prev = Ptr(j) /\ client[i].next # Ptr(j)
                       THEN client[i].next ELSE client[j].next,
              prev |-> IF client[i].next = Ptr(j)
                       THEN client[i].prev ELSE client[j].prev]
  BY <1>1, <1>2, UnlinkedTable
<1>5. ASSUME NEW j \in Entries \ {i}
      PROVE  /\ client'[j].proc = client[j].proc /\ client'[j].layer = client[j].layer
             /\ client'[j].next = IF client[i].prev = Ptr(j) /\ client[i].next # Ptr(j)
                                  THEN client[i].next ELSE client[j].next
             /\ client'[j].prev = IF client[i].next = Ptr(j)
                                  THEN client[i].prev ELSE client[j].prev
  <2>1. client'[j] =
          [proc |-> client[j].proc, layer |-> client[j].layer,
           next |-> IF client[i].prev = Ptr(j) /\ client[i].next # Ptr(j)
                    THEN client[i].next ELSE client[j].next,
           prev |-> IF client[i].next = Ptr(j)
                    THEN client[i].prev ELSE client[j].prev]
    BY <1>4, Zenon
  <2> QED
    BY <2>1
<1>6. /\ Entries' = Entries /\ \A r, k : At(r, k)' = At(r, k)
      /\ client'[i].layer = NULL /\ client'[i].next = Nil /\ client'[i].prev = Nil
  BY <1>1, <1>4, EmptyType DEF Entries, At, Ptr
<1>7. \A l \in LayerList : Members(l)' = Members(l) \ {i}
  BY <1>2, <1>3, <1>5, <1>6 DEF Members
<1>8. PICK m : m = client[i].layer
  OBVIOUS
<1>9. m = NULL => client[i].next = Nil /\ client[i].prev = Nil
  BY <1>2, <1>8 DEF ListInv
<1>10. m # NULL => m \in LayerList /\ i \in Members(m)
  BY <1>2, <1>8 DEF LayersInv, LayersSound, Members
<1>11. ASSUME m # NULL
       PROVE  \E q \in Seq(Entries \ {0}) : \E k \in 1 .. Len(q) :
                /\ Chained(m, q) /\ head[m] = At(q, 1) /\ q[k] = i
                /\ client[i].next = At(q, k + 1) /\ client[i].prev = At(q, k - 1)
  <2>1. PICK q \in Seq(Entries \ {0}) : Chained(m, q) /\ head[m] = At(q, 1)
    BY <1>10, <1>11 DEF ListInv
  <2>2. PICK k \in 1 .. Len(q) : q[k] = i
    BY <1>10, <1>11, <2>1 DEF Chained
  <2>3. client[i].next = At(q, k + 1) /\ client[i].prev = At(q, k - 1)
    BY <2>1, <2>2 DEF Chained
  <2> QED
    BY <2>1, <2>2, <2>3
<1>12. ASSUME NEW j, client[i].next = Ptr(j) \/ client[i].prev = Ptr(j)
       PROVE  m # NULL /\ j \in Members(m)
  <2>1. m # NULL
    BY <1>9, <1>12, PtrEq
  <2> QED
    BY <1>11, <1>12, <2>1, AtMember
<1>13. ASSUME NEW l \in LayerList, l # m
       PROVE  \E r \in Seq(Entries' \ {0}) : Chained(l, r)' /\ head'[l] = At(r, 1)'
  <2>1. PICK q \in Seq(Entries \ {0}) : Chained(l, q) /\ head[l] = At(q, 1)
    BY <1>13 DEF ListInv
  <2>2. i \notin Members(l)
    BY <1>8, <1>13 DEF Members
  <2>3. ASSUME NEW j \in Members(l)
        PROVE  client'[j].next = client[j].next /\ client'[j].prev = client[j].prev
    <3>1. j \in Entries \ {i} /\ j \notin Members(m)
      BY <1>13, <2>2, MembersApart DEF Members
    <3> QED
      BY <1>5, <1>12, <3>1
  <2>4. Members(l)' = Members(l)
    BY <1>7, <1>13, <2>2
  <2>5. Chained(l, q)' /\ At(q, 1)' = At(q, 1)
    BY <1>1, <1>6, <2>1, <2>3, <2>4, ChainedKept
  <2>6. head[l] # Ptr(i)
    BY <2>1, <2>2, AtMember
  <2> QED
    BY <1>1, <1>3, <1>6, <1>13, <2>1, <2>5, <2>6
<1>14. ASSUME m # NULL
       PROVE  \E r \in Seq(Entries' \ {0}) : Chained(m, r)' /\ head'[m] = At(r, 1)'
  <2>0. PICK q \in Seq(Entries \ {0}) : \E k \in 1 .. Len(q) :
          /\ Chained(m, q) /\ head[m] = At(q, 1) /\ q[k] = i
          /\ client[i].next = At(q, k + 1) /\ client[i].prev = At(q, k - 1)
    BY <1>11, <1>14
  <2>1. PICK k \in 1 .. Len(q) :
          /\ Chained(m, q) /\ head[m] = At(q, 1) /\ q[k] = i
          /\ client[i].next = At(q, k + 1) /\ client[i].prev = At(q, k - 1)
    BY <2>0
  <2>2. PICK r : r = SubSeq(q, 1, k - 1) \o SubSeq(q, k + 1, Len(q))
    OBVIOUS
  <2>3. /\ r \in Seq(Entries \ {0}) /\ Len(r) = Len(q) - 1 /\ Len(q) \in Nat /\ k \in Nat
        /\ \A b \in 1 .. Len(q) - 1 : r[b] = IF b < k THEN q[b] ELSE q[b + 1]
    <3>1. /\ r \in Seq(Entries \ {0}) /\ Len(r) = Len(q) - 1
          /\ \A b \in 1 .. Len(q) - 1 : r[b] = IF b < k THEN q[b] ELSE q[b + 1]
      BY <2>2, RemoveAt, Zenon
    <3> QED
      BY <3>1
  <2>4. \A c \in 0 .. Len(q) : At(r, c) = IF c < k THEN At(q, c) ELSE At(q, c + 1)
    BY <2>3, AtWithout
  <2>5. /\ \A a, b \in 1 .. Len(q) : a # b => q[a] # q[b]
        /\ Members(m) = {q[a] : a \in 1 .. Len(q)}
        /\ \A a \in 1 .. Len(q) :
             client[q[a]].next = At(q, a + 1) /\ client[q[a]].prev = At(q, a - 1)
    BY <2>1 DEF Chained
  <2>6. ASSUME NEW a \in 1 .. Len(q), a # k
        PROVE  /\ q[a] \in Entries \ {i}
               /\ client'[q[a]].next = IF a = k - 1 THEN At(q, k + 1) ELSE At(q, a + 1)
               /\ client'[q[a]].prev = IF a = k + 1 THEN At(q, k - 1) ELSE At(q, a - 1)
    <3>1. q[a] \in Entries \ {i}
      <4>1. q[a] \in Entries /\ q[a] # q[k]
        BY <2>5, <2>6
      <4> QED
        BY <2>1, <4>1
    <3>2. client[i].prev = Ptr(q[a]) <=> a = k - 1
      <4>1. ASSUME client[i].prev = Ptr(q[a]) PROVE a = k - 1
        <5>1. k - 1 \in 1 .. Len(q) /\ q[k - 1] = q[a]
          BY <2>1, <4>1, AtMember
        <5> QED
          BY <2>5, <5>1
      <4>2. ASSUME a = k - 1 PROVE client[i].prev = Ptr(q[a])
        BY <2>1, <4>2 DEF At
      <4> QED
        BY <4>1, <4>2
    <3>3. client[i].next = Ptr(q[a]) <=> a = k + 1
      <4>1. ASSUME client[i].next = Ptr(q[a]) PROVE a = k + 1
        <5>1. k + 1 \in 1 .. Len(q) /\ q[k + 1] = q[a]
          BY <2>1, <4>1, AtMember
        <5> QED
          BY <2>5, <5>1
      <4>2. ASSUME a = k + 1 PROVE client[i].next = Ptr(q[a])
        BY <2>1, <4>2 DEF At
      <4> QED
        BY <4>1, <4>2
    <3>4. ~(a = k - 1 /\ a = k + 1)
      BY <2>3
    <3>5. client[q[a]].next = At(q, a + 1) /\ client[q[a]].prev = At(q, a - 1)
      BY <2>5
    <3> QED
      BY <1>5, <2>1, <3>1, <3>2, <3>3, <3>4, <3>5
  <2>7. ASSUME NEW b \in 1 .. Len(r)
        PROVE  client'[r[b]].next = At(r, b + 1) /\ client'[r[b]].prev = At(r, b - 1)
    <3>1. /\ b + 1 \in 0 .. Len(q) /\ b - 1 \in 0 .. Len(q) /\ b \in Int
          /\ b \in 1 .. Len(q) /\ b + 1 \in 1 .. Len(q)
      BY <2>3
    <3>2. CASE b < k
      <4>1. r[b] = q[b] /\ b # k /\ b # k + 1 /\ b - 1 < k
        BY <2>3, <3>1, <3>2
      <4>2. At(r, b - 1) = At(q, b - 1)
        BY <2>4, <3>1, <4>1
      <4>3. client'[q[b]].prev = At(q, b - 1)
        BY <2>6, <3>1, <4>1
      <4>4. CASE b = k - 1
        <5>1. ~(b + 1 < k) /\ (b + 1) + 1 = k + 1
          BY <2>3, <4>4
        <5>2. At(r, b + 1) = At(q, k + 1)
          BY <2>4, <3>1, <5>1
        <5> QED
          BY <2>6, <3>1, <4>1, <4>2, <4>3, <4>4, <5>2
      <4>5. CASE b # k - 1
        <5>1. b + 1 < k
          BY <2>3, <3>1, <3>2, <4>5
        <5>2. At(r, b + 1) = At(q, b + 1)
          BY <2>4, <3>1, <5>1
        <5> QED
          BY <2>6, <3>1, <4>1, <4>2, <4>3, <4>5, <5>2
      <4> QED
        BY <4>4, <4>5
    <3>3. CASE ~(b < k)
      <4>1. r[b] = q[b + 1] /\ b + 1 # k /\ b + 1 # k - 1 /\ ~(b + 1 < k) /\ (b + 1) - 1 = b
        BY <2>3, <3>1, <3>3
      <4>2. At(r, b + 1) = At(q, (b + 1) + 1)
        BY <2>4, <3>1, <4>1
      <4>3. client'[q[b + 1]].next = At(q, (b + 1) + 1)
        BY <2>6, <3>1, <4>1
      <4>4. CASE b = k
        <5>1. b - 1 < k /\ b + 1 = k + 1
          BY <2>3, <4>4
        <5>2. At(r, b - 1) = At(q, k - 1)
          BY <2>4, <3>1, <4>4, <5>1
        <5> QED
          BY <2>6, <3>1, <4>1, <4>2, <4>3, <5>1, <5>2
      <4>5. CASE b # k
        <5>1. ~(b - 1 < k) /\ (b - 1) + 1 = b /\ b + 1 # k + 1
          BY <2>3, <3>1, <3>3, <4>5
        <5>2. At(r, b - 1) = At(q, b)
          BY <2>4, <3>1, <5>1
        <5> QED
          BY <2>6, <3>1, <4>1, <4>2, <4>3, <5>1, <5>2
      <4> QED
        BY <4>4, <4>5
    <3> QED
      BY <3>2, <3>3
  <2> DEFINE o(b) == IF b < k THEN b ELSE b + 1
  <2>8. /\ \A b \in 1 .. Len(r) : o(b) \in (1 .. Len(q)) \ {k} /\ r[b] = q[o(b)]
        /\ \A a, b \in 1 .. Len(r) : a # b => o(a) # o(b)
        /\ \A a \in (1 .. Len(q)) \ {k} : \E b \in 1 .. Len(r) : o(b) = a
    <3>1. \A b \in 1 .. Len(r) : o(b) \in (1 .. Len(q)) \ {k} /\ r[b] = q[o(b)]
      BY <2>3
    <3>2. \A a, b \in 1 .. Len(r) : a # b => o(a) # o(b)
      BY <2>3
    <3>3. ASSUME NEW a \in (1 .. Len(q)) \ {k} PROVE \E b \in 1 .. Len(r) : o(b) = a
      <4>1. CASE a < k
        BY <2>3, <4>1
      <4>2. CASE k < a
        <5>1. a - 1 \in 1 .. Len(r) /\ o(a - 1) = a
          BY <2>3, <4>2
        <5> QED
          BY <5>1
      <4> QED
        BY <2>3, <4>1, <4>2
    <3> QED
      BY <3>1, <3>2, <3>3
  <2> HIDE DEF o
  <2>9. ASSUME NEW a \in 1 .. Len(r), NEW b \in 1 .. Len(r), a # b PROVE r[a] # r[b]
    <3>1. o(a) # o(b) /\ o(a) \in 1 .. Len(q) /\ o(b) \in 1 .. Len(q)
      BY <2>8, <2>9
    <3>2. r[a] = q[o(a)] /\ r[b] = q[o(b)]
      BY <2>8
    <3> QED
      BY <2>5, <3>1, <3>2
  <2>10. Members(m)' = {r[b] : b \in 1 .. Len(r)}
    <3>1. Members(m)' = Members(m) \ {i}
      BY <1>7, <1>10, <1>14
    <3>2. ASSUME NEW x \in Members(m) \ {i} PROVE \E b \in 1 .. Len(r) : x = r[b]
      <4>1. PICK a \in 1 .. Len(q) : x = q[a]
        BY <2>5
      <4>2. a # k
        BY <2>1, <4>1
      <4> QED
        BY <2>8, <4>1, <4>2
    <3>3. ASSUME NEW b \in 1 .. Len(r) PROVE r[b] \in Members(m) \ {i}
      BY <2>1, <2>5, <2>8
    <3> QED
      BY <3>1, <3>2, <3>3
  <2>11. Chained(m, r)'
    BY <1>6, <2>3, <2>7, <2>9, <2>10 DEF Chained
  <2>12. head'[m] = At(r, 1)
    <3>1. At(r, 1) = IF 1 < k THEN At(q, 1) ELSE At(q, 2)
      <4>1. 1 \in 0 .. Len(q) /\ 1 + 1 = 2
        BY <2>3
      <4> QED
        BY <2>4, <4>1
    <3>2. head'[m] = IF head[m] = Ptr(i) THEN client[i].next ELSE head[m]
      BY <1>1, <1>3, <1>10, <1>14
    <3>3. CASE k = 1
      <4>1. head[m] = Ptr(i)
        BY <2>1, <3>3 DEF At
      <4> QED
        BY <2>1, <3>1, <3>2, <3>3, <4>1
    <3>4. CASE k # 1
      <4>1. 1 < k /\ 1 \in 1 .. Len(q)
        BY <2>3, <3>4
      <4>2. head[m] # Ptr(i)
        <5> SUFFICES ASSUME At(q, 1) = Ptr(i) PROVE FALSE
          BY <2>1
        <5>1. q[1] = i
          BY <2>1, AtMember
        <5> QED
          BY <2>1, <2>5, <3>4, <4>1, <5>1
      <4> QED
        BY <2>1, <3>1, <3>2, <4>1, <4>2
    <3> QED
      BY <3>3, <3>4
  <2> QED
    BY <1>6, <2>3, <2>11, <2>12
<1>15. \A l \in LayerList' :
         \E r \in Seq(Entries' \ {0}) : Chained(l, r)' /\ head'[l] = At(r, 1)'
  BY <1>3, <1>13, <1>14
<1>16. ASSUME NEW j \in Entries', j = 0 \/ client'[j].layer = NULL
       PROVE  client'[j].next = Nil /\ client'[j].prev = Nil
  <2>1. CASE j = i
    BY <1>6, <2>1
  <2>2. CASE j # i
    <3>1. j \in Entries \ {i} /\ (j = 0 \/ client[j].layer = NULL)
      BY <1>5, <1>6, <1>16, <2>2
    <3>2. m # NULL => j \notin Members(m)
      BY <3>1 DEF Members
    <3> QED
      BY <1>5, <1>12, <3>1, <3>2 DEF ListInv
  <2> QED
    BY <2>1, <2>2
<1>17. ASSUME NEW j \in Entries', client'[j].proc = Free PROVE client'[j].layer = NULL
  BY <1>5, <1>6, <1>17 DEF ListInv
<1> QED
  BY <1>15, <1>16, <1>17 DEF ListInv


LEMMA CreateLists ==
  ASSUME LayersInv, ListInv, NEW l \in Layers, ServerCreateLayer(l)
  PROVE  ListInv'
<1>1. /\ l \notin LayerList /\ UNCHANGED <<client, base>>
      /\ head' = [x \in DOMAIN head \cup {l} |-> IF x = l THEN Nil ELSE head[x]]
  BY DEF ServerCreateLayer
<1>2. LayerList' = LayerList \cup {l} /\ DOMAIN head = LayerList
  BY CreateLayers DEF LayersInv, TypeOK
<1>3. /\ Entries' = Entries /\ \A m : Members(m)' = Members(m)
      /\ \A q, k : At(q, k)' = At(q, k)
  BY <1>1 DEF Entries, Members, At, Ptr
<1>4. \A m, q : Chained(m, q) => Chained(m, q)'
  BY <1>1, <1>3 DEF Chained
<1>5. ASSUME NEW m \in LayerList'
      PROVE  \E q \in Seq(Entries' \ {0}) : Chained(m, q)' /\ head'[m] = At(q, 1)'
  <2>1. CASE m = l
    <3>1. Chained(l, <<>>) /\ At(<<>>, 1) = Nil /\ <<>> \in Seq(Entries \ {0})
      BY <1>1, NoMembers, EmptyChain
    <3>2. Chained(l, <<>>)' /\ At(<<>>, 1)' = Nil
      BY <1>3, <1>4, <3>1
    <3> QED
      BY <1>1, <1>3, <2>1, <3>1, <3>2
  <2>2. CASE m # l
    <3>1. m \in LayerList
      BY <1>2, <2>2
    <3>2. PICK q \in Seq(Entries \ {0}) : Chained(m, q) /\ head[m] = At(q, 1)
      BY <3>1 DEF ListInv
    <3> QED
      BY <1>1, <1>2, <1>3, <1>4, <2>2, <3>1, <3>2
  <2> QED
    BY <2>1, <2>2
<1>6. /\ \A i \in Entries' :
           i = 0 \/ client'[i].layer = NULL => client'[i].next = Nil /\ client'[i].prev = Nil
      /\ \A i \in Entries' : client'[i].proc = Free => client'[i].layer = NULL
  BY <1>1, <1>3 DEF ListInv
<1> QED
  BY <1>5, <1>6 DEF ListInv

LEMMA DeleteLists ==
  ASSUME LayersInv, ListInv, NEW k \in DOMAIN chain, ServerDeleteLayer(k)
  PROVE  ListInv'
<1>0. PICK l : l = chain[k]
  OBVIOUS
<1>1. /\ client' = [i \in Entries |-> IF i \in Members(l) THEN Empty ELSE client[i]]
      /\ head' = [x \in DOMAIN head \ {l} |-> head[x]] /\ base' = base
  BY <1>0 DEF ServerDeleteLayer
<1>2. LayerList' = LayerList \ {l} /\ DOMAIN head = LayerList /\ NULL \notin LayerList
  BY <1>0, DeleteLayers, NamesAssumption DEF LayersInv, TypeOK, NULL
<1>3. Entries' = Entries /\ \A q, n : At(q, n)' = At(q, n)
  BY <1>1 DEF Entries, At, Ptr
<1>4. ASSUME NEW m \in LayerList'
      PROVE  \E q \in Seq(Entries' \ {0}) : Chained(m, q)' /\ head'[m] = At(q, 1)'
  <2>1. m \in LayerList /\ m # l /\ m # NULL
    BY <1>2
  <2>2. PICK q \in Seq(Entries \ {0}) : Chained(m, q) /\ head[m] = At(q, 1)
    BY <2>1 DEF ListInv
  <2>3. \A i \in Entries : client'[i] = IF i \in Members(l) THEN Empty ELSE client[i]
    BY <1>1
  <2>4. \A i \in Members(m) : i \in Entries /\ i \notin Members(l)
    BY <2>1, MembersApart DEF Members
  <2>5. Members(m)' = Members(m)
    <3>1. ASSUME NEW i \in Entries \ {0} PROVE client'[i].layer = m <=> client[i].layer = m
      <4>1. CASE i \in Members(l)
        <5>1. client'[i].layer = NULL /\ client[i].layer = l
          BY <2>3, <4>1, EmptyType DEF Members
        <5> QED
          BY <2>1, <5>1
      <4>2. CASE i \notin Members(l)
        BY <2>3, <4>2
      <4> QED
        BY <4>1, <4>2
    <3> QED
      BY <1>3, <3>1 DEF Members
  <2>6. \A i \in Members(m) : client'[i].next = client[i].next /\ client'[i].prev = client[i].prev
    BY <2>3, <2>4
  <2>7. Chained(m, q)' /\ At(q, 1)' = At(q, 1)
    BY <1>1, <1>3, <2>2, <2>5, <2>6, ChainedKept
  <2> QED
    BY <1>1, <1>2, <1>3, <2>1, <2>2, <2>7
<1>5. /\ \A i \in Entries' :
           i = 0 \/ client'[i].layer = NULL => client'[i].next = Nil /\ client'[i].prev = Nil
      /\ \A i \in Entries' : client'[i].proc = Free => client'[i].layer = NULL
  BY <1>1, <1>3, EmptyType DEF ListInv, Members
<1> QED
  BY <1>4, <1>5 DEF ListInv

LEMMA OtherLists ==
  ASSUME ListInv, UNCHANGED <<lists, chain>>
  PROVE  ListInv'
<1>1. /\ UNCHANGED <<client, base, head>>
      /\ Entries' = Entries /\ LayerList' = LayerList
      /\ \A l : Members(l)' = Members(l)
      /\ \A q, k : At(q, k)' = At(q, k)
  BY DEF lists, Entries, LayerList, Members, At, Ptr
<1>2. \A l, q : Chained(l, q) => Chained(l, q)'
  BY <1>1 DEF Chained
<1>3. ASSUME NEW l \in LayerList'
      PROVE  \E q \in Seq(Entries' \ {0}) : Chained(l, q)' /\ head'[l] = At(q, 1)'
  <2>1. PICK q \in Seq(Entries \ {0}) : Chained(l, q) /\ head[l] = At(q, 1)
    BY <1>1 DEF ListInv
  <2> QED
    BY <1>1, <1>2, <2>1
<1> QED
  BY <1>1, <1>3 DEF ListInv

LEMMA ListsAlways == Spec => []ListInv
<1>1. Init => ListInv
  BY InitLists
<1>2. LayersInv /\ ListInv /\ [Next]_vars => ListInv'
  <2> SUFFICES ASSUME LayersInv, ListInv, [Next]_vars PROVE ListInv'
    OBVIOUS
  <2>1. ASSUME NEW p \in Procs,
               \/ Accept(p)
               \/ \E to \in base .. base + 1 : AcceptGrow(p, to)
               \/ RemoveClient(p)
               \/ \E l \in Layers : JoinLayer(p, l)
        PROVE  ListInv'
    BY <2>1, AcceptLists, GrowLists, RemoveLists, JoinLists
  <2>2. ASSUME NEW p \in Procs,
               \/ AcceptNoMemory(p) \/ Die(p) \/ SetTopmostClientUnjoined(p)
               \/ OpenWindows(p) \/ CloseWindows(p)
               \/ \E l \in Layers : JoinLayerFull(p, l)
        PROVE  ListInv'
    <3>1. UNCHANGED <<lists, layers>>
      BY <2>2, OtherLayers
    <3> QED
      BY <3>1, OtherLists DEF layers
  <2>3. ASSUME NEW l \in Layers, ServerCreateLayer(l) PROVE ListInv'
    BY <2>3, CreateLists
  <2>4. ASSUME NEW l \in Layers, ServerSetTopmostLayer(l) PROVE ListInv'
    BY <2>4, OtherLists DEF ServerSetTopmostLayer
  <2>5. ASSUME NEW k \in DOMAIN chain, ServerDeleteLayer(k) PROVE ListInv'
    BY <2>5, DeleteLists
  <2>6. CASE Send2TopMostClients \/ UNCHANGED vars
    <3>1. UNCHANGED <<lists, layers>>
      BY <2>6, OtherLayers
    <3> QED
      BY <3>1, OtherLists DEF layers
  <2> QED
    BY <2>1, <2>2, <2>3, <2>4, <2>5, <2>6 DEF Next
<1> QED
  BY <1>1, <1>2, LayersAlways, PTL DEF Spec


\* The walk of Send2TopMostClients meets the entries of the list in turn.
LEMMA WalkIs ==
  ASSUME LayersInv, ListInv, NEW l \in LayerList, NEW q \in Seq(Entries \ {0}),
         Chained(l, q), head[l] = At(q, 1)
  PROVE  /\ DOMAIN Walk(l) = 0 .. Cardinality(Entries)
         /\ \A n \in 0 .. Cardinality(Entries) : Walk(l)[n] = At(q, n + 1)
<1> DEFINE N == Cardinality(Entries)
           Body(f) == [n \in 0 .. N |->
                         IF n = 0 THEN head[l]
                         ELSE IF f[n - 1] = Nil THEN Nil
                         ELSE client[f[n - 1][2]].next]
           W == [n \in 0 .. N |-> At(q, n + 1)]
<1>1. N \in Nat
  BY Table, SizesAssumption DEF LayersInv
<1>2. Walk(l) = CHOOSE f : f = Body(f)
  BY DEF Walk
<1>3. \E f : f = Body(f)
  <2>1. ASSUME NEW n \in 0 .. N
        PROVE  W[n] = IF n = 0 THEN head[l]
                      ELSE IF W[n - 1] = Nil THEN Nil ELSE client[W[n - 1][2]].next
    <3> HIDE DEF N
    <3>1. CASE n = 0
      BY <3>1
    <3>2. CASE n # 0
      <4>1. n - 1 \in 0 .. N /\ (n - 1) + 1 = n /\ n \in Nat \ {0} /\ Len(q) \in Nat
        BY <1>1, <3>2
      <4>2. W[n - 1] = At(q, n) /\ W[n] = At(q, n + 1)
        BY <4>1
      <4>3. CASE n \in 1 .. Len(q)
        <5>1. At(q, n) = Ptr(q[n]) /\ At(q, n) # Nil /\ At(q, n)[2] = q[n]
          BY <4>3, PtrEq DEF At
        <5>2. client[q[n]].next = At(q, n + 1)
          BY <4>3 DEF Chained
        <5> QED
          BY <3>2, <4>2, <5>1, <5>2
      <4>4. CASE n \notin 1 .. Len(q)
        <5>1. n + 1 \notin 1 .. Len(q)
          BY <4>1, <4>4
        <5> QED
          BY <3>2, <4>2, <4>4, <5>1 DEF At
      <4> QED
        BY <4>3, <4>4
    <3> QED
      BY <3>1, <3>2
  <2> HIDE DEF W
  <2>2. W = [n \in 0 .. N |-> W[n]]
    BY DEF W
  <2>3. W = Body(W)
    BY <2>1, <2>2
  <2> QED
    BY <2>3
<1>4. PICK f : f = Walk(l)
  OBVIOUS
<1>5. f = Body(f)
  <2> HIDE DEF Body
  <2> QED
    BY <1>2, <1>3, <1>4
<1>6. /\ DOMAIN f = 0 .. N
      /\ \A n \in 0 .. N : f[n] = IF n = 0 THEN head[l]
                                 ELSE IF f[n - 1] = Nil THEN Nil
                                 ELSE client[f[n - 1][2]].next
  <2> HIDE DEF N
  <2> DEFINE g == Body(f)
  <2>1. /\ DOMAIN g = 0 .. N
        /\ \A n \in 0 .. N : g[n] = IF n = 0 THEN head[l]
                                   ELSE IF f[n - 1] = Nil THEN Nil
                                   ELSE client[f[n - 1][2]].next
    OBVIOUS
  <2>2. g = f
    BY <1>5
  <2> HIDE DEF g
  <2> QED
    BY <2>1, <2>2
<1> HIDE DEF N, Body, W
<1> DEFINE S == {n \in 0 .. N : f[n] = At(q, n + 1)}
<1>7. 0 .. N \subseteq S
  <2>1. 0 \in S
    BY <1>1, <1>6
  <2>2. ASSUME NEW n \in 0 .. N - 1, n \in S PROVE n + 1 \in S
    <3>1. /\ n + 1 \in 0 .. N /\ n + 1 # 0 /\ (n + 1) - 1 = n
          /\ n \in Nat /\ Len(q) \in Nat
      BY <1>1
    <3>2. f[n] = At(q, n + 1)
      BY <2>2
    <3>3. f[n + 1] = IF f[n] = Nil THEN Nil ELSE client[f[n][2]].next
      BY <1>6, <3>1
    <3>4. CASE n + 1 \in 1 .. Len(q)
      <4>1. At(q, n + 1) = Ptr(q[n + 1]) /\ At(q, n + 1) # Nil /\ At(q, n + 1)[2] = q[n + 1]
        BY <3>4, PtrEq DEF At
      <4>2. client[q[n + 1]].next = At(q, (n + 1) + 1)
        BY <3>4 DEF Chained
      <4> QED
        BY <3>1, <3>2, <3>3, <4>1, <4>2
    <3>5. CASE n + 1 \notin 1 .. Len(q)
      <4>1. (n + 1) + 1 \notin 1 .. Len(q)
        BY <3>1, <3>5
      <4> QED
        BY <3>1, <3>2, <3>3, <3>5, <4>1 DEF At
    <3> QED
      BY <3>4, <3>5
  <2> HIDE DEF S
  <2> QED
    BY <1>1, <2>1, <2>2, UpTo
<1> QED
  BY <1>4, <1>6, <1>7 DEF N

\* A list holds as many entries as its layer has members.
LEMMA ChainLength ==
  ASSUME LayersInv, NEW l, NEW q \in Seq(Entries \ {0}), Chained(l, q)
  PROVE  /\ Len(q) \in Nat /\ Cardinality(Members(l)) = Len(q)
         /\ Len(q) <= Cardinality(Entries)
<1>1. Len(q) \in Nat /\ q \in [1 .. Len(q) -> Entries \ {0}]
  OBVIOUS
<1>2. IsFiniteSet(1 .. Len(q)) /\ Cardinality(1 .. Len(q)) = Len(q)
  BY <1>1, IntervalCount
<1>3. /\ \A j, k \in 1 .. Len(q) : j # k => q[j] # q[k]
      /\ Members(l) = {q[k] : k \in 1 .. Len(q)}
  BY DEF Chained
<1>4. q \in Bijection(1 .. Len(q), Members(l))
  <2>1. q \in [1 .. Len(q) -> Members(l)]
    BY <1>1, <1>3
  <2>2. q \in Injection(1 .. Len(q), Members(l))
    BY <1>3, <2>1 DEF Injection, IsInjective
  <2>3. q \in Surjection(1 .. Len(q), Members(l))
    BY <1>3, <2>1 DEF Surjection
  <2> QED
    BY <2>2, <2>3 DEF Bijection
<1>5. Cardinality(Members(l)) = Len(q)
  BY <1>2, <1>4, FS_Bijection DEF ExistsBijection
<1>6. IsFiniteSet(Entries)
  <2>1. Entries = 0 .. Cardinality(Entries) - 1 /\ Cardinality(Entries) \in Nat
    BY Table, SizesAssumption DEF LayersInv
  <2> QED
    BY <2>1, IntervalCount
<1>7. Cardinality(Members(l)) <= Cardinality(Entries)
  BY <1>6, FS_Subset DEF Members
<1> QED
  BY <1>1, <1>5, <1>7

LEMMA ListsFromInv == LayersInv /\ ListInv => ListsSound /\ PointersCurrent
<1> SUFFICES ASSUME LayersInv, ListInv PROVE ListsSound /\ PointersCurrent
  OBVIOUS
<1>1. ASSUME NEW l \in LayerList
      PROVE  Visited(l) = Members(l) /\ Walk(l)[Cardinality(Members(l))] = Nil
  <2>1. PICK q \in Seq(Entries \ {0}) : Chained(l, q) /\ head[l] = At(q, 1)
    BY DEF ListInv
  <2>2. /\ Len(q) \in Nat /\ Cardinality(Members(l)) = Len(q)
        /\ Len(q) <= Cardinality(Entries)
    BY <2>1, ChainLength
  <2>3. Cardinality(Entries) \in Nat
    BY Table, SizesAssumption DEF LayersInv
  <2>4. PICK w : w = Walk(l)
    OBVIOUS
  <2>5. /\ DOMAIN w = 0 .. Cardinality(Entries)
        /\ \A n \in 0 .. Cardinality(Entries) : w[n] = At(q, n + 1)
    BY <2>1, <2>4, WalkIs
  <2>6. w[Len(q)] = Nil
    BY <2>2, <2>3, <2>5 DEF At
  <2>7. Members(l) = {q[k] : k \in 1 .. Len(q)}
    BY <2>1 DEF Chained
  <2>8. Visited(l) = {w[n][2] : n \in {m \in DOMAIN w : w[m] # Nil}}
    BY <2>4 DEF Visited
  <2>9. ASSUME NEW n \in DOMAIN w, w[n] # Nil PROVE w[n][2] \in Members(l)
    <3>1. w[n] = At(q, n + 1)
      BY <2>5
    <3>2. n + 1 \in 1 .. Len(q) /\ w[n][2] = q[n + 1]
      BY <2>9, <3>1, PtrEq DEF At
    <3> QED
      BY <2>7, <3>2
  <2>10. ASSUME NEW k \in 1 .. Len(q)
         PROVE  \E n \in DOMAIN w : w[n] # Nil /\ w[n][2] = q[k]
    <3>1. k - 1 \in DOMAIN w /\ (k - 1) + 1 = k
      BY <2>2, <2>3, <2>5
    <3>2. w[k - 1] = At(q, k)
      BY <2>5, <3>1
    <3>3. w[k - 1] # Nil /\ w[k - 1][2] = q[k]
      BY <3>2, PtrEq DEF At
    <3> QED
      BY <3>1, <3>3
  <2>11. Visited(l) = Members(l)
    BY <2>7, <2>8, <2>9, <2>10
  <2> QED
    BY <2>2, <2>4, <2>6, <2>11
<1>2. ASSUME NEW l, NEW q, Chained(l, q), NEW k
      PROVE  At(q, k) = Nil \/ (At(q, k)[1] = base /\ At(q, k)[2] \in Entries)
  <2>1. CASE k \in 1 .. Len(q)
    <3>1. At(q, k) = Ptr(q[k]) /\ q[k] \in Entries
      BY <1>2, <2>1 DEF At, Chained
    <3> QED
      BY <3>1 DEF Ptr
  <2>2. CASE k \notin 1 .. Len(q)
    BY <2>2 DEF At
  <2> QED
    BY <2>1, <2>2
<1>3. ASSUME NEW i \in Entries
      PROVE  \/ client[i].next = Nil /\ client[i].prev = Nil
             \/ \E q \in Seq(Entries \ {0}) : \E k \in 1 .. Len(q) :
                  /\ Chained(client[i].layer, q) /\ q[k] = i
                  /\ client[i].next = At(q, k + 1) /\ client[i].prev = At(q, k - 1)
  <2>1. CASE i = 0 \/ client[i].layer = NULL
    BY <2>1 DEF ListInv
  <2>2. CASE i # 0 /\ client[i].layer # NULL
    <3>1. client[i].layer \in LayerList /\ i \in Members(client[i].layer)
      BY <2>2 DEF LayersInv, LayersSound, Members
    <3>2. PICK q \in Seq(Entries \ {0}) : Chained(client[i].layer, q)
      BY <3>1 DEF ListInv
    <3>3. PICK k \in 1 .. Len(q) : q[k] = i
      BY <3>1, <3>2 DEF Chained
    <3>4. client[i].next = At(q, k + 1) /\ client[i].prev = At(q, k - 1)
      BY <3>2, <3>3 DEF Chained
    <3> QED
      BY <3>2, <3>3, <3>4
  <2> QED
    BY <2>1, <2>2
<1>4. ASSUME NEW i \in Entries
      PROVE  /\ client[i].next # Nil => client[client[i].next[2]].prev = Ptr(i)
             /\ client[i].prev # Nil => client[client[i].prev[2]].next = Ptr(i)
             /\ client[i].proc = Free => client[i] = Empty
  <2>1. ASSUME client[i].proc = Free PROVE client[i] = Empty
    <3>1. client[i].layer = NULL /\ client[i].next = Nil /\ client[i].prev = Nil
      BY <2>1 DEF ListInv
    <3>2. client[i] \in EntryType
      BY Table DEF LayersInv
    <3> QED
      BY <2>1, <3>1, <3>2, EntryFields DEF Empty
  <2>2. CASE client[i].next = Nil /\ client[i].prev = Nil
    BY <2>1, <2>2
  <2>3. ASSUME NEW q \in Seq(Entries \ {0}), NEW k \in 1 .. Len(q),
               Chained(client[i].layer, q), q[k] = i,
               client[i].next = At(q, k + 1), client[i].prev = At(q, k - 1)
        PROVE  /\ client[i].next # Nil => client[client[i].next[2]].prev = Ptr(i)
               /\ client[i].prev # Nil => client[client[i].prev[2]].next = Ptr(i)
    <3>1. /\ (k + 1) - 1 = k /\ (k - 1) + 1 = k /\ At(q, k) = Ptr(i)
      BY <2>3 DEF At
    <3>2. ASSUME client[i].next # Nil PROVE client[client[i].next[2]].prev = Ptr(i)
      <4>1. k + 1 \in 1 .. Len(q) /\ client[i].next[2] = q[k + 1]
        BY <2>3, <3>2, PtrEq DEF At
      <4>2. client[q[k + 1]].prev = At(q, (k + 1) - 1)
        BY <2>3, <4>1 DEF Chained
      <4> QED
        BY <3>1, <4>1, <4>2
    <3>3. ASSUME client[i].prev # Nil PROVE client[client[i].prev[2]].next = Ptr(i)
      <4>1. k - 1 \in 1 .. Len(q) /\ client[i].prev[2] = q[k - 1]
        BY <2>3, <3>3, PtrEq DEF At
      <4>2. client[q[k - 1]].next = At(q, (k - 1) + 1)
        BY <2>3, <4>1 DEF Chained
      <4> QED
        BY <3>1, <4>1, <4>2
    <3> QED
      BY <3>2, <3>3
  <2> QED
    BY <1>3, <2>1, <2>2, <2>3
<1>5. ASSUME NEW i \in Entries
      PROVE  /\ client[i].next = Nil
                \/ (client[i].next[1] = base /\ client[i].next[2] \in Entries)
             /\ client[i].prev = Nil
                \/ (client[i].prev[1] = base /\ client[i].prev[2] \in Entries)
  BY <1>2, <1>3
<1>6. ASSUME NEW l \in DOMAIN head
      PROVE  head[l] = Nil \/ (head[l][1] = base /\ head[l][2] \in Entries)
  <2>1. l \in LayerList
    BY DEF LayersInv, TypeOK
  <2>2. PICK q \in Seq(Entries \ {0}) : Chained(l, q) /\ head[l] = At(q, 1)
    BY <2>1 DEF ListInv
  <2> QED
    BY <1>2, <2>2
<1>7. PointersCurrent
  BY <1>5, <1>6 DEF PointersCurrent
<1>8. ListsSound
  BY <1>1, <1>4 DEF ListsSound
<1> QED
  BY <1>7, <1>8

\* No pointer into the client table is left behind when realloc moves it:
\* offset_pointers reaches every next, prev and cli_head there is.
THEOREM PointersCorrect == Spec => []PointersCurrent
  BY LayersAlways, ListsAlways, ListsFromInv, PTL

\* The clients of a layer are in its list, each once and no other, linked both
\* ways, whatever __mg_client_add, join_layer, __mg_remove_client and
\* ServerDeleteLayer did before.
THEOREM ListsCorrect == Spec => []ListsSound
  BY LayersAlways, ListsAlways, ListsFromInv, PTL
=============================================================================
