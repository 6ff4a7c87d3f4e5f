---------------------------- MODULE ZOrderProofs ----------------------------
(***************************************************************************)
(* The shared table of windows stays sound, every window draws in its      *)
(* current region, and what the screen shows wrong its owner draws later,  *)
(* for any number of clients, windows and menus and any rectangles.        *)
(***************************************************************************)
EXTENDS ZOrder, LeastNumber, FiniteSetTheorems, TLAPS

-----------------------------------------------------------------------------
(* Rectangles.                                                             *)

LEMMA MostExists ==
  ASSUME NEW S \in SUBSET Nat, S # {}, IsFiniteSet(S)
  PROVE  \E x \in S : \A y \in S : y <= x
<1> DEFINE More(x) == {y \in S : x < y}
           N == {Cardinality(More(x)) : x \in S}
<1>1. \A x \in S : IsFiniteSet(More(x)) /\ Cardinality(More(x)) \in Nat
  BY FS_Subset, FS_CardinalityType
<1>2. N \in SUBSET Nat /\ N # {}
  BY <1>1
<1>3. PICK n \in N : \A m \in N : n <= m
  BY <1>2, LeastExists
<1>4. PICK x \in S : n = Cardinality(More(x))
  BY <1>3
<1>5. ASSUME NEW y \in S, x < y PROVE FALSE
  <2>1. More(y) \subseteq More(x) /\ y \in More(x) /\ y \notin More(y)
    <3>1. x \in Nat /\ y \in Nat /\ ~(y < y)
      OBVIOUS
    <3>2. \A z \in S : y < z => x < z
      BY <1>5, <3>1
    <3> QED
      BY <1>5, <3>1, <3>2
  <2>2. More(y) \subseteq More(x) \ {y}
    BY <2>1
  <2>3. /\ IsFiniteSet(More(x) \ {y})
        /\ Cardinality(More(x) \ {y}) = Cardinality(More(x)) - 1
    BY <1>1, <2>1, FS_RemoveElement
  <2>4. Cardinality(More(y)) <= Cardinality(More(x)) - 1
    BY <2>2, <2>3, FS_Subset
  <2>5. Cardinality(More(x)) <= Cardinality(More(y))
    BY <1>3, <1>4
  <2> QED
    BY <1>1, <2>4, <2>5
<1> QED
  BY <1>5

LEMMA Ends ==
  ASSUME NEW S \in SUBSET Nat, S # {}, IsFiniteSet(S)
  PROVE  /\ First(S) \in S /\ \A x \in S : First(S) <= x
         /\ Last(S) \in S /\ \A x \in S : x <= Last(S)
<1>1. \E x \in S : \A y \in S : x <= y
  BY LeastExists
<1>2. \E x \in S : \A y \in S : y <= x
  BY MostExists
<1> QED
  BY <1>1, <1>2 DEF First, Last

LEMMA BoundHolds ==
  ASSUME NEW S \in SUBSET Nat, IsFiniteSet(S)
  PROVE  S \subseteq Bound(S)
<1>1. CASE S = {}
  BY <1>1
<1>2. CASE S # {}
  <2>1. Bound(S) = First(S) .. Last(S)
    BY <1>2 DEF Bound
  <2> QED
    BY <1>2, <2>1, Ends
<1> QED
  BY <1>1, <1>2

\* The cells that rectangles cover.
Cells == (UNION (Rects \cup MenuRects)) \cup Screen

LEMMA CellsFinite ==
  /\ Cells \in SUBSET Nat /\ IsFiniteSet(Cells)
  /\ \A S \in SUBSET Cells : IsFiniteSet(S) /\ S \in SUBSET Nat
  /\ \A r \in Rects \cup MenuRects \cup {Screen} : r \subseteq Cells /\ r # {}
<1>1. IsFiniteSet(Screen) /\ Screen \in SUBSET Nat /\ Screen # {}
  <2>1. Width - 1 \in Int /\ 0 <= Width - 1
    BY BoundsAssumption
  <2>2. IsFiniteSet(0 .. Width - 1)
    BY <2>1, FS_Interval
  <2>3. 0 .. Width - 1 \in SUBSET Nat /\ 0 \in 0 .. Width - 1
    BY <2>1
  <2> QED
    BY <2>2, <2>3 DEF Screen
<1> DEFINE R == UNION (Rects \cup MenuRects)
<1>0. R \in SUBSET Nat /\ IsFiniteSet(R)
  BY RectsAssumption, Zenon
<1> HIDE DEF R
<1>2. Cells \in SUBSET Nat
  BY <1>0, <1>1 DEF Cells, R
<1>3. IsFiniteSet(Cells)
  <2>1. IsFiniteSet(R \cup Screen)
    BY <1>0, <1>1, FS_Union
  <2> QED
    BY <2>1 DEF Cells, R
<1>4. \A S \in SUBSET Cells : IsFiniteSet(S) /\ S \in SUBSET Nat
  BY <1>2, <1>3, FS_Subset
<1>5. \A r \in Rects \cup MenuRects \cup {Screen} : r \subseteq Cells /\ r # {}
  <2>1. ASSUME NEW r \in Rects \cup MenuRects PROVE r \subseteq Cells /\ r # {}
    <3>1. r # {}
      BY RectsAssumption
    <3>2. r \subseteq Cells
      BY Zenon DEF Cells
    <3> QED
      BY <3>1, <3>2
  <2>2. Screen \subseteq Cells
    BY Zenon DEF Cells
  <2> QED
    BY <1>1, <2>1, <2>2
<1> QED
  BY <1>2, <1>3, <1>4, <1>5

LEMMA FromOrigin ==
  ASSUME NEW S \in SUBSET Cells PROVE S \subseteq BoundFromOrigin(S)
<1>1. IsFiniteSet(S \cup {0}) /\ S \cup {0} \in SUBSET Nat
  BY CellsFinite, FS_AddElement
<1> QED
  BY <1>1, BoundHolds DEF BoundFromOrigin

\* A cell beside a rectangle is on its left or on its right.
LEMMA Beside ==
  ASSUME NEW r \in Rects, NEW x \in Nat, x \notin r
  PROVE  x < First(r) \/ x > Last(r)
<1>1. PICK a, b \in r : r = a .. b
  BY RectsAssumption
<1>2. r \in SUBSET Nat /\ r # {} /\ IsFiniteSet(r)
  <2>1. r \subseteq Cells /\ r # {}
    BY CellsFinite
  <2> QED
    BY <2>1, CellsFinite
<1>3. /\ First(r) \in r /\ \A y \in r : First(r) <= y
      /\ Last(r) \in r /\ \A y \in r : y <= Last(r)
  BY <1>2, Ends
<1>4. a \in Nat /\ b \in Nat /\ First(r) \in Nat /\ Last(r) \in Nat
  BY <1>1, <1>2, <1>3
<1>5. First(r) <= a /\ b <= Last(r) /\ a <= First(r) /\ Last(r) <= b
  BY <1>1, <1>3, <1>4
<1> QED
  BY <1>1, <1>4, <1>5
-----------------------------------------------------------------------------
(* What each change of the table leaves alone.                             *)

Fields == {"win", "before", "free", "nr", "active", "menus", "track", "clip",
           "dirty", "told", "paint", "stale", "lost"}

\* e has the nodes of d, in the same lists.
SameNodes(d, e) ==
  e.win = d.win /\ e.before = d.before /\ e.free = d.free /\ e.nr = d.nr
SameMenus(d, e)  == e.menus = d.menus /\ e.track = d.track
SameDirty(d, e)  == e.dirty = d.dirty /\ e.told = d.told
SameScreen(d, e) == e.paint = d.paint /\ e.stale = d.stale /\ e.lost = d.lost

\* e has the regions of d, without those of the windows S.
FewerClips(d, e, S) ==
  /\ DOMAIN e.clip = DOMAIN d.clip \ S
  /\ \A s \in DOMAIN e.clip : e.clip[s] = d.clip[s]

LEMMA AgedIs ==
  ASSUME NEW d, DOMAIN d = Fields, NEW S
  PROVE  /\ DOMAIN Aged(d, S) = Fields
         /\ SameNodes(d, Aged(d, S)) /\ SameMenus(d, Aged(d, S))
         /\ SameDirty(d, Aged(d, S)) /\ SameScreen(d, Aged(d, S))
         /\ Aged(d, S).active = d.active
         /\ FewerClips(d, Aged(d, S), S)
  BY DEF Fields, Aged, SameNodes, SameMenus, SameDirty, SameScreen, FewerClips

LEMMA PaintedIs ==
  ASSUME NEW d, DOMAIN d = Fields, NEW S, NEW cells, NEW e, e = Painted(d, S, cells)
  PROVE  /\ DOMAIN e = Fields
         /\ SameNodes(d, e) /\ SameMenus(d, e) /\ SameDirty(d, e)
         /\ e.active = d.active /\ e.clip = d.clip
         /\ e.stale = d.stale /\ e.lost = d.lost
         /\ e.paint = d.paint \cup (S \X (cells \cap Screen))
  BY DEF Fields, Painted, SameNodes, SameMenus, SameDirty

\* What Done and Uncover make of d.
Finished(d, e) ==
  /\ DOMAIN e = Fields
  /\ SameNodes(d, e) /\ SameMenus(d, e) /\ SameDirty(d, e)
  /\ e.active = d.active /\ e.paint = {} /\ e.lost \subseteq d.lost
  /\ DOMAIN e.clip = Used(d)
  /\ \A s \in Used(d) :
       e.clip[s] = CASE ~d.win[s].visible -> {}
                     [] d.win[s].visible /\ s \in DOMAIN d.clip -> d.clip[s]
                     [] OTHER -> ClipOf(d, s)
  /\ e.stale \subseteq desk.stale \cup Screen \cup {p[2] : p \in d.paint}

Uncovered(d, T, rc, e) ==
  /\ DOMAIN e = Fields
  /\ SameNodes(d, e) /\ SameMenus(d, e) /\ FewerClips(d, e, T)
  /\ e.active = d.active /\ e.stale = d.stale /\ e.lost = d.lost
  /\ e.dirty = [s \in Slots |-> IF s \in T /\ d.win[s].cli # Server
                                  THEN Bound(d.dirty[s] \cup (rc \cap Screen))
                                  ELSE d.dirty[s]]
  /\ e.told = d.told \cup {d.win[s].cli : s \in {t \in T : d.win[t].cli # Server}}
  /\ e.paint = d.paint \cup ({s \in T : d.win[s].cli = Server} \X (rc \cap Screen))

LEMMA DoneIs ==
  ASSUME NEW d, DOMAIN d = Fields, NEW e, e = Done(d)
  PROVE  Finished(d, e)
<1> DEFINE clip == [s \in Used(d) |->
                 CASE ~d.win[s].visible -> {}
                   [] d.win[s].visible /\ s \in DOMAIN d.clip -> d.clip[s]
                   [] OTHER -> ClipOf(d, s)]
           drawn == {p \in d.paint : p[1] \in Slots => p[1] \in Used(d) /\ p[2] \in clip[p[1]]}
           old == [c \in Screen |-> TopAt(desk, c)]
           top == [c \in Screen |-> TopAt(d, c)]
           wrong == desk.stale \cup {c \in Screen : top[c] # old[c]} \cup {p[2] : p \in drawn}
           stale == {c \in wrong : <<top[c], c>> \notin drawn}
           lost == {p \in d.lost : p[2] \in stale /\ top[p[2]] = p[1]}
<1>1. e = [d EXCEPT !.clip = clip, !.paint = {}, !.stale = stale, !.lost = lost]
  BY DEF Done
<1>2. DOMAIN clip = Used(d)
      /\ \A s \in Used(d) :
              clip[s] = CASE ~d.win[s].visible -> {}
                            [] d.win[s].visible /\ s \in DOMAIN d.clip -> d.clip[s]
                            [] OTHER -> ClipOf(d, s)
  OBVIOUS
<1>3. lost \subseteq d.lost /\ stale \subseteq desk.stale \cup Screen \cup {p[2] : p \in d.paint}
  OBVIOUS
<1> HIDE DEF clip, stale, lost
<1>4. /\ DOMAIN e = Fields /\ e.active = d.active /\ e.paint = {}
      /\ e.clip = clip /\ e.stale = stale /\ e.lost = lost
      /\ SameNodes(d, e) /\ SameMenus(d, e) /\ SameDirty(d, e)
  BY <1>1 DEF Fields, SameNodes, SameMenus, SameDirty
<1> QED
  BY <1>2, <1>3, <1>4 DEF Finished

LEMMA UncoverIs ==
  ASSUME NEW d, DOMAIN d = Fields, NEW T, NEW rc, NEW e, e = Uncover(d, T, rc)
  PROVE  Uncovered(d, T, rc, e)
<1> DEFINE own == {s \in T : d.win[s].cli = Server}
<1>1. PICK a : a = Aged(d, T)
  OBVIOUS
<1>2. /\ DOMAIN a = Fields
      /\ SameNodes(d, a) /\ SameMenus(d, a) /\ SameDirty(d, a) /\ SameScreen(d, a)
      /\ a.active = d.active /\ FewerClips(d, a, T)
  BY <1>1, AgedIs
<1> DEFINE f == [s \in Slots |-> IF s \in T \ own THEN Bound(a.dirty[s] \cup (rc \cap Screen))
                                                  ELSE a.dirty[s]]
           g == a.told \cup {d.win[s].cli : s \in T \ own}
<1>3. PICK b : b = [a EXCEPT !.dirty = f, !.told = g]
  OBVIOUS
<1>4. e = Painted(b, own, rc)
  BY <1>1, <1>3 DEF Uncover
<1>5. /\ f = [s \in Slots |-> IF s \in T /\ d.win[s].cli # Server
                                THEN Bound(d.dirty[s] \cup (rc \cap Screen)) ELSE d.dirty[s]]
      /\ g = d.told \cup {d.win[s].cli : s \in {t \in T : d.win[t].cli # Server}}
  BY <1>2 DEF SameDirty
<1> HIDE DEF f, g
<1>6. /\ DOMAIN b = Fields /\ b.dirty = f /\ b.told = g
      /\ SameNodes(a, b) /\ SameMenus(a, b) /\ SameScreen(a, b)
      /\ b.clip = a.clip /\ b.active = a.active
  BY <1>2, <1>3 DEF Fields, SameNodes, SameMenus, SameScreen
<1>7. /\ DOMAIN e = Fields
      /\ SameNodes(b, e) /\ SameMenus(b, e) /\ SameDirty(b, e)
      /\ e.active = b.active /\ e.clip = b.clip
      /\ e.stale = b.stale /\ e.lost = b.lost
      /\ e.paint = b.paint \cup (own \X (rc \cap Screen))
  BY <1>4, <1>6, PaintedIs
<1> QED
  BY <1>2, <1>5, <1>6, <1>7 DEF Uncovered, SameNodes, SameMenus, SameDirty, SameScreen, FewerClips
-----------------------------------------------------------------------------
(* A table in which slots, counts and lists agree.                         *)

Of(d, t) == {s \in Listed(d) : d.win[s].type = t}

NodesOK(d) ==
  /\ Used(d) \subseteq Slots /\ Desktop \in Used(d)
  /\ \A s \in Used(d) : d.win[s] \in Nodes
  /\ d.win[Desktop] = [type |-> DESKTOP, visible |-> TRUE, cli |-> Server, rc |-> Screen]
  /\ \A s \in Listed(d) : d.win[s].type \in Lists /\ (s < MaxGlobals <=> d.win[s].type = GLOBAL)

CountsOK(d) ==
  /\ d.free = Slots \ Used(d)
  /\ DOMAIN d.nr = Lists
  /\ \A t \in Lists : /\ d.nr[t] = Cardinality(Of(d, t)) + (IF t = GLOBAL THEN 1 ELSE 0)
                      /\ d.nr[t] <= MaxOf[t]

\* The nodes of a type are in a strict total order.
OrderOK(d) ==
  /\ \A p \in d.before : /\ p \in Listed(d) \X Listed(d) /\ p[1] # p[2]
                         /\ d.win[p[1]].type = d.win[p[2]].type
  /\ \A a, b \in Listed(d) :
       a # b /\ d.win[a].type = d.win[b].type
         => (<<a, b>> \in d.before <=> <<b, a>> \notin d.before)
  /\ \A a, b, c \in Listed(d) :
       <<a, b>> \in d.before /\ <<b, c>> \in d.before => <<a, c>> \in d.before

TableOK(d) == NodesOK(d) /\ CountsOK(d) /\ OrderOK(d)

RestOK(d) ==
  /\ d.menus \in Seq(MenuRects) /\ Len(d.menus) <= MaxMenus
  /\ d.track \in Processes \cup {NoClient}
  /\ d.menus = <<>> <=> d.track = NoClient
  /\ d.told \subseteq Clients
  /\ \A p \in d.paint : p[2] \in Screen
  /\ d.stale \subseteq Screen /\ d.lost \subseteq Slots \X Screen
  /\ DOMAIN d.clip \subseteq Used(d)
  /\ \A s \in DOMAIN d.clip : d.clip[s] \subseteq Screen

Fits(d) == DOMAIN d = Fields /\ TableOK(d) /\ RestOK(d)

\* Every region a visible window remembers is the one the table gives it.
Sound(d) ==
  \A s \in DOMAIN d.clip : s \in Shown(d) \cup {Desktop} => d.clip[s] = ClipOf(d, s)

LEMMA NodesKept ==
  ASSUME NEW d, NEW e, SameNodes(d, e)
  PROVE  /\ Used(e) = Used(d) /\ Listed(e) = Listed(d) /\ Shown(e) = Shown(d)
         /\ \A a, b : Over(e, a, b) <=> Over(d, a, b)
         /\ \A s : Above(e, s) = Above(d, s) /\ Below(e, s) = Below(d, s)
         /\ \A S : Covered(e, S) = Covered(d, S)
         /\ TableOK(d) => TableOK(e)
<1>1. Used(e) = Used(d) /\ Listed(e) = Listed(d) /\ Shown(e) = Shown(d)
  BY DEF SameNodes, Used, Listed, Shown
<1>2. \A a, b : Over(e, a, b) <=> Over(d, a, b)
  BY DEF SameNodes, Over
<1>3. \A s : Above(e, s) = Above(d, s) /\ Below(e, s) = Below(d, s)
  BY <1>1, <1>2 DEF Above, Below
<1>4. \A S : Covered(e, S) = Covered(d, S)
  BY DEF SameNodes, Covered
<1>5. TableOK(d) => TableOK(e)
  <2>1. NodesOK(d) => NodesOK(e)
    BY <1>1 DEF SameNodes, NodesOK
  <2>2. \A t : Of(e, t) = Of(d, t)
    BY <1>1 DEF SameNodes, Of
  <2>3. CountsOK(d) => CountsOK(e)
    BY <1>1, <2>2 DEF SameNodes, CountsOK
  <2>4. OrderOK(d) => OrderOK(e)
    BY <1>1 DEF SameNodes, OrderOK
  <2> QED
    BY <2>1, <2>3, <2>4 DEF TableOK
<1> QED
  BY <1>1, <1>2, <1>3, <1>4, <1>5

\* What a window may draw.
LEMMA InClip ==
  ASSUME NEW d, NEW s, NEW x
  PROVE  x \in ClipOf(d, s) <=>
           /\ x \in d.win[s].rc /\ x \in Screen
           /\ \A i \in DOMAIN d.menus : x \notin d.menus[i]
           /\ \A a \in Shown(d) : Over(d, a, s) => x \notin d.win[a].rc
<1>1. \A a : a \in Above(d, s) \cap Shown(d) <=> a \in Shown(d) /\ Over(d, a, s)
  BY DEF Above, Shown
<1> QED
  BY <1>1 DEF ClipOf, Covered

LEMMA SameTableClip ==
  ASSUME NEW d, NEW e, SameNodes(d, e), SameMenus(d, e)
  PROVE  \A s : ClipOf(e, s) = ClipOf(d, s)
<1> SUFFICES ASSUME NEW s PROVE ClipOf(e, s) = ClipOf(d, s)
  OBVIOUS
<1>1. ASSUME NEW x PROVE x \in ClipOf(e, s) <=> x \in ClipOf(d, s)
  <2>1. /\ Shown(e) = Shown(d) /\ e.win = d.win /\ e.menus = d.menus
        /\ \A a : Over(e, a, s) <=> Over(d, a, s)
    BY NodesKept DEF SameNodes, SameMenus
  <2> QED
    BY <2>1, InClip
<1> QED
  BY <1>1 DEF ClipOf

\* A window none of whose own, the menus' or the covering rectangles changes
\* keeps its region.
LEMMA SameClip ==
  ASSUME NEW d, NEW e, NEW s, e.win[s].rc = d.win[s].rc,
         \A x \in Screen : x \in d.win[s].rc =>
           ((\E i \in DOMAIN d.menus : x \in d.menus[i])
              \/ (\E a \in Shown(d) : Over(d, a, s) /\ x \in d.win[a].rc)
            <=> (\E i \in DOMAIN e.menus : x \in e.menus[i])
              \/ (\E a \in Shown(e) : Over(e, a, s) /\ x \in e.win[a].rc))
  PROVE  ClipOf(e, s) = ClipOf(d, s)
<1>1. ASSUME NEW x PROVE x \in ClipOf(e, s) <=> x \in ClipOf(d, s)
  BY InClip
<1> QED
  BY <1>1 DEF ClipOf

LEMMA CellTypes ==
  ASSUME NEW d, NodesOK(d)
  PROVE  \A s \in Used(d) : /\ d.win[s].rc \subseteq Cells /\ d.win[s].rc # {}
                            /\ \A x \in d.win[s].rc : x \in Nat
<1>1. \A s \in Used(d) : d.win[s].rc \in Rects \cup MenuRects \cup {Screen}
  BY DEF NodesOK, Nodes
<1> QED
  BY <1>1, CellsFinite

\* Of the nodes swept, those with a part of rc that nothing swept above them
\* covers are found.
LEMMA TouchedHas ==
  ASSUME NEW d, NEW rc, NEW swept, NEW b \in (swept \cap Shown(d)) \cup {Desktop},
         NEW x \in Nat, x \in rc, x \in d.win[b].rc,
         \A a \in swept \cap Shown(d) : Over(d, a, b) => x \notin d.win[a].rc
  PROVE  b \in Touched(d, rc, swept)
<1>1. x \in rc \ Covered(d, {a \in swept \cap Shown(d) : Over(d, a, b)})
  BY DEF Covered
<1>2. x <= x
  OBVIOUS
<1>3. BoxMeets(rc \ Covered(d, {a \in swept \cap Shown(d) : Over(d, a, b)}), d.win[b].rc)
  BY <1>1, <1>2 DEF BoxMeets
<1> QED
  BY <1>3 DEF Touched

LEMMA TouchedIn ==
  ASSUME NEW d, NEW rc, NEW swept
  PROVE  Touched(d, rc, swept) \subseteq (swept \cap Shown(d)) \cup {Desktop}
  BY DEF Touched
-----------------------------------------------------------------------------
(* Above and below.                                                        *)

LEMMA TypesDiffer ==
  /\ DESKTOP = 0 /\ NORMAL = 1 /\ TOPMOST = 2 /\ GLOBAL = 3
  /\ Lists = {1, 2, 3} /\ Lists \subseteq Nat
  BY DEF DESKTOP, NORMAL, TOPMOST, GLOBAL, Lists

LEMMA SlotsFinite ==
  /\ Slots \subseteq Nat /\ \A S \in SUBSET Slots : IsFiniteSet(S) /\ Cardinality(S) \in Nat
<1>1. PICK n : n = MaxGlobals + MaxTopmosts + MaxNormals - 1
  OBVIOUS
<1>2. n \in Int
  BY <1>1, BoundsAssumption
<1>3. IsFiniteSet(0 .. n) /\ 0 .. n \subseteq Nat
  BY <1>2, FS_Interval
<1>4. Slots = 0 .. n
  BY <1>1 DEF Slots
<1> QED
  BY <1>3, <1>4, FS_Subset, FS_CardinalityType

\* A node above another.
LEMMA OverIs ==
  ASSUME NEW d, TableOK(d)
  PROVE  /\ \A a, b, c \in Listed(d) : Over(d, a, b) /\ Over(d, b, c) => Over(d, a, c)
         /\ \A a, b \in Listed(d) : a # b => Over(d, a, b) \/ Over(d, b, a)
         /\ \A a \in Listed(d) : ~Over(d, a, a) /\ Over(d, a, Desktop)
<1>1. \A a \in Listed(d) : d.win[a].type \in Nat \ {0}
  BY TypesDiffer DEF TableOK, NodesOK
<1>2. OrderOK(d)
  BY DEF TableOK
<1>3. \A p, q \in Listed(d) : <<p, q>> \in d.before => d.win[p].type = d.win[q].type
  BY <1>2 DEF OrderOK
<1>4. ASSUME NEW a \in Listed(d), NEW b \in Listed(d), NEW c \in Listed(d),
             Over(d, a, b), Over(d, b, c)
      PROVE  Over(d, a, c)
  <2>1. CASE <<a, b>> \in d.before /\ <<b, c>> \in d.before
    <3>1. <<a, c>> \in d.before
      BY <1>2, <2>1 DEF OrderOK
    <3> QED
      BY <3>1 DEF Over
  <2>2. CASE ~(<<a, b>> \in d.before /\ <<b, c>> \in d.before)
    <3>1. d.win[a].type > d.win[c].type
      BY <1>1, <1>3, <1>4, <2>2 DEF Over
    <3> QED
      BY <3>1 DEF Over
  <2> QED
    BY <2>1, <2>2
<1>5. ASSUME NEW a \in Listed(d), NEW b \in Listed(d), a # b
      PROVE  Over(d, a, b) \/ Over(d, b, a)
  <2>1. CASE d.win[a].type = d.win[b].type
    BY <1>2, <1>5, <2>1 DEF OrderOK, Over
  <2>2. CASE d.win[a].type # d.win[b].type
    BY <1>1, <2>2 DEF Over
  <2> QED
    BY <2>1, <2>2
<1>6. ASSUME NEW a \in Listed(d) PROVE ~Over(d, a, a) /\ Over(d, a, Desktop)
  <2>1. <<a, a>> \notin d.before
    BY <1>2 DEF OrderOK
  <2>2. d.win[Desktop].type = 0
    BY TypesDiffer DEF TableOK, NodesOK
  <2> QED
    BY <1>1, <2>1, <2>2 DEF Over
<1> QED
  BY <1>4, <1>5, <1>6

LEMMA Irreflexive ==
  ASSUME NEW d, TableOK(d), NEW s \in Listed(d) PROVE ~Over(d, s, s)
  BY OverIs

\* A walk through the lists meets a node of a set first.
LEMMA FirstIn ==
  ASSUME NEW d, TableOK(d), NEW S \in SUBSET Listed(d), S # {}
  PROVE  FirstOf(d, S) \in S /\ \A b \in S \ {FirstOf(d, S)} : Over(d, FirstOf(d, S), b)
<1>1. /\ \A a, b, c \in S : Over(d, a, b) /\ Over(d, b, c) => Over(d, a, c)
      /\ \A a, b \in S : a # b => Over(d, a, b) \/ Over(d, b, a)
      /\ \A a \in S : ~Over(d, a, a)
  BY OverIs
<1> DEFINE Ahead(a) == {b \in S : Over(d, b, a)}
           N == {Cardinality(Ahead(a)) : a \in S}
<1>2. \A a \in S : IsFiniteSet(Ahead(a)) /\ Cardinality(Ahead(a)) \in Nat
  <2>1. \A a \in S : Ahead(a) \in SUBSET Slots
    BY DEF TableOK, NodesOK, Listed
  <2> QED
    BY <2>1, SlotsFinite
<1>3. N \in SUBSET Nat /\ N # {}
  BY <1>2
<1>4. PICK n \in N : \A k \in N : n <= k
  BY <1>3, LeastExists
<1>5. PICK a \in S : n = Cardinality(Ahead(a))
  BY <1>4
<1>6. ASSUME NEW b \in S, Over(d, b, a) PROVE FALSE
  <2>1. Ahead(b) \subseteq Ahead(a) \ {b} /\ b \in Ahead(a)
    BY <1>1, <1>6
  <2>2. /\ IsFiniteSet(Ahead(a) \ {b})
        /\ Cardinality(Ahead(a) \ {b}) = Cardinality(Ahead(a)) - 1
    BY <1>2, <2>1, FS_RemoveElement
  <2>3. Cardinality(Ahead(b)) <= Cardinality(Ahead(a)) - 1
    BY <2>1, <2>2, FS_Subset
  <2>4. Cardinality(Ahead(a)) <= Cardinality(Ahead(b))
    BY <1>4, <1>5
  <2>5. Cardinality(Ahead(a)) \in Nat /\ Cardinality(Ahead(b)) \in Nat
    BY <1>2, <1>6
  <2> HIDE DEF Ahead
  <2> QED
    BY <2>3, <2>4, <2>5
<1>7. \A b \in S \ {a} : Over(d, a, b)
  BY <1>1, <1>6
<1> QED
  BY <1>7 DEF FirstOf

LEMMA SameTop ==
  ASSUME NEW d, NEW e, SameNodes(d, e), SameMenus(d, e)
  PROVE  \A c : TopAt(e, c) = TopAt(d, c)
<1>1. /\ Shown(e) = Shown(d) /\ e.win = d.win /\ e.menus = d.menus
      /\ \A a, b : Over(e, a, b) <=> Over(d, a, b)
  BY NodesKept DEF SameNodes, SameMenus
<1>2. \A S : FirstOf(e, S) = FirstOf(d, S)
  BY <1>1 DEF FirstOf
<1> QED
  BY <1>1, <1>2 DEF TopAt

\* What is on top at a cell is what may draw there.
LEMMA TopIs ==
  ASSUME NEW d, TableOK(d), NEW c \in Screen
  PROVE  /\ TopAt(d, c) = Menu <=> \E i \in DOMAIN d.menus : c \in d.menus[i]
         /\ TopAt(d, c) # Menu => TopAt(d, c) \in Shown(d) \cup {Desktop}
         /\ \A s \in Shown(d) \cup {Desktop} : c \in ClipOf(d, s) <=> TopAt(d, c) = s
<1>1. /\ Shown(d) \in SUBSET Listed(d) /\ Desktop \notin Shown(d)
      /\ \A s \in Shown(d) \cup {Desktop} : s # Menu
      /\ d.win[Desktop].rc = Screen
  BY SlotsFinite DEF Shown, Listed, TableOK, NodesOK, Menu, Desktop
<1>2. CASE \E i \in DOMAIN d.menus : c \in d.menus[i]
  <2>1. TopAt(d, c) = Menu
    BY <1>2 DEF TopAt
  <2>2. \A s : c \notin ClipOf(d, s)
    BY <1>2, InClip
  <2> QED
    BY <1>1, <1>2, <2>1, <2>2
<1>3. CASE ~ \E i \in DOMAIN d.menus : c \in d.menus[i]
  <2>1. PICK at : at = {s \in Shown(d) : c \in d.win[s].rc}
    OBVIOUS
  <2>2. CASE at = {}
    <3>1. TopAt(d, c) = Desktop
      BY <1>3, <2>1, <2>2 DEF TopAt
    <3>2. c \in ClipOf(d, Desktop)
      BY <1>1, <1>3, <2>1, <2>2, InClip
    <3>3. \A s \in Shown(d) : c \notin ClipOf(d, s)
      BY <2>1, <2>2, InClip
    <3> QED
      BY <1>1, <1>3, <3>1, <3>2, <3>3
  <2>3. CASE at # {}
    <3>1. PICK t : t = FirstOf(d, at)
      OBVIOUS
    <3>2. TopAt(d, c) = t
      BY <1>3, <2>1, <2>3, <3>1 DEF TopAt
    <3>3. t \in at /\ \A b \in at \ {t} : Over(d, t, b)
      <4>1. at \in SUBSET Listed(d)
        BY <1>1, <2>1
      <4> QED
        BY <2>3, <3>1, <4>1, FirstIn
    <3>4. t \in Shown(d) /\ t \in Listed(d) /\ c \in d.win[t].rc
      BY <1>1, <2>1, <3>3
    <3>5. ASSUME NEW a \in Shown(d), Over(d, a, t), c \in d.win[a].rc PROVE FALSE
      <4>1. a \in at /\ a \in Listed(d)
        BY <1>1, <2>1, <3>5
      <4>2. a # t
        BY <3>4, <3>5, OverIs
      <4>3. Over(d, t, a)
        BY <3>3, <4>1, <4>2
      <4>4. Over(d, a, a)
        BY <3>4, <3>5, <4>1, <4>3, OverIs
      <4> QED
        BY <4>1, <4>4, OverIs
    <3>6. c \in ClipOf(d, t)
      BY <1>3, <3>4, <3>5, InClip
    <3>7. ASSUME NEW s \in Shown(d) \cup {Desktop}, c \in ClipOf(d, s), s # t PROVE FALSE
      <4>1. Over(d, t, s)
        <5>1. CASE s = Desktop
          BY <3>4, <5>1, OverIs
        <5>2. CASE s \in Shown(d)
          <6>1. s \in at
            BY <2>1, <3>7, <5>2, InClip
          <6> QED
            BY <3>3, <3>7, <6>1
        <5> QED
          BY <5>1, <5>2
      <4> QED
        BY <3>4, <3>7, <4>1, InClip
    <3> QED
      BY <1>1, <1>3, <3>2, <3>4, <3>6, <3>7
  <2> QED
    BY <2>2, <2>3
<1> QED
  BY <1>2, <1>3

\* e differs from d in regions that the windows S do not remember any more,
\* and in what is told and painted.
Later(d, e, S) ==
  /\ SameNodes(d, e) /\ SameMenus(d, e) /\ e.active = d.active
  /\ FewerClips(d, e, S)

LEMMA UncoverFits ==
  ASSUME NEW d, Fits(d), NEW T \in SUBSET Used(d), NEW rc,
         NEW e, e = Uncover(d, T, rc)
  PROVE  Fits(e) /\ Later(d, e, T)
<1>1. Uncovered(d, T, rc, e)
  BY UncoverIs DEF Fits
<1>2. TableOK(e) /\ Used(e) = Used(d)
  BY <1>1, NodesKept DEF Fits, Uncovered
<1>3. e.told \subseteq Clients
  BY <1>1 DEF Fits, TableOK, NodesOK, Nodes, Processes, RestOK, Uncovered
<1>4. \A p \in e.paint : p[2] \in Screen
  BY <1>1 DEF Fits, RestOK, Uncovered
<1>5. /\ DOMAIN e.clip \subseteq Used(e)
      /\ \A s \in DOMAIN e.clip : e.clip[s] \subseteq Screen
  BY <1>1, <1>2 DEF Fits, RestOK, FewerClips, Uncovered
<1>6. Fits(e)
  BY <1>1, <1>2, <1>3, <1>4, <1>5 DEF Fits, RestOK, SameMenus, Uncovered
<1> QED
  BY <1>1, <1>6 DEF Later, Uncovered

LEMMA AgedFits ==
  ASSUME NEW d, Fits(d), NEW S, NEW e, e = Aged(d, S)
  PROVE  Fits(e) /\ Later(d, e, S)
<1>1. /\ DOMAIN e = Fields
      /\ SameNodes(d, e) /\ SameMenus(d, e)
      /\ SameDirty(d, e) /\ SameScreen(d, e)
      /\ e.active = d.active
      /\ FewerClips(d, e, S)
  BY AgedIs DEF Fits
<1>2. TableOK(e) /\ Used(e) = Used(d)
  BY <1>1, NodesKept DEF Fits
<1>3. RestOK(e)
  BY <1>1, <1>2 DEF Fits, RestOK, SameMenus, SameDirty, SameScreen, FewerClips
<1> QED
  BY <1>1, <1>2, <1>3 DEF Fits, Later

LEMMA PaintedFits ==
  ASSUME NEW d, Fits(d), NEW S, NEW cells, NEW e, e = Painted(d, S, cells)
  PROVE  Fits(e) /\ Later(d, e, {})
<1>1. /\ DOMAIN e = Fields
      /\ SameNodes(d, e) /\ SameMenus(d, e) /\ SameDirty(d, e)
      /\ e.active = d.active /\ e.clip = d.clip
      /\ e.stale = d.stale /\ e.lost = d.lost
      /\ e.paint = d.paint \cup (S \X (cells \cap Screen))
  BY PaintedIs DEF Fits
<1>2. TableOK(e) /\ Used(e) = Used(d)
  BY <1>1, NodesKept DEF Fits
<1>3. RestOK(e)
  BY <1>1, <1>2 DEF Fits, RestOK, SameMenus, SameDirty
<1> QED
  BY <1>1, <1>2, <1>3 DEF Fits, Later, FewerClips

LEMMA LaterTwice ==
  ASSUME NEW d, NEW e, NEW f, NEW S, NEW T, Later(d, e, S), Later(e, f, T)
  PROVE  Later(d, f, S \cup T)
  BY DEF Later, SameNodes, SameMenus, FewerClips

\* Sound, but for the windows S.
SoundBut(d, S) ==
  \A s \in DOMAIN d.clip \ S : s \in Shown(d) \cup {Desktop} => d.clip[s] = ClipOf(d, s)

LEMMA LaterSound ==
  ASSUME NEW d, NEW e, NEW S, SoundBut(d, S), Later(d, e, S)
  PROVE  Sound(e)
<1>1. Shown(e) = Shown(d)
  BY NodesKept DEF Later
<1>2. \A s : ClipOf(e, s) = ClipOf(d, s)
  BY SameTableClip DEF Later
<1> QED
  BY <1>1, <1>2 DEF Later, FewerClips, SoundBut, Sound

\* Whose the nodes are, and the menus.
Theirs(d, C) ==
  /\ \A s \in Listed(d) : d.win[s].cli \in C \cup {Server}
  /\ d.track \in C \cup {Server, NoClient}

OwnersOK(d, C) == d.active \in Used(d) /\ Theirs(d, C)

Good(d, C) == Fits(d) /\ Sound(d) /\ OwnersOK(d, C)

LEMMA LaterOwners ==
  ASSUME NEW d, NEW e, NEW S, NEW C, Later(d, e, S), OwnersOK(d, C)
  PROVE  OwnersOK(e, C)
  BY DEF Later, SameNodes, SameMenus, OwnersOK, Theirs, Used, Listed

\* The handler is done.
LEMMA DoneGood ==
  ASSUME NEW d, NEW C, Good(d, C), desk.stale \subseteq Screen, NEW e, e = Done(d)
  PROVE  /\ Good(e, C) /\ e.paint = {} /\ DOMAIN e.clip = Used(e)
         /\ \A s \in Shown(e) \cup {Desktop} : e.clip[s] = ClipOf(e, s)
<1>1. Finished(d, e)
  BY DoneIs DEF Good, Fits
<1>2. /\ Used(e) = Used(d) /\ Shown(e) = Shown(d) /\ Listed(e) = Listed(d) /\ TableOK(e)
      /\ e.win = d.win
  BY <1>1, NodesKept DEF Finished, Good, Fits, SameNodes
<1>3. \A s : ClipOf(e, s) = ClipOf(d, s)
  BY <1>1, SameTableClip DEF Finished
<1>4. \A s \in Shown(e) \cup {Desktop} : s \in Used(d) /\ d.win[s].visible
  BY <1>2 DEF Shown, Listed, Good, Fits, TableOK, NodesOK
<1>5. \A s \in Shown(e) \cup {Desktop} : e.clip[s] = ClipOf(e, s)
  <2> SUFFICES ASSUME NEW s \in Shown(e) \cup {Desktop} PROVE e.clip[s] = ClipOf(e, s)
    OBVIOUS
  <2>1. CASE s \in DOMAIN d.clip
    <3>1. e.clip[s] = d.clip[s]
      BY <1>1, <1>4, <2>1 DEF Finished
    <3>2. d.clip[s] = ClipOf(d, s)
      BY <1>2, <2>1 DEF Good, Sound
    <3> QED
      BY <1>3, <3>1, <3>2
  <2>2. CASE s \notin DOMAIN d.clip
    <3>1. e.clip[s] = ClipOf(d, s)
      BY <1>1, <1>4, <2>2 DEF Finished
    <3> QED
      BY <1>3, <3>1
  <2> QED
    BY <2>1, <2>2
<1>6. \A s \in Used(d) : e.clip[s] \subseteq Screen
  <2> SUFFICES ASSUME NEW s \in Used(d) PROVE e.clip[s] \subseteq Screen
    OBVIOUS
  <2>1. CASE ~d.win[s].visible
    BY <1>1, <2>1 DEF Finished
  <2>2. CASE d.win[s].visible
    <3>1. s \in Shown(e) \cup {Desktop}
      BY <1>2, <2>2 DEF Shown, Listed
    <3> QED
      BY <1>5, <3>1 DEF ClipOf
  <2> QED
    BY <2>1, <2>2
<1>7. e.stale \subseteq Screen
  BY <1>1 DEF Finished, Good, Fits, RestOK
<1>8. Fits(e)
  BY <1>1, <1>2, <1>6, <1>7 DEF Finished, SameMenus, SameDirty, Good, Fits, RestOK
<1>9. OwnersOK(e, C)
  BY <1>1, <1>2 DEF Finished, SameMenus, Good, OwnersOK, Theirs
<1> QED
  BY <1>1, <1>2, <1>5, <1>8, <1>9 DEF Finished, Good, Sound
-----------------------------------------------------------------------------
(* What the screen shows.                                                  *)

\* The owner of s draws the cell c in this step, will be sent it, or never is.
Told(d, s, c) ==
  \/ <<s, c>> \in d.paint \cup d.lost
  \/ s \in Slots /\ c \in d.dirty[s] /\ d.win[s].cli \in d.told

\* A cell that is drawn by somebody who looks at no region.
Others(d, c) == \E p \in d.paint : p[1] \notin Slots /\ p[2] = c

PartsOK(d) ==
  /\ d.dirty \in [Slots -> SUBSET Screen]
  /\ \A p \in d.paint : p = <<p[1], p[2]>>

\* On the way from the table o, whoever is on top of a cell that is wrong, or
\* will be, has been told.
Screened(o, d) ==
  /\ PartsOK(d)
  /\ \A c \in Screen :
       c \in o.stale \/ TopAt(d, c) # TopAt(o, c) \/ Others(d, c) => Told(d, TopAt(d, c), c)

\* Whoever has been told before is told still.
More(d, e) ==
  /\ d.paint \subseteq e.paint /\ d.lost \subseteq e.lost /\ d.told \subseteq e.told
  /\ \A s \in Slots : d.dirty[s] \subseteq e.dirty[s]
  /\ \A s \in Used(d) \cap Used(e) : e.win[s].cli = d.win[s].cli

LEMMA ScreenStep ==
  ASSUME NEW o, NEW d, NEW e, TableOK(d), TableOK(e), Screened(o, d), PartsOK(e), More(d, e),
         \A c \in Screen, i \in DOMAIN e.menus : c \in e.menus[i] =>
           \/ <<Menu, c>> \in e.paint
           \/ (\E j \in DOMAIN d.menus : c \in d.menus[j]) /\ (Others(e, c) => Others(d, c)),
         \A c \in Screen, s \in Shown(e) \cup {Desktop} : c \in ClipOf(e, s) =>
           \/ Told(e, s, c)
           \/ /\ s \in Shown(d) \cup {Desktop} /\ c \in ClipOf(d, s)
              /\ Others(e, c) => Others(d, c)
  PROVE  Screened(o, e)
<1> SUFFICES ASSUME NEW c \in Screen,
                    c \in o.stale \/ TopAt(e, c) # TopAt(o, c) \/ Others(e, c),
                    ~Told(e, TopAt(e, c), c)
             PROVE  FALSE
  BY DEF Screened
<1>1. TopAt(d, c) = TopAt(e, c) /\ (Others(e, c) => Others(d, c))
  <2>1. CASE TopAt(e, c) = Menu
    <3>1. \E i \in DOMAIN e.menus : c \in e.menus[i]
      BY <2>1, TopIs
    <3>2. <<Menu, c>> \notin e.paint
      BY <2>1 DEF Told
    <3> QED
      BY <2>1, <3>1, <3>2, TopIs
  <2>2. CASE TopAt(e, c) # Menu
    BY <2>2, TopIs
  <2> QED
    BY <2>1, <2>2
<1>2. Told(d, TopAt(d, c), c)
  BY <1>1 DEF Screened
<1>3. TopAt(e, c) \in Slots => TopAt(e, c) \in Used(d) \cap Used(e)
  <2>1. Menu \notin Slots
    BY SlotsFinite DEF Menu
  <2>2. /\ Shown(d) \cup {Desktop} \subseteq Used(d)
        /\ Shown(e) \cup {Desktop} \subseteq Used(e)
    BY DEF Shown, Listed, TableOK, NodesOK
  <2> QED
    BY <1>1, <2>1, <2>2, TopIs
<1> QED
  BY <1>1, <1>2, <1>3 DEF Told, More

LEMMA ScreenSame ==
  ASSUME NEW o, NEW d, NEW e, Screened(o, d), SameNodes(d, e), SameMenus(d, e), SameDirty(d, e),
         SameScreen(d, e)
  PROVE  Screened(o, e)
<1>1. \A c : TopAt(e, c) = TopAt(d, c)
  BY SameTop
<1> QED
  BY <1>1 DEF Screened, PartsOK, Told, Others, SameNodes, SameDirty, SameScreen

\* What is wrong when the handler is done.
LEMMA DoneLeaves ==
  ASSUME NEW d, DOMAIN d = Fields, NEW e, e = Done(d)
  PROVE  /\ \A c \in e.stale :
              /\ \/ c \in desk.stale
                 \/ c \in Screen /\ TopAt(d, c) # TopAt(desk, c)
                 \/ \E p \in d.paint : /\ p[2] = c
                                       /\ p[1] \in Slots => p[1] \in Used(d) /\ c \in e.clip[p[1]]
              /\ c \in Screen /\ <<TopAt(d, c), c>> \in d.paint =>
                   TopAt(d, c) \in Slots /\ ~(TopAt(d, c) \in Used(d) /\ c \in e.clip[TopAt(d, c)])
         /\ \A s, c : <<s, c>> \in d.lost /\ c \in e.stale /\ c \in Screen /\ TopAt(d, c) = s
                        => <<s, c>> \in e.lost
<1> DEFINE clip == [s \in Used(d) |->
                 CASE ~d.win[s].visible -> {}
                   [] d.win[s].visible /\ s \in DOMAIN d.clip -> d.clip[s]
                   [] OTHER -> ClipOf(d, s)]
           drawn == {p \in d.paint : p[1] \in Slots => p[1] \in Used(d) /\ p[2] \in clip[p[1]]}
           old == [c \in Screen |-> TopAt(desk, c)]
           top == [c \in Screen |-> TopAt(d, c)]
           wrong == desk.stale \cup {c \in Screen : top[c] # old[c]} \cup {p[2] : p \in drawn}
           stale == {c \in wrong : <<top[c], c>> \notin drawn}
           lost == {p \in d.lost : p[2] \in stale /\ top[p[2]] = p[1]}
<1>1. e = [d EXCEPT !.clip = clip, !.paint = {}, !.stale = stale, !.lost = lost]
  BY DEF Done
<1> HIDE DEF clip
<1>2. ASSUME NEW c \in stale
      PROVE  /\ \/ c \in desk.stale
                \/ c \in Screen /\ TopAt(d, c) # TopAt(desk, c)
                \/ \E p \in d.paint : /\ p[2] = c
                                      /\ p[1] \in Slots => p[1] \in Used(d) /\ c \in clip[p[1]]
             /\ c \in Screen /\ <<TopAt(d, c), c>> \in d.paint =>
                  TopAt(d, c) \in Slots /\ ~(TopAt(d, c) \in Used(d) /\ c \in clip[TopAt(d, c)])
  <2>1. c \in wrong /\ <<top[c], c>> \notin drawn
    OBVIOUS
  <2>2. c \in Screen => top[c] = TopAt(d, c) /\ old[c] = TopAt(desk, c)
    OBVIOUS
  <2>3. \/ c \in desk.stale
        \/ c \in Screen /\ TopAt(d, c) # TopAt(desk, c)
        \/ \E p \in drawn : p[2] = c
    BY <2>1, <2>2
  <2> HIDE DEF wrong, top, old, stale
  <2> QED
    BY <2>1, <2>2, <2>3
<1>3. \A s, c : <<s, c>> \in d.lost /\ c \in stale /\ c \in Screen /\ TopAt(d, c) = s
                  => <<s, c>> \in lost
  <2> HIDE DEF stale
  <2> QED
    OBVIOUS
<1> HIDE DEF stale, lost
<1>4. e.clip = clip /\ e.stale = stale /\ e.lost = lost
  BY <1>1 DEF Fields
<1> QED
  BY <1>2, <1>3, <1>4

LEMMA DoneScreen ==
  ASSUME NEW d, NEW C, Good(d, C), Screened(desk, d), desk.stale \subseteq Screen,
         NEW e, e = Done(d)
  PROVE  Screened(e, e)
<1>1. Finished(d, e) /\ Good(e, C) /\ \A s \in Shown(e) \cup {Desktop} : e.clip[s] = ClipOf(e, s)
  BY DoneIs, DoneGood DEF Good, Fits
<1>2. Used(e) = Used(d) /\ Shown(e) = Shown(d) /\ e.win = d.win /\ TableOK(d)
  BY <1>1, NodesKept DEF Finished, SameNodes, Good, Fits
<1>3. \A c : TopAt(e, c) = TopAt(d, c)
  BY <1>1, SameTop DEF Finished
<1>4. \A s : ClipOf(e, s) = ClipOf(d, s)
  BY <1>1, SameTableClip DEF Finished
<1>5. PartsOK(e)
  BY <1>1 DEF Finished, SameDirty, Screened, PartsOK
<1>6. ASSUME NEW p \in d.paint, p[1] \in Used(d), p[2] \in e.clip[p[1]], p[2] \in Screen
      PROVE  p[1] = TopAt(d, p[2])
  <2>1. d.win[p[1]].visible
    BY <1>1, <1>6 DEF Finished
  <2>2. p[1] \in Shown(d) \cup {Desktop}
    BY <1>6, <2>1 DEF Shown, Listed
  <2>3. p[2] \in ClipOf(d, p[1])
    BY <1>1, <1>2, <1>4, <1>6, <2>2
  <2> QED
    BY <1>2, <1>6, <2>2, <2>3, TopIs
<1>7. ASSUME NEW c \in Screen, c \in e.stale PROVE Told(e, TopAt(e, c), c)
  <2>1. PICK s : s = TopAt(d, c)
    OBVIOUS
  <2>2. ASSUME <<s, c>> \in d.paint PROVE FALSE
    <3>1. s \in Slots /\ ~(s \in Used(d) /\ c \in e.clip[s])
      BY <1>7, <2>1, <2>2, DoneLeaves DEF Good, Fits
    <3>2. s # Menu
      BY <3>1, SlotsFinite DEF Menu
    <3>3. s \in Shown(d) \cup {Desktop} /\ c \in ClipOf(d, s)
      BY <1>2, <2>1, <3>2, TopIs
    <3>4. s \in Used(d)
      BY <1>2, <3>3 DEF Shown, Listed, TableOK, NodesOK
    <3> QED
      BY <1>1, <1>2, <1>4, <3>1, <3>3, <3>4
  <2>3. c \in desk.stale \/ s # TopAt(desk, c) \/ Others(d, c)
    <3>1. ASSUME NEW p \in d.paint, p[2] = c,
                 p[1] \in Slots => p[1] \in Used(d) /\ c \in e.clip[p[1]], p[1] \in Slots
          PROVE  FALSE
      <4>1. p[1] = s
        BY <1>6, <2>1, <3>1
      <4>2. p = <<s, c>>
        BY <3>1, <4>1 DEF Screened, PartsOK
      <4> QED
        BY <2>2, <4>2
    <3>2. \/ c \in desk.stale
          \/ c \in Screen /\ TopAt(d, c) # TopAt(desk, c)
          \/ \E p \in d.paint : /\ p[2] = c
                                /\ p[1] \in Slots => p[1] \in Used(d) /\ c \in e.clip[p[1]]
      BY <1>7, DoneLeaves DEF Good, Fits
    <3> QED
      BY <2>1, <3>1, <3>2 DEF Others
  <2>4. Told(d, s, c)
    BY <2>1, <2>3 DEF Screened
  <2>5. <<s, c>> \in d.lost => <<s, c>> \in e.lost
    BY <1>7, <2>1, DoneLeaves DEF Good, Fits
  <2>6. e.dirty = d.dirty /\ e.told = d.told
    BY <1>1 DEF Finished, SameDirty
  <2> QED
    BY <1>2, <1>3, <2>1, <2>2, <2>4, <2>5, <2>6 DEF Told
<1>8. e.paint = {}
  BY <1>1 DEF Finished
<1> QED
  BY <1>5, <1>7, <1>8 DEF Screened, Others

\* What becomes visible is drawn at once.
LEMMA PaintScreen ==
  ASSUME NEW o, NEW d, NEW m, Screened(o, d), TableOK(d), TableOK(m), DOMAIN m = Fields,
         SameDirty(d, m), SameScreen(d, m),
         \A b \in Used(d) \cap Used(m) : m.win[b].cli = d.win[b].cli,
         NEW s \in Slots \cup {Menu}, NEW rc,
         s = Menu => \A x \in rc : \E i \in DOMAIN m.menus : x \in m.menus[i],
         \A c \in Screen, i \in DOMAIN m.menus : c \in m.menus[i] =>
           \/ s = Menu /\ c \in rc
           \/ \E j \in DOMAIN d.menus : c \in d.menus[j],
         \A c \in Screen, b \in Shown(m) \cup {Desktop} : c \in ClipOf(m, b) =>
           \/ b = s /\ c \in rc
           \/ b \in Shown(d) \cup {Desktop} /\ c \in ClipOf(d, b),
         NEW e, e = Painted(m, {s}, rc)
  PROVE  Screened(o, e)
<1>1. /\ SameNodes(m, e) /\ SameMenus(m, e) /\ SameDirty(m, e)
      /\ e.lost = m.lost /\ e.paint = m.paint \cup ({s} \X (rc \cap Screen))
  BY PaintedIs
<1>2. TableOK(e) /\ Used(e) = Used(m) /\ Shown(e) = Shown(m) /\ e.win = m.win /\ e.menus = m.menus
  BY <1>1, NodesKept DEF SameNodes, SameMenus
<1>3. \A b : ClipOf(e, b) = ClipOf(m, b)
  BY <1>1, SameTableClip
<1>4. e.paint = d.paint \cup ({s} \X (rc \cap Screen)) /\ e.lost = d.lost
      /\ e.dirty = d.dirty /\ e.told = d.told
  BY <1>1 DEF SameDirty, SameScreen
<1>5. PartsOK(e)
  BY <1>4 DEF Screened, PartsOK
<1>6. More(d, e)
  BY <1>2, <1>4 DEF More
<1>7. ASSUME NEW c \in Screen, Others(e, c), ~Others(d, c) PROVE s = Menu /\ c \in rc
  <2>1. PICK p \in e.paint : p[1] \notin Slots /\ p[2] = c
    BY <1>7 DEF Others
  <2>2. p \in {s} \X (rc \cap Screen)
    BY <1>4, <1>7, <2>1 DEF Others
  <2> QED
    BY <2>1, <2>2
<1>8. ASSUME NEW c \in Screen, NEW i \in DOMAIN e.menus, c \in e.menus[i]
      PROVE  \/ <<Menu, c>> \in e.paint
             \/ (\E j \in DOMAIN d.menus : c \in d.menus[j]) /\ (Others(e, c) => Others(d, c))
  BY <1>2, <1>4, <1>7, <1>8
<1>9. ASSUME NEW c \in Screen, NEW b \in Shown(e) \cup {Desktop}, c \in ClipOf(e, b)
      PROVE  \/ Told(e, b, c)
             \/ /\ b \in Shown(d) \cup {Desktop} /\ c \in ClipOf(d, b)
                /\ Others(e, c) => Others(d, c)
  <2>1. ~ \E i \in DOMAIN m.menus : c \in m.menus[i]
    BY <1>3, <1>9, InClip
  <2>2. CASE b = s /\ c \in rc
    BY <1>4, <2>2 DEF Told
  <2>3. CASE b \in Shown(d) \cup {Desktop} /\ c \in ClipOf(d, b)
    BY <1>7, <2>1, <2>3
  <2> QED
    BY <1>2, <1>3, <1>9, <2>2, <2>3
<1> QED
  BY <1>2, <1>5, <1>6, <1>8, <1>9, ScreenStep

LEMMA BoundOnScreen ==
  ASSUME NEW S \in SUBSET Screen
  PROVE  S \subseteq Bound(S) /\ Bound(S) \subseteq Screen
<1>1. Screen \subseteq Cells /\ Width \in Nat
  BY CellsFinite, BoundsAssumption
<1>2. S \in SUBSET Nat /\ IsFiniteSet(S)
  BY <1>1, CellsFinite
<1>3. Bound(S) \subseteq Screen
  <2>1. CASE S = {}
    BY <2>1 DEF Bound
  <2>2. CASE S # {}
    <3>1. First(S) \in 0 .. Width - 1 /\ Last(S) \in 0 .. Width - 1
      BY <1>2, <2>2, Ends DEF Screen
    <3>2. Bound(S) = First(S) .. Last(S)
      BY <2>2 DEF Bound
    <3> QED
      BY <1>1, <3>1, <3>2 DEF Screen
  <2> QED
    BY <2>1, <2>2
<1> QED
  BY <1>2, <1>3, BoundHolds

\* What goes from d to m lies in rc, and the windows that gain a cell are in T.
Uncovers(d, m, T, rc) ==
  /\ Shown(m) \subseteq Shown(d)
  /\ \A b \in Used(d) \cap Used(m) : m.win[b].cli = d.win[b].cli
  /\ \A i \in DOMAIN m.menus, c \in Screen :
       c \in m.menus[i] => \E j \in DOMAIN d.menus : c \in d.menus[j]
  /\ \A b \in Shown(m) \cup {Desktop} : ClipOf(m, b) \ rc \subseteq ClipOf(d, b)
  /\ \A b \in (Shown(m) \cup {Desktop}) \ T : ClipOf(m, b) = ClipOf(d, b)

LEMMA UncoversSound ==
  ASSUME NEW d, NEW m, NEW T, NEW rc, NEW S, Sound(d), Uncovers(d, m, T, rc), FewerClips(d, m, S)
  PROVE  SoundBut(m, T)
  BY DEF Sound, Uncovers, FewerClips, SoundBut

\* The owners of the windows touched are told, and nobody less than before.
LEMMA UncoverTells ==
  ASSUME NEW d, TableOK(d), PartsOK(d), DOMAIN d = Fields, NEW T \in SUBSET Used(d), NEW rc,
         NEW e, e = Uncover(d, T, rc)
  PROVE  /\ SameNodes(d, e) /\ SameMenus(d, e) /\ PartsOK(e) /\ More(d, e)
         /\ \A b \in T, c \in rc \cap Screen : Told(e, b, c)
         /\ \A c : Others(e, c) => Others(d, c)
<1>1. Uncovered(d, T, rc, e)
  BY UncoverIs
<1>2. Used(e) = Used(d) /\ e.win = d.win
  BY <1>1 DEF Uncovered, SameNodes, Used
<1>3. /\ e.lost = d.lost /\ d.told \subseteq e.told
      /\ \A b \in T : d.win[b].cli # Server => d.win[b].cli \in e.told
      /\ e.paint = d.paint \cup ({b \in T : d.win[b].cli = Server} \X (rc \cap Screen))
      /\ e.dirty = [b \in Slots |-> IF b \in T /\ d.win[b].cli # Server
                                    THEN Bound(d.dirty[b] \cup (rc \cap Screen)) ELSE d.dirty[b]]
  BY <1>1 DEF Uncovered
<1>4. d.dirty \in [Slots -> SUBSET Screen] /\ Used(d) \subseteq Slots
  BY DEF PartsOK, TableOK, NodesOK
<1>5. \A b \in Slots : /\ d.dirty[b] \cup (rc \cap Screen) \subseteq Bound(d.dirty[b] \cup (rc \cap Screen))
                       /\ Bound(d.dirty[b] \cup (rc \cap Screen)) \subseteq Screen
  BY <1>4, BoundOnScreen
<1>6. PartsOK(e)
  <2>1. e.dirty \in [Slots -> SUBSET Screen]
    BY <1>3, <1>4, <1>5
  <2> QED
    BY <1>3, <2>1 DEF PartsOK
<1>7. More(d, e)
  BY <1>2, <1>3, <1>4, <1>5 DEF More
<1>8. ASSUME NEW c, Others(e, c) PROVE Others(d, c)
  <2>1. PICK p \in e.paint : p[1] \notin Slots /\ p[2] = c
    BY <1>8 DEF Others
  <2>2. p \in d.paint
    BY <1>3, <1>4, <2>1
  <2> QED
    BY <2>1, <2>2 DEF Others
<1>9. ASSUME NEW b \in T, NEW c \in rc \cap Screen PROVE Told(e, b, c)
  <2>1. CASE d.win[b].cli = Server
    BY <1>3, <2>1 DEF Told
  <2>2. CASE d.win[b].cli # Server
    <3>1. b \in Slots /\ c \in e.dirty[b]
      BY <1>3, <1>4, <1>5, <2>2
    <3> QED
      BY <1>2, <1>3, <2>2, <3>1 DEF Told
  <2> QED
    BY <2>1, <2>2
<1> QED
  BY <1>1, <1>6, <1>7, <1>8, <1>9 DEF Uncovered

LEMMA UncoverScreen ==
  ASSUME NEW o, NEW d, NEW m, Screened(o, d), TableOK(d), TableOK(m), DOMAIN m = Fields,
         SameDirty(d, m), SameScreen(d, m),
         NEW T \in SUBSET Used(m), NEW rc, Uncovers(d, m, T, rc),
         NEW e, e = Uncover(m, T, rc)
  PROVE  Screened(o, e)
<1>1. PartsOK(m) /\ \A c : Others(m, c) => Others(d, c)
  BY DEF Screened, PartsOK, Others, SameDirty, SameScreen
<1>2. /\ SameNodes(m, e) /\ SameMenus(m, e) /\ PartsOK(e) /\ More(m, e)
      /\ \A b \in T, c \in rc \cap Screen : Told(e, b, c)
      /\ \A c : Others(e, c) => Others(d, c)
  BY <1>1, UncoverTells
<1>3. TableOK(e) /\ Used(e) = Used(m) /\ Shown(e) = Shown(m) /\ e.win = m.win /\ e.menus = m.menus
  BY <1>2, NodesKept DEF SameNodes, SameMenus
<1>4. \A b : ClipOf(e, b) = ClipOf(m, b)
  BY <1>2, SameTableClip
<1>5. More(d, e)
  BY <1>2, <1>3 DEF More, Uncovers, SameDirty, SameScreen
<1>6. ASSUME NEW c \in Screen, NEW i \in DOMAIN e.menus, c \in e.menus[i]
      PROVE  (\E j \in DOMAIN d.menus : c \in d.menus[j]) /\ (Others(e, c) => Others(d, c))
  BY <1>2, <1>3, <1>6 DEF Uncovers
<1>7. ASSUME NEW c \in Screen, NEW b \in Shown(e) \cup {Desktop}, c \in ClipOf(e, b), ~Told(e, b, c)
      PROVE  b \in Shown(d) \cup {Desktop} /\ c \in ClipOf(d, b) /\ (Others(e, c) => Others(d, c))
  <2>1. b \notin T \/ c \notin rc
    BY <1>2, <1>7
  <2>2. c \in ClipOf(m, b) /\ b \in Shown(m) \cup {Desktop}
    BY <1>3, <1>4, <1>7
  <2>3. c \in ClipOf(d, b) /\ b \in Shown(d) \cup {Desktop}
    BY <2>1, <2>2 DEF Uncovers
  <2> QED
    BY <1>2, <2>3
<1> QED
  BY <1>2, <1>3, <1>5, <1>6, <1>7, ScreenStep

\* What comes of an update.
LEMMA UpdatedIs ==
  ASSUME NEW d, DOMAIN d = Fields, NEW s \in Slots, NEW part,
         NEW e \in Updated(d, s, part)
  PROVE  /\ SameNodes(d, e) /\ SameMenus(d, e) /\ SameDirty(d, e)
         /\ d.lost \subseteq e.lost /\ d.paint \subseteq e.paint
         /\ \A p \in e.paint : p \in d.paint \/ p \in {s} \X (part \cap Screen)
         /\ \A c \in part \cap Screen : <<s, c>> \in e.paint \cup e.lost
<1>1. CASE e = Painted(d, {s}, part)
  <2>1. /\ SameNodes(d, e) /\ SameMenus(d, e) /\ SameDirty(d, e)
        /\ e.lost = d.lost /\ e.paint = d.paint \cup ({s} \X (part \cap Screen))
    BY <1>1, PaintedIs
  <2> QED
    BY <2>1
<1>2. CASE e = [d EXCEPT !.lost = @ \cup ({s} \X (part \cap Screen))]
  <2>1. /\ SameNodes(d, e) /\ SameMenus(d, e) /\ SameDirty(d, e)
        /\ e.paint = d.paint /\ e.lost = d.lost \cup ({s} \X (part \cap Screen))
    BY <1>2 DEF Fields, SameNodes, SameMenus, SameDirty
  <2> QED
    BY <2>1
<1> QED
  BY <1>1, <1>2 DEF Updated
-----------------------------------------------------------------------------
(* The popup menus.                                                        *)

MenuCells(d) == UNION {d.menus[i] : i \in DOMAIN d.menus}

LEMMA MenuCellsAre ==
  ASSUME NEW d, RestOK(d) PROVE MenuCells(d) \subseteq Cells
<1>1. \A i \in DOMAIN d.menus : d.menus[i] \in MenuRects
  BY DEF RestOK
<1>2. \A i \in DOMAIN d.menus : d.menus[i] \subseteq Cells
  BY <1>1, CellsFinite
<1> QED
  BY <1>2 DEF MenuCells

\* Only menus and what is tracked differ.
WithMenus(d, menus, track) == [d EXCEPT !.menus = menus, !.track = track]

LEMMA MenusFit ==
  ASSUME NEW d, Fits(d), NEW menus \in Seq(MenuRects), Len(menus) <= MaxMenus,
         NEW track \in Processes \cup {NoClient}, menus = <<>> <=> track = NoClient,
         NEW e, e = WithMenus(d, menus, track)
  PROVE  /\ Fits(e) /\ SameNodes(d, e) /\ SameDirty(d, e) /\ SameScreen(d, e)
         /\ e.menus = menus /\ e.track = track
         /\ e.active = d.active /\ e.clip = d.clip
<1>0. DOMAIN d = Fields
  BY DEF Fits
<1>1. /\ DOMAIN e = Fields /\ SameNodes(d, e) /\ SameDirty(d, e) /\ SameScreen(d, e)
      /\ e.menus = menus /\ e.track = track
      /\ e.active = d.active /\ e.clip = d.clip
  BY <1>0 DEF WithMenus, Fields, SameNodes, SameDirty, SameScreen
<1>2. TableOK(e) /\ Used(e) = Used(d)
  BY <1>1, NodesKept DEF Fits
<1>3. RestOK(e)
  BY <1>1, <1>2 DEF Fits, RestOK, SameDirty, SameScreen
<1> QED
  BY <1>1, <1>2, <1>3 DEF Fits

\* A menu that goes uncovers windows whose regions are not read again.
LEMMA ForceFits ==
  ASSUME NEW d, Fits(d), Sound(d), NEW e, e = ForceCloseMenu(d)
  PROVE  /\ Fits(e) /\ Sound(e) /\ SameNodes(d, e) /\ e.active = d.active
         /\ e.menus = <<>> /\ e.track = NoClient
         /\ \A o : Screened(o, d) => Screened(o, e)
<1>1. CASE d.menus = <<>>
  <2>1. e = d
    BY <1>1 DEF ForceCloseMenu
  <2> QED
    BY <1>1, <2>1 DEF Fits, RestOK, SameNodes
<1>2. CASE d.menus # <<>>
  <2>1. PICK rc : rc = BoundFromOrigin(MenuCells(d))
    OBVIOUS
  <2>2. PICK T : T = Touched(d, rc, Listed(d))
    OBVIOUS
  <2>3. PICK m : m = [d EXCEPT !.menus = <<>>, !.track = NoClient]
    OBVIOUS
  <2>4. e = Uncover(m, T, rc)
    BY <1>2, <2>1, <2>2, <2>3 DEF ForceCloseMenu, MenuCells
  <2>5. /\ Fits(m) /\ SameNodes(d, m) /\ m.menus = <<>> /\ m.track = NoClient
        /\ m.active = d.active /\ m.clip = d.clip /\ SameDirty(d, m) /\ SameScreen(d, m)
    <3>1. <<>> \in Seq(MenuRects) /\ Len(<<>>) <= MaxMenus
      BY BoundsAssumption
    <3>2. m = WithMenus(d, <<>>, NoClient) /\ Fits(d)
      BY <2>3 DEF WithMenus
    <3>3. NoClient \in Processes \cup {NoClient}
      OBVIOUS
    <3>4. <<>> = <<>> <=> NoClient = NoClient
      OBVIOUS
    <3>5. Fits(m)
      BY <3>1, <3>2, <3>3, <3>4, MenusFit
    <3>6. DOMAIN d = Fields
      BY DEF Fits
    <3>7. /\ SameNodes(d, m) /\ m.menus = <<>> /\ m.track = NoClient
          /\ m.active = d.active /\ m.clip = d.clip /\ SameDirty(d, m) /\ SameScreen(d, m)
      BY <2>3, <3>6 DEF Fields, SameNodes, SameDirty, SameScreen
    <3> QED
      BY <3>5, <3>7
  <2>6. Used(m) = Used(d) /\ Shown(m) = Shown(d) /\ m.win = d.win
    BY <2>5, NodesKept DEF SameNodes
  <2>7. T \in SUBSET Used(m)
    <3>1. Desktop \in Used(d)
      BY DEF Fits, TableOK, NodesOK
    <3> QED
      BY <2>2, <2>6, <3>1, TouchedIn DEF Shown, Listed
  <2>8. Uncovers(d, m, T, rc)
    <3>1. \A i \in DOMAIN m.menus : FALSE
      BY <2>5
    <3>2. \A a, s : Over(m, a, s) <=> Over(d, a, s)
      BY <2>5, NodesKept
    <3>3. \A i \in DOMAIN d.menus : \A x \in d.menus[i] : x \in rc /\ x \in Nat
      <4>1. \A i \in DOMAIN d.menus : \A x \in d.menus[i] : x \in MenuCells(d)
        BY DEF MenuCells
      <4>2. MenuCells(d) \subseteq Cells
        BY MenuCellsAre DEF Fits
      <4> QED
        BY <2>1, <4>1, <4>2, FromOrigin, CellsFinite
    <3>4. ASSUME NEW s \in Shown(d) \cup {Desktop} PROVE ClipOf(m, s) \ rc \subseteq ClipOf(d, s)
      BY <2>6, <3>2, <3>3, InClip
    <3>5. ASSUME NEW s \in (Shown(d) \cup {Desktop}) \ T PROVE ClipOf(m, s) = ClipOf(d, s)
      <4>1. ASSUME NEW i \in DOMAIN d.menus, NEW x \in d.menus[i], x \in d.win[s].rc
            PROVE  \E a \in Shown(d) : Over(d, a, s) /\ x \in d.win[a].rc
        <5>1. Listed(d) \cap Shown(d) = Shown(d)
          BY DEF Shown
        <5> QED
          BY <2>2, <3>3, <4>1, <5>1, TouchedHas
      <4> QED
        BY <2>6, <3>1, <3>2, <4>1, SameClip
    <3> QED
      BY <2>6, <3>1, <3>4, <3>5 DEF Uncovers
  <2>9. Fits(e) /\ Later(m, e, T)
    BY <2>4, <2>5, <2>7, UncoverFits
  <2>10. Sound(e)
    <3>1. FewerClips(d, m, {})
      BY <2>5 DEF FewerClips
    <3> QED
      BY <2>8, <2>9, <3>1, UncoversSound, LaterSound
  <2>11. \A o : Screened(o, d) => Screened(o, e)
    BY <2>4, <2>5, <2>7, <2>8, UncoverScreen DEF Fits
  <2> QED
    BY <2>5, <2>9, <2>10, <2>11 DEF Later, SameNodes, SameMenus
<1> QED
  BY <1>1, <1>2

LEMMA ForceGood ==
  ASSUME NEW d, NEW C, Good(d, C), NEW e, e = ForceCloseMenu(d)
  PROVE  /\ Good(e, C) /\ SameNodes(d, e) /\ e.active = d.active
         /\ e.menus = <<>> /\ e.track = NoClient
         /\ \A o : Screened(o, d) => Screened(o, e)
<1>1. /\ Fits(e) /\ Sound(e) /\ SameNodes(d, e) /\ e.active = d.active
      /\ e.menus = <<>> /\ e.track = NoClient
      /\ \A o : Screened(o, d) => Screened(o, e)
  BY ForceFits DEF Good
<1>2. OwnersOK(e, C)
  BY <1>1, NodesKept DEF Good, OwnersOK, Theirs, SameNodes
<1> QED
  BY <1>1, <1>2 DEF Good

\* The state between two steps.
Inv ==
  /\ Good(desk, clients) /\ clients \subseteq Clients
  /\ desk.paint = {} /\ DOMAIN desk.clip = Used(desk)
  /\ Screened(desk, desk)

\* A handler that ends with Done keeps it.
LEMMA DoneKeeps ==
  ASSUME NEW d, Inv, Good(d, clients'), Screened(desk, d), clients' \subseteq Clients,
         desk' = Done(d)
  PROVE  Inv'
<1>1. desk.stale \subseteq Screen
  BY DEF Inv, Good, Fits, RestOK
<1>2. PICK e : e = Done(d)
  OBVIOUS
<1>3. PICK C : C = clients'
  OBVIOUS
<1>4. Good(e, C) /\ e.paint = {} /\ DOMAIN e.clip = Used(e)
  BY <1>1, <1>2, <1>3, DoneGood
<1>5. desk' = e
  BY <1>2
<1>6. Screened(e, e)
  BY <1>1, <1>2, DoneScreen
<1>7. Screened(desk', desk')
  BY <1>5, <1>6
<1> QED
  BY <1>3, <1>4, <1>5, <1>7 DEF Inv, Good, Fits, TableOK, NodesOK, CountsOK, OrderOK, RestOK, Sound

\* Regions stay true when windows whose region changes remember none.
LEMMA ClipsStay ==
  ASSUME NEW d, NEW e, NEW S, Sound(d), FewerClips(d, e, S),
         \A s \in DOMAIN d.clip \ S :
           s \in Shown(e) \cup {Desktop}
             => s \in Shown(d) \cup {Desktop} /\ ClipOf(e, s) = ClipOf(d, s)
  PROVE  Sound(e)
  BY DEF Sound, FewerClips

LEMMA CloseMenuKeeps ==
  ASSUME Inv, CloseMenu PROVE Inv'
<1>1. PICK e : e = ForceCloseMenu(desk)
  OBVIOUS
<1>2. desk' = Done(e) /\ clients' = clients
  BY <1>1 DEF CloseMenu
<1>3. Good(e, clients) /\ Screened(desk, e)
  BY <1>1, ForceGood DEF Inv
<1> QED
  BY <1>2, <1>3, DoneKeeps DEF Inv

LEMMA ActiveGood ==
  ASSUME NEW d, NEW C, Fits(d), Sound(d), Theirs(d, C), NEW s \in Used(d), NEW e, e = SetActive(d, s)
  PROVE  Good(e, C) /\ e.active = s /\ \A o : Screened(o, d) => Screened(o, e)
<1>1. PICK f : f = ForceCloseMenu(d)
  OBVIOUS
<1>2. /\ Fits(f) /\ Sound(f) /\ SameNodes(d, f) /\ f.track = NoClient
      /\ \A o : Screened(o, d) => Screened(o, f)
  BY <1>1, ForceFits
<1>3. e = [f EXCEPT !.active = s] /\ DOMAIN f = Fields
  BY <1>1, <1>2 DEF SetActive, Fits
<1>4. /\ DOMAIN e = Fields /\ e.active = s
      /\ SameNodes(f, e) /\ SameMenus(f, e) /\ SameDirty(f, e) /\ SameScreen(f, e)
      /\ e.clip = f.clip
  BY <1>3 DEF Fields, SameNodes, SameMenus, SameDirty, SameScreen
<1>5. /\ Used(e) = Used(f) /\ Listed(e) = Listed(f) /\ Shown(e) = Shown(f)
      /\ TableOK(e) /\ Used(f) = Used(d)
  BY <1>2, <1>4, NodesKept DEF Fits
<1>6. RestOK(e)
  BY <1>2, <1>4, <1>5 DEF Fits, RestOK, SameMenus, SameDirty, SameScreen
<1>7. Sound(e)
  <2>1. \A s1 : ClipOf(e, s1) = ClipOf(f, s1)
    BY <1>4, SameTableClip
  <2> QED
    BY <1>2, <1>4, <1>5, <2>1 DEF Sound
<1>8. OwnersOK(e, C)
  BY <1>2, <1>4, <1>5 DEF OwnersOK, Theirs, Listed, SameMenus, SameNodes
<1>9. \A o : Screened(o, d) => Screened(o, e)
  BY <1>2, <1>4, ScreenSame
<1> QED
  BY <1>4, <1>5, <1>6, <1>7, <1>8, <1>9 DEF Good, Fits

LEMMA SetActiveKeeps ==
  ASSUME Inv, NEW s \in Slots, SetActiveWindow(s) PROVE Inv'
<1>1. PICK e : e = SetActive(desk, s)
  OBVIOUS
<1>2. desk' = Done(e) /\ clients' = clients
  BY <1>1 DEF SetActiveWindow
<1>3. s \in Used(desk)
  BY DEF SetActiveWindow, Owned, Listed, Inv, Good, Fits, TableOK, NodesOK
<1>4. Good(e, clients) /\ Screened(desk, e)
  BY <1>1, <1>3, ActiveGood DEF Inv, Good, OwnersOK
<1> QED
  BY <1>2, <1>4, DoneKeeps DEF Inv

LEMMA StartTrackKeeps ==
  ASSUME Inv, NEW c \in Processes, NEW rc \in MenuRects, StartTrackPopupMenu(c, rc)
  PROVE  Inv'
<1>1. PICK d : d = IF desk.track \in {NoClient, c} THEN desk ELSE ForceCloseMenu(desk)
  OBVIOUS
<1>2. PICK under : under = Overlapped(d, rc, Listed(d))
  OBVIOUS
<1>3. PICK a : a = Aged(d, under)
  OBVIOUS
<1>4. PICK b : b = [a EXCEPT !.menus = Append(@, rc), !.track = c]
  OBVIOUS
<1>5. PICK e : e = Painted(b, {Menu}, rc)
  OBVIOUS
<1>6. /\ desk' = Done(e) /\ clients' = clients
      /\ c \in clients \cup {Server} /\ Len(d.menus) < MaxMenus
  BY <1>1, <1>2, <1>3, <1>4, <1>5 DEF StartTrackPopupMenu
<1>7. Good(d, clients) /\ Screened(desk, d)
  <2>1. Good(ForceCloseMenu(desk), clients) /\ Screened(desk, ForceCloseMenu(desk))
    BY ForceGood DEF Inv
  <2> QED
    BY <1>1, <2>1 DEF Inv
<1>8. /\ Fits(a) /\ Later(d, a, under) /\ a.menus = d.menus /\ a.track = d.track
      /\ SameDirty(d, a) /\ SameScreen(d, a)
  BY <1>3, <1>7, AgedFits, AgedIs DEF Good, Fits, Later, SameMenus
<1>9. PICK menus : menus = Append(a.menus, rc)
  OBVIOUS
<1>10. b = WithMenus(a, menus, c)
  BY <1>4, <1>9 DEF WithMenus
<1>11. /\ menus \in Seq(MenuRects) /\ menus # <<>> /\ Len(menus) <= MaxMenus
       /\ \A x : (\E i \in DOMAIN menus : x \in menus[i])
                   <=> x \in rc \/ (\E i \in DOMAIN d.menus : x \in d.menus[i])
  <2>1. d.menus \in Seq(MenuRects) /\ Len(d.menus) \in Nat /\ MaxMenus \in Nat
    BY <1>7, BoundsAssumption DEF Good, Fits, RestOK
  <2>2. /\ menus \in Seq(MenuRects) /\ Len(menus) = Len(d.menus) + 1
        /\ menus[Len(d.menus) + 1] = rc
        /\ DOMAIN menus = 1 .. Len(d.menus) + 1 /\ DOMAIN d.menus = 1 .. Len(d.menus)
        /\ \A i \in 1 .. Len(d.menus) : menus[i] = d.menus[i]
    BY <1>8, <1>9, <2>1
  <2>3. Len(menus) <= MaxMenus /\ menus # <<>>
    BY <1>6, <2>1, <2>2
  <2>4. ASSUME NEW x
        PROVE  (\E i \in DOMAIN menus : x \in menus[i])
                 <=> x \in rc \/ (\E i \in DOMAIN d.menus : x \in d.menus[i])
    <3>1. \A i \in DOMAIN menus : i = Len(d.menus) + 1 \/ i \in DOMAIN d.menus
      BY <2>1, <2>2
    <3>2. Len(d.menus) + 1 \in DOMAIN menus /\ DOMAIN d.menus \subseteq DOMAIN menus
      BY <2>1, <2>2
    <3> QED
      BY <2>2, <3>1, <3>2
  <2> QED
    BY <2>2, <2>3, <2>4
<1>12. c # NoClient
  BY ClientsAssumption DEF Processes, NoClient
<1>13. Fits(b)
  BY <1>8, <1>10, <1>11, <1>12, MenusFit
<1>14. /\ SameNodes(a, b) /\ b.clip = a.clip /\ b.menus = menus /\ b.track = c
       /\ b.active = a.active /\ SameDirty(a, b) /\ SameScreen(a, b)
  <2>1. DOMAIN a = Fields
    BY <1>8 DEF Fits
  <2> QED
    BY <1>4, <1>9, <2>1 DEF Fields, SameNodes, SameDirty, SameScreen
<1>15. SameNodes(d, b) /\ FewerClips(d, b, under) /\ b.active = d.active
  BY <1>8, <1>14 DEF Later, SameNodes, FewerClips
<1>16. Used(b) = Used(d) /\ Listed(b) = Listed(d) /\ Shown(b) = Shown(d) /\ b.win = d.win
  BY <1>15, NodesKept DEF SameNodes
<1>17. Sound(b)
  <2>1. ASSUME NEW s \in DOMAIN d.clip \ under, s \in Shown(b) \cup {Desktop}
        PROVE  ClipOf(b, s) = ClipOf(d, s)
    <3>1. \A x : ~(x \in rc /\ x \in d.win[s].rc)
      BY <1>2, <1>16, <2>1 DEF Overlapped, Shown
    <3>2. \A x : Over(b, x, s) <=> Over(d, x, s)
      BY <1>15, NodesKept
    <3> QED
      BY <1>11, <1>14, <1>16, <3>1, <3>2, SameClip
  <2> QED
    BY <1>7, <1>15, <1>16, <2>1, ClipsStay DEF Good
<1>18. OwnersOK(b, clients)
  BY <1>6, <1>7, <1>14, <1>15, <1>16 DEF Good, OwnersOK, Theirs
<1>19. Good(e, clients)
  <2>1. Fits(e) /\ Later(b, e, {})
    BY <1>5, <1>13, PaintedFits
  <2> QED
    BY <1>17, <1>18, <2>1, LaterSound, LaterOwners DEF Good, Sound, SoundBut
<1>20. Screened(desk, e)
  <2>1. SameDirty(d, b) /\ SameScreen(d, b) /\ TableOK(d) /\ TableOK(b) /\ DOMAIN b = Fields
    BY <1>7, <1>8, <1>13, <1>14 DEF SameDirty, SameScreen, Good, Fits
  <2>2. \A x \in rc : \E i \in DOMAIN b.menus : x \in b.menus[i]
    BY <1>11, <1>14
  <2>3. \A x \in Screen, i \in DOMAIN b.menus : x \in b.menus[i] =>
          x \in rc \/ \E j \in DOMAIN d.menus : x \in d.menus[j]
    BY <1>11, <1>14
  <2>4. \A x \in Screen, s \in Shown(b) \cup {Desktop} : x \in ClipOf(b, s) =>
          s \in Shown(d) \cup {Desktop} /\ x \in ClipOf(d, s)
    <3>1. \A p, q : Over(b, p, q) <=> Over(d, p, q)
      BY <1>15, NodesKept
    <3> QED
      BY <1>11, <1>14, <1>16, <3>1, InClip
  <2> QED
    BY <1>5, <1>7, <1>16, <2>1, <2>2, <2>3, <2>4, PaintScreen
<1> QED
  BY <1>6, <1>19, <1>20, DoneKeeps DEF Inv

LEMMA EndTrackKeeps ==
  ASSUME Inv, NEW c \in Processes, EndTrackPopupMenu(c)
  PROVE  Inv'
<1>1. PICK n : n = Len(desk.menus)
  OBVIOUS
<1>2. PICK rc : rc = desk.menus[n]
  OBVIOUS
<1>3. PICK T : T = Touched(desk, rc, Listed(desk))
  OBVIOUS
<1>4. PICK menus : menus = SubSeq(desk.menus, 1, n - 1)
  OBVIOUS
<1>5. PICK track : track = IF n = 1 THEN NoClient ELSE desk.track
  OBVIOUS
<1>6. PICK m : m = WithMenus(desk, menus, track)
  OBVIOUS
<1>7. PICK e : e = Uncover(m, T, rc)
  OBVIOUS
<1>8. desk' = Done(e) /\ clients' = clients /\ desk.track = c
  <2>1. m = [desk EXCEPT !.menus = SubSeq(@, 1, n - 1),
                         !.track = IF n = 1 THEN NoClient ELSE @]
    BY <1>4, <1>5, <1>6 DEF WithMenus
  <2> QED
    BY <1>1, <1>2, <1>3, <1>7, <2>1 DEF EndTrackPopupMenu
<1>9. Fits(desk) /\ Sound(desk) /\ OwnersOK(desk, clients)
  BY DEF Inv, Good
<1>10. /\ desk.menus \in Seq(MenuRects) /\ n \in Nat \ {0}
       /\ Len(desk.menus) <= MaxMenus /\ DOMAIN desk.menus = 1 .. n
  <2>1. c # NoClient
    BY ClientsAssumption DEF Processes, NoClient
  <2> QED
    BY <1>1, <1>8, <1>9, <2>1 DEF Fits, RestOK
<1>11. /\ menus \in Seq(MenuRects) /\ Len(menus) = n - 1 /\ DOMAIN menus = 1 .. n - 1
       /\ \A i \in 1 .. n - 1 : menus[i] = desk.menus[i]
  BY <1>1, <1>4, <1>10
<1>12. Len(menus) <= MaxMenus /\ (menus = <<>> <=> track = NoClient)
       /\ track \in Processes \cup {NoClient}
  <2>1. c # NoClient
    BY ClientsAssumption DEF Processes, NoClient
  <2>2. Len(menus) <= MaxMenus
    BY <1>1, <1>10, <1>11, BoundsAssumption
  <2>3. menus = <<>> <=> n = 1
    BY <1>10, <1>11
  <2> QED
    BY <1>5, <1>8, <2>1, <2>2, <2>3
<1>13. Fits(m)
  BY <1>6, <1>9, <1>11, <1>12, MenusFit
<1>14. /\ SameNodes(desk, m) /\ m.menus = menus /\ m.track = track
       /\ m.active = desk.active /\ m.clip = desk.clip
       /\ SameDirty(desk, m) /\ SameScreen(desk, m)
  <2>1. DOMAIN desk = Fields
    BY <1>9 DEF Fits
  <2> QED
    BY <1>6, <2>1 DEF Fields, SameNodes, SameDirty, SameScreen, WithMenus
<1>15. /\ Used(m) = Used(desk) /\ Listed(m) = Listed(desk) /\ Shown(m) = Shown(desk)
       /\ m.win = desk.win
  BY <1>14, NodesKept DEF SameNodes
<1>16. T \in SUBSET Used(m)
  BY <1>3, <1>9, <1>15, TouchedIn DEF Shown, Listed, Fits, TableOK, NodesOK
<1>17. Uncovers(desk, m, T, rc)
  <2>1. \A x : (\E i \in DOMAIN desk.menus : x \in desk.menus[i])
                 <=> x \in rc \/ (\E i \in DOMAIN menus : x \in menus[i])
    <3>1. n \in DOMAIN desk.menus /\ DOMAIN menus \subseteq DOMAIN desk.menus
      BY <1>10, <1>11
    <3>2. \A i \in DOMAIN desk.menus : i = n \/ i \in DOMAIN menus
      BY <1>10, <1>11
    <3> QED
      BY <1>2, <1>11, <3>1, <3>2
  <2>2. \A a, s : Over(m, a, s) <=> Over(desk, a, s)
    BY <1>14, NodesKept
  <2>3. ASSUME NEW s \in Shown(desk) \cup {Desktop} PROVE ClipOf(m, s) \ rc \subseteq ClipOf(desk, s)
    BY <1>14, <1>15, <2>1, <2>2, InClip
  <2>4. ASSUME NEW s \in (Shown(desk) \cup {Desktop}) \ T PROVE ClipOf(m, s) = ClipOf(desk, s)
    <3>1. ASSUME NEW x \in Screen, x \in rc, x \in desk.win[s].rc
          PROVE  \E a \in Shown(desk) : Over(desk, a, s) /\ x \in desk.win[a].rc
      <4>1. Listed(desk) \cap Shown(desk) = Shown(desk)
        BY DEF Shown
      <4>2. x \in Nat
        BY BoundsAssumption DEF Screen
      <4> QED
        BY <1>3, <3>1, <4>1, <4>2, TouchedHas
    <3> QED
      BY <1>14, <1>15, <2>1, <2>2, <3>1, SameClip
  <2> QED
    BY <1>14, <1>15, <2>1, <2>3, <2>4 DEF Uncovers
<1>18. Fits(e) /\ Later(m, e, T) /\ Sound(e)
  <2>1. Fits(e) /\ Later(m, e, T)
    BY <1>7, <1>13, <1>16, UncoverFits
  <2>2. FewerClips(desk, m, {})
    BY <1>14 DEF FewerClips
  <2> QED
    BY <1>9, <1>17, <2>1, <2>2, UncoversSound, LaterSound
<1>19. OwnersOK(m, clients)
  BY <1>5, <1>9, <1>14, <1>15 DEF OwnersOK, Theirs
<1>20. Good(e, clients)
  BY <1>18, <1>19, LaterOwners DEF Good
<1>21. Screened(desk, e)
  BY <1>7, <1>9, <1>13, <1>14, <1>16, <1>17, UncoverScreen DEF Fits, Inv
<1> QED
  BY <1>8, <1>20, <1>21, DoneKeeps DEF Inv

LEMMA IamLiveKeeps ==
  ASSUME Inv, NEW c \in Clients, IamLive(c) PROVE Inv'
<1> DEFINE mine == {s \in Shown(desk) : desk.win[s].cli = c /\ desk.dirty[s] # {}}
           told == desk.told \ {c}
           dirty == [s \in Slots |-> IF s \in mine THEN {} ELSE desk.dirty[s]]
           paint == {p \in mine \X Screen : p[2] \in desk.dirty[p[1]]}
<1>1. PICK e : e = [desk EXCEPT !.told = told, !.dirty = dirty, !.paint = paint]
  OBVIOUS
<1>2. desk' = Done(e) /\ clients' = clients
  BY <1>1 DEF IamLive
<1>3. told \subseteq desk.told /\ \A p \in paint : p[2] \in Screen
  OBVIOUS
<1> HIDE DEF told, dirty, paint
<1>4. Fits(desk) /\ Sound(desk) /\ OwnersOK(desk, clients) /\ DOMAIN desk = Fields
  BY DEF Inv, Good, Fits
<1>5. /\ DOMAIN e = Fields /\ SameNodes(desk, e) /\ SameMenus(desk, e)
      /\ e.active = desk.active /\ e.clip = desk.clip /\ e.stale = desk.stale
      /\ e.lost = desk.lost /\ e.told = told /\ e.paint = paint
  BY <1>1, <1>4 DEF Fields, SameNodes, SameMenus
<1>6. Used(e) = Used(desk) /\ Shown(e) = Shown(desk) /\ TableOK(e)
  BY <1>4, <1>5, NodesKept DEF Fits
<1>7. RestOK(e)
  BY <1>3, <1>4, <1>5, <1>6 DEF Fits, RestOK, SameMenus
<1>8. Later(desk, e, {}) /\ SoundBut(desk, {})
  BY <1>4, <1>5 DEF Later, FewerClips, Sound, SoundBut
<1>9. Good(e, clients)
  BY <1>4, <1>5, <1>6, <1>7, <1>8, LaterSound, LaterOwners DEF Good, Fits
<1>10. Screened(desk, e)
  <2>1. Screened(desk, desk) /\ desk.paint = {} /\ e.win = desk.win /\ e.dirty = dirty
        /\ \A x : TopAt(e, x) = TopAt(desk, x)
    BY <1>1, <1>4, <1>5, SameTop DEF Inv, SameNodes, Fields
  <2>2. mine \subseteq Slots
    BY <1>4 DEF Shown, Listed, Fits, TableOK, NodesOK
  <2>3. PartsOK(e)
    <3>1. e.dirty \in [Slots -> SUBSET Screen]
      BY <2>1 DEF Screened, PartsOK, dirty
    <3>2. \A p \in e.paint : p = <<p[1], p[2]>>
      BY <1>5 DEF paint
    <3> QED
      BY <3>1, <3>2 DEF PartsOK
  <2>4. \A x : ~Others(e, x)
    BY <1>5, <2>2 DEF Others, paint
  <2>5. ASSUME NEW x \in Screen, x \in desk.stale PROVE Told(e, TopAt(desk, x), x)
    <3>1. PICK s : s = TopAt(desk, x)
      OBVIOUS
    <3>2. Told(desk, s, x)
      BY <2>1, <2>5, <3>1 DEF Screened
    <3>3. CASE <<s, x>> \in desk.lost
      BY <1>5, <3>1, <3>3 DEF Told
    <3>4. CASE s \in Slots /\ x \in desk.dirty[s] /\ desk.win[s].cli \in desk.told
      <4>1. desk.win[s].cli # Server
        BY <1>4, <3>4, ClientsAssumption DEF Fits, RestOK
      <4>2. s \in Shown(desk)
        <5>1. s # Menu
          BY <3>4, SlotsFinite DEF Menu
        <5>2. desk.win[Desktop].cli = Server /\ TableOK(desk)
          BY <1>4 DEF Fits, TableOK, NodesOK
        <5> QED
          BY <2>5, <3>1, <4>1, <5>1, <5>2, TopIs
      <4>3. CASE desk.win[s].cli = c
        <5>1. s \in mine
          BY <3>4, <4>2, <4>3
        <5>2. <<s, x>> \in e.paint
          BY <1>5, <2>5, <3>4, <5>1 DEF paint
        <5> QED
          BY <3>1, <5>2 DEF Told
      <4>4. CASE desk.win[s].cli # c
        <5>1. x \in e.dirty[s] /\ e.win[s].cli \in e.told
          BY <1>5, <2>1, <3>4, <4>4 DEF dirty, told
        <5> QED
          BY <3>1, <3>4, <5>1 DEF Told
      <4> QED
        BY <4>3, <4>4
    <3> QED
      BY <2>1, <3>2, <3>3, <3>4 DEF Told
  <2> QED
    BY <2>1, <2>3, <2>4, <2>5 DEF Screened
<1> QED
  BY <1>2, <1>9, <1>10, DoneKeeps DEF Inv

LEMMA ConnectKeeps ==
  ASSUME Inv, NEW c \in Clients, Connect(c) PROVE Inv'
<1>1. PICK e : e = [desk EXCEPT !.told = @ \ {c}]
  OBVIOUS
<1>2. PICK C : C = clients \cup {c}
  OBVIOUS
<1>3. desk' = e /\ clients' = C
  BY <1>1, <1>2 DEF Connect
<1>4. Fits(desk) /\ Sound(desk) /\ OwnersOK(desk, clients) /\ DOMAIN desk = Fields
  BY DEF Inv, Good, Fits
<1>5. /\ DOMAIN e = Fields /\ SameNodes(desk, e) /\ SameMenus(desk, e) /\ SameScreen(desk, e)
      /\ e.active = desk.active /\ e.clip = desk.clip /\ e.told \subseteq desk.told
  BY <1>1, <1>4 DEF Fields, SameNodes, SameMenus, SameScreen
<1>6. Used(e) = Used(desk) /\ Shown(e) = Shown(desk) /\ TableOK(e)
  BY <1>4, <1>5, NodesKept DEF Fits
<1>7. RestOK(e)
  BY <1>4, <1>5, <1>6 DEF Fits, RestOK, SameMenus, SameScreen
<1>8. Later(desk, e, {}) /\ SoundBut(desk, {})
  BY <1>4, <1>5 DEF Later, FewerClips, Sound, SoundBut
<1>9. Good(e, C)
  <2>1. OwnersOK(desk, C)
    BY <1>2, <1>4 DEF OwnersOK, Theirs
  <2> QED
    BY <1>5, <1>6, <1>7, <1>8, <2>1, LaterSound, LaterOwners DEF Good, Fits
<1>10. e.paint = {} /\ DOMAIN e.clip = Used(e) /\ C \subseteq Clients
  BY <1>2, <1>5, <1>6 DEF Inv, SameScreen
<1>11. Screened(e, e)
  <2>1. Screened(desk, desk) /\ e.win = desk.win /\ e.dirty = desk.dirty
        /\ e.told = desk.told \ {c} /\ \A x : TopAt(e, x) = TopAt(desk, x)
    BY <1>1, <1>4, <1>5, SameTop DEF Inv, SameNodes, Fields
  <2>2. PartsOK(e) /\ \A x : ~Others(e, x)
    BY <1>10, <2>1 DEF Screened, PartsOK, Others
  <2>3. ASSUME NEW x \in Screen, x \in desk.stale PROVE Told(e, TopAt(desk, x), x)
    <3>1. PICK s : s = TopAt(desk, x)
      OBVIOUS
    <3>2. Told(desk, s, x)
      BY <2>1, <2>3, <3>1 DEF Screened
    <3>3. ASSUME s \in Slots, x \in desk.dirty[s], desk.win[s].cli \in desk.told
          PROVE  desk.win[s].cli # c
      <4>1. s # Menu
        BY <3>3, SlotsFinite DEF Menu
      <4>2. s \in Shown(desk) \cup {Desktop}
        BY <1>4, <2>3, <3>1, <4>1, TopIs DEF Fits
      <4>3. desk.win[s].cli \in clients \cup {Server}
        BY <1>4, <4>2 DEF Shown, OwnersOK, Theirs, Fits, TableOK, NodesOK
      <4> QED
        BY <4>3, ClientsAssumption DEF Connect
    <3> QED
      BY <1>5, <2>1, <3>1, <3>2, <3>3 DEF Told, SameScreen
  <2> QED
    BY <1>5, <2>1, <2>2, <2>3 DEF Screened, SameScreen
<1>12. Screened(desk', desk')
  BY <1>3, <1>11
<1> QED
  BY <1>3, <1>9, <1>10, <1>12
  DEF Inv, Good, Fits, TableOK, NodesOK, CountsOK, OrderOK, RestOK, Sound
-----------------------------------------------------------------------------
(* One node changes where it is, or whether it is visible.                 *)

\* e differs from d in the rectangle and the visibility of the node s.
OneNode(d, e, s) ==
  /\ DOMAIN e = Fields /\ e.before = d.before /\ e.free = d.free /\ e.nr = d.nr
  /\ SameMenus(d, e) /\ SameDirty(d, e) /\ SameScreen(d, e)
  /\ e.active = d.active
  /\ DOMAIN e.win = DOMAIN d.win
  /\ \A b \in Used(d) \ {s} : e.win[b] = d.win[b]
  /\ e.win[s] \in Nodes /\ e.win[s].type = d.win[s].type /\ e.win[s].cli = d.win[s].cli

LEMMA OneNodeKeeps ==
  ASSUME NEW d, Fits(d), NEW s \in Listed(d), NEW e, OneNode(d, e, s)
  PROVE  /\ TableOK(e) /\ Used(e) = Used(d) /\ Listed(e) = Listed(d)
         /\ Shown(e) \ {s} = Shown(d) \ {s}
         /\ \A a, b \in Used(d) : Over(e, a, b) <=> Over(d, a, b)
         /\ \A C : OwnersOK(d, C) => OwnersOK(e, C)
<1>1. Used(e) = Used(d) /\ Listed(e) = Listed(d)
  BY DEF OneNode, Used, Listed
<1>2. Shown(e) \ {s} = Shown(d) \ {s}
  BY <1>1 DEF OneNode, Shown, Listed
<1>3. \A a \in Used(d) : e.win[a].type = d.win[a].type /\ e.win[a].cli = d.win[a].cli
  BY DEF OneNode
<1>4. \A a, b \in Used(d) : Over(e, a, b) <=> Over(d, a, b)
  BY <1>3 DEF OneNode, Over
<1>5. \A C : OwnersOK(d, C) => OwnersOK(e, C)
  BY <1>1, <1>3 DEF OneNode, SameMenus, OwnersOK, Theirs, Listed
<1>6. NodesOK(e)
  <2>1. s # Desktop
    BY DEF Listed
  <2>2. NodesOK(d)
    BY DEF Fits, TableOK
  <2>3. \A b \in Used(d) : e.win[b] \in Nodes
    BY <2>2 DEF OneNode, NodesOK
  <2>4. e.win[Desktop] = d.win[Desktop]
    BY <2>1, <2>2 DEF OneNode, NodesOK
  <2> QED
    BY <1>1, <1>3, <2>2, <2>3, <2>4 DEF NodesOK, Listed
<1>7. CountsOK(e)
  <2>1. \A t : Of(e, t) = Of(d, t)
    BY <1>1, <1>3 DEF Of, Listed
  <2> QED
    BY <1>1, <2>1 DEF OneNode, Fits, TableOK, CountsOK
<1>8. OrderOK(e)
  <2>1. \A a \in Listed(d) : e.win[a].type = d.win[a].type
    BY <1>3 DEF Listed
  <2>2. e.before = d.before /\ OrderOK(d)
    BY DEF OneNode, Fits, TableOK
  <2> QED
    BY <1>1, <2>1, <2>2 DEF OrderOK
<1> QED
  BY <1>1, <1>2, <1>4, <1>5, <1>6, <1>7, <1>8 DEF TableOK

\* What a window may draw changes only by what the node covered or covers.
LEMMA OneNodeClip ==
  ASSUME NEW d, Fits(d), NEW s \in Listed(d), NEW e, OneNode(d, e, s),
         NEW b \in Used(d) \ {s},
         \A x \in Screen :
           /\ x \in d.win[b].rc /\ Over(d, s, b)
           /\ \A a \in Shown(d) \ {s} : Over(d, a, b) => x \notin d.win[a].rc
           => (s \in Shown(d) /\ x \in d.win[s].rc <=> s \in Shown(e) /\ x \in e.win[s].rc)
  PROVE  ClipOf(e, b) = ClipOf(d, b)
<1>1. /\ Shown(e) \ {s} = Shown(d) \ {s}
      /\ \A a \in Used(d) : Over(e, a, b) <=> Over(d, a, b)
      /\ Shown(e) \subseteq Used(d) /\ Shown(d) \subseteq Used(d)
  BY OneNodeKeeps DEF Shown, Listed
<1>2. e.menus = d.menus /\ e.win[b] = d.win[b]
  BY DEF OneNode, SameMenus
<1>3. \A a \in Shown(d) \ {s} : e.win[a] = d.win[a]
  BY <1>1 DEF OneNode
<1>4. s \in Used(d)
  BY DEF Listed
<1>5. ASSUME NEW x \in Screen, x \in d.win[b].rc
      PROVE  (\E a \in Shown(d) : Over(d, a, b) /\ x \in d.win[a].rc)
               <=> (\E a \in Shown(e) : Over(e, a, b) /\ x \in e.win[a].rc)
  <2>1. CASE \E a \in Shown(d) \ {s} : Over(d, a, b) /\ x \in d.win[a].rc
    BY <1>1, <1>3, <2>1
  <2>2. CASE ~ \E a \in Shown(d) \ {s} : Over(d, a, b) /\ x \in d.win[a].rc
    <3>1. (\E a \in Shown(d) : Over(d, a, b) /\ x \in d.win[a].rc)
            <=> s \in Shown(d) /\ Over(d, s, b) /\ x \in d.win[s].rc
      BY <2>2
    <3>2. (\E a \in Shown(e) : Over(e, a, b) /\ x \in e.win[a].rc)
            <=> s \in Shown(e) /\ Over(d, s, b) /\ x \in e.win[s].rc
      BY <1>1, <1>3, <1>4, <2>2
    <3> QED
      BY <1>5, <2>2, <3>1, <3>2
  <2> QED
    BY <2>1, <2>2
<1> QED
  BY <1>2, <1>5, SameClip

\* A window gains only what the node leaves.
LEMMA OneNodeGains ==
  ASSUME NEW d, Fits(d), NEW s \in Listed(d), NEW e, OneNode(d, e, s),
         NEW b \in Used(d) \ {s}, NEW x, x \in ClipOf(e, b),
         s \in Shown(d) /\ Over(d, s, b) /\ x \in d.win[s].rc
           => s \in Shown(e) /\ x \in e.win[s].rc
  PROVE  x \in ClipOf(d, b)
<1>1. /\ Shown(e) \ {s} = Shown(d) \ {s}
      /\ \A a \in Used(d) : Over(e, a, b) <=> Over(d, a, b)
      /\ Shown(d) \subseteq Used(d)
  BY OneNodeKeeps DEF Shown, Listed
<1>2. e.menus = d.menus /\ e.win[b] = d.win[b]
  BY DEF OneNode, SameMenus
<1>3. \A a \in Shown(d) \ {s} : e.win[a] = d.win[a]
  BY <1>1 DEF OneNode
<1> QED
  BY <1>1, <1>2, <1>3, InClip

LEMMA OneNodeFits ==
  ASSUME NEW d, Fits(d), NEW s \in Listed(d), NEW e, OneNode(d, e, s),
         NEW S, FewerClips(d, e, S)
  PROVE  Fits(e)
<1>1. TableOK(e) /\ Used(e) = Used(d)
  BY OneNodeKeeps
<1>2. RestOK(e)
  BY <1>1 DEF Fits, RestOK, OneNode, SameMenus, SameDirty, SameScreen, FewerClips
<1> QED
  BY <1>1, <1>2 DEF OneNode, Fits

LEMMA HideKeeps ==
  ASSUME Inv, NEW s \in Slots, HideWindow(s) PROVE Inv'
<1>1. PICK d : d = ForceCloseMenu(desk)
  OBVIOUS
<1>2. PICK rc : rc = d.win[s].rc
  OBVIOUS
<1>3. PICK T : T = Touched(d, rc, Below(d, s))
  OBVIOUS
<1>4. PICK m : m = [d EXCEPT !.win[s].visible = FALSE]
  OBVIOUS
<1>5. PICK e : e = Uncover(m, T, rc)
  OBVIOUS
<1>6. desk' = Done(e) /\ clients' = clients
  BY <1>1, <1>2, <1>3, <1>4, <1>5 DEF HideWindow
<1>7. Good(d, clients) /\ SameNodes(desk, d) /\ Screened(desk, d)
  BY <1>1, ForceGood DEF Inv
<1>8. s \in Listed(d) /\ Fits(d) /\ DOMAIN d = Fields
  BY <1>7, NodesKept DEF HideWindow, Owned, Good, Fits
<1>9. s \in Used(d) /\ s # Desktop /\ d.win[s] \in Nodes
  BY <1>8 DEF Listed, Fits, TableOK, NodesOK
<1>10. OneNode(d, m, s) /\ m.clip = d.clip /\ ~m.win[s].visible
  <2>1. m.win = [d.win EXCEPT ![s] = [@ EXCEPT !.visible = FALSE]]
    BY <1>4, <1>8 DEF Fields
  <2>2. /\ m.win[s] \in Nodes /\ m.win[s].type = d.win[s].type /\ m.win[s].cli = d.win[s].cli
        /\ ~m.win[s].visible
    BY <1>9, <2>1 DEF Nodes, Used
  <2>3. DOMAIN m.win = DOMAIN d.win /\ \A b \in Used(d) \ {s} : m.win[b] = d.win[b]
    BY <2>1 DEF Used
  <2>4. /\ DOMAIN m = Fields /\ m.before = d.before /\ m.free = d.free /\ m.nr = d.nr
        /\ SameMenus(d, m) /\ SameDirty(d, m) /\ SameScreen(d, m)
        /\ m.active = d.active /\ m.clip = d.clip
    BY <1>4, <1>8 DEF Fields, SameMenus, SameDirty, SameScreen
  <2> QED
    BY <2>2, <2>3, <2>4 DEF OneNode
<1>11. Fits(m)
  <2>1. FewerClips(d, m, {})
    BY <1>10 DEF FewerClips
  <2> QED
    BY <1>8, <1>10, <2>1, OneNodeFits
<1>12. /\ Used(m) = Used(d) /\ Listed(m) = Listed(d) /\ Shown(m) \subseteq Shown(d) \ {s}
       /\ OwnersOK(m, clients)
  <2>1. s \notin Shown(m)
    BY <1>10 DEF Shown
  <2> QED
    BY <1>7, <1>8, <1>10, <2>1, OneNodeKeeps DEF Good
<1>13. T \in SUBSET Used(m)
  BY <1>3, <1>8, <1>12, TouchedIn DEF Shown, Listed, Fits, TableOK, NodesOK
<1>14. Uncovers(d, m, T, rc)
  <2>1. \A b \in Shown(m) \cup {Desktop} : b \in Shown(d) \cup {Desktop} /\ b \in Used(d) \ {s}
    BY <1>8, <1>9, <1>12 DEF Shown, Listed, Fits, TableOK, NodesOK
  <2>2. ASSUME NEW b \in (Shown(m) \cup {Desktop}) \ T PROVE ClipOf(m, b) = ClipOf(d, b)
    <3>1. ASSUME NEW x \in Screen, x \in d.win[b].rc, Over(d, s, b), x \in rc,
                 \A a \in Shown(d) \ {s} : Over(d, a, b) => x \notin d.win[a].rc
          PROVE  FALSE
      <4>1. b \in (Below(d, s) \cap Shown(d)) \cup {Desktop}
        BY <2>1, <3>1 DEF Below, Shown
      <4>2. s \notin Below(d, s)
        BY <1>8, Irreflexive DEF Below, Fits
      <4>3. x \in Nat
        BY BoundsAssumption DEF Screen
      <4> QED
        BY <1>3, <2>2, <3>1, <4>1, <4>2, <4>3, TouchedHas
    <3> QED
      BY <1>2, <1>8, <1>10, <1>12, <2>1, <3>1, OneNodeClip
  <2>3. \A b \in Shown(m) \cup {Desktop} : ClipOf(m, b) \ rc \subseteq ClipOf(d, b)
    BY <1>2, <1>8, <1>10, <2>1, OneNodeGains
  <2> QED
    BY <1>10, <1>12, <2>2, <2>3 DEF Uncovers, OneNode, SameMenus
<1>15. Fits(e) /\ Later(m, e, T) /\ Sound(e)
  <2>1. Fits(e) /\ Later(m, e, T)
    BY <1>5, <1>11, <1>13, UncoverFits
  <2>2. FewerClips(d, m, {})
    BY <1>10 DEF FewerClips
  <2> QED
    BY <1>7, <1>14, <2>1, <2>2, UncoversSound, LaterSound DEF Good
<1>16. Good(e, clients)
  BY <1>12, <1>15, LaterOwners DEF Good
<1>17. Screened(desk, e)
  BY <1>5, <1>7, <1>8, <1>10, <1>11, <1>13, <1>14, UncoverScreen DEF Fits, OneNode
<1> QED
  BY <1>6, <1>16, <1>17, DoneKeeps DEF Inv

LEMMA ShowKeeps ==
  ASSUME Inv, NEW s \in Slots, ShowWindow(s) PROVE Inv'
<1>1. PICK d : d = ForceCloseMenu(desk)
  OBVIOUS
<1>2. PICK rc : rc = d.win[s].rc
  OBVIOUS
<1>3. PICK under : under = Overlapped(d, rc, Below(d, s))
  OBVIOUS
<1>4. PICK a : a = Aged(d, under \cup {s})
  OBVIOUS
<1>5. PICK m : m = [a EXCEPT !.win[s].visible = TRUE]
  OBVIOUS
<1>6. PICK e : e = Painted(m, {s}, rc)
  OBVIOUS
<1>7. desk' = Done(e) /\ clients' = clients
  BY <1>1, <1>2, <1>3, <1>4, <1>5, <1>6 DEF ShowWindow
<1>8. Good(d, clients) /\ SameNodes(desk, d) /\ Screened(desk, d)
  BY <1>1, ForceGood DEF Inv
<1>9. s \in Listed(d) /\ Fits(d) /\ DOMAIN d = Fields /\ ~d.win[s].visible
  BY <1>8, NodesKept DEF ShowWindow, Owned, Good, Fits, SameNodes
<1>10. s \in Used(d) /\ s # Desktop /\ d.win[s] \in Nodes
  BY <1>9 DEF Listed, Fits, TableOK, NodesOK
<1>11. /\ DOMAIN a = Fields
       /\ SameNodes(d, a) /\ SameMenus(d, a) /\ SameDirty(d, a) /\ SameScreen(d, a)
       /\ a.active = d.active /\ FewerClips(d, a, under \cup {s})
  BY <1>4, <1>9, AgedIs
<1>12. /\ OneNode(d, m, s) /\ FewerClips(d, m, under \cup {s})
       /\ m.win[s].rc = rc
  <2>1. m.win = [d.win EXCEPT ![s] = [@ EXCEPT !.visible = TRUE]]
    BY <1>5, <1>11 DEF Fields, SameNodes
  <2>2. /\ m.win[s] \in Nodes /\ m.win[s].type = d.win[s].type /\ m.win[s].cli = d.win[s].cli
        /\ m.win[s].rc = rc
    BY <1>2, <1>10, <2>1 DEF Nodes, Used
  <2>3. DOMAIN m.win = DOMAIN d.win /\ \A b \in Used(d) \ {s} : m.win[b] = d.win[b]
    BY <2>1 DEF Used
  <2>4. /\ DOMAIN m = Fields /\ m.before = a.before /\ m.free = a.free /\ m.nr = a.nr
        /\ SameMenus(a, m) /\ SameDirty(a, m) /\ SameScreen(a, m)
        /\ m.active = a.active /\ m.clip = a.clip
    BY <1>5, <1>11 DEF Fields, SameMenus, SameDirty, SameScreen
  <2> QED
    BY <1>11, <2>2, <2>3, <2>4 DEF OneNode, SameNodes, SameMenus, SameDirty, SameScreen, FewerClips
<1>13. Fits(m)
  BY <1>9, <1>12, OneNodeFits
<1>14. /\ Used(m) = Used(d) /\ Listed(m) = Listed(d) /\ Shown(m) \ {s} = Shown(d) \ {s}
       /\ OwnersOK(m, clients)
  BY <1>8, <1>9, <1>12, OneNodeKeeps DEF Good
<1>15. Sound(m)
  <2>1. ASSUME NEW b \in DOMAIN d.clip \ (under \cup {s}), b \in Shown(m) \cup {Desktop}
        PROVE  b \in Shown(d) \cup {Desktop} /\ ClipOf(m, b) = ClipOf(d, b)
    <3>1. b \in Shown(d) \cup {Desktop} /\ b \in Used(d) \ {s}
      BY <1>9, <1>14, <2>1 DEF Fits, RestOK
    <3>2. ASSUME NEW x \in Screen, x \in d.win[b].rc, Over(d, s, b), x \in rc
          PROVE  FALSE
      <4>1. b \in (Below(d, s) \cap Shown(d)) \cup {Desktop}
        BY <3>1, <3>2 DEF Below, Shown
      <4> QED
        BY <1>3, <2>1, <3>2, <4>1 DEF Overlapped
    <3>3. s \notin Shown(d)
      BY <1>9 DEF Shown
    <3>4. ClipOf(m, b) = ClipOf(d, b)
      BY <1>9, <1>12, <3>1, <3>2, <3>3, OneNodeClip
    <3> QED
      BY <3>1, <3>4
  <2> QED
    BY <1>8, <1>12, <2>1, ClipsStay DEF Good
<1>16. Fits(e) /\ Later(m, e, {})
  BY <1>6, <1>13, PaintedFits
<1>17. Good(e, clients)
  BY <1>14, <1>15, <1>16, LaterSound, LaterOwners DEF Good, Sound, SoundBut
<1>18. Screened(desk, e)
  <2>1. TableOK(d) /\ TableOK(m) /\ DOMAIN m = Fields /\ SameDirty(d, m) /\ SameScreen(d, m)
        /\ m.menus = d.menus /\ \A b \in Used(d) : m.win[b].cli = d.win[b].cli
    BY <1>9, <1>12, <1>13 DEF Fits, OneNode, SameMenus
  <2>2. ASSUME NEW c \in Screen, NEW b \in Shown(m) \cup {Desktop}, c \in ClipOf(m, b),
               ~(b = s /\ c \in rc)
        PROVE  b \in Shown(d) \cup {Desktop} /\ c \in ClipOf(d, b)
    <3>1. b # s
      BY <1>12, <2>2, InClip
    <3>2. b \in Shown(d) \cup {Desktop} /\ b \in Used(d) \ {s}
      BY <1>14, <2>1, <3>1 DEF Shown, Listed, TableOK, NodesOK
    <3>3. s \notin Shown(d)
      BY <1>9 DEF Shown
    <3> QED
      BY <1>9, <1>12, <2>2, <3>2, <3>3, OneNodeGains
  <2>3. s # Menu
    BY SlotsFinite DEF Menu
  <2> QED
    BY <1>6, <1>8, <2>1, <2>2, <2>3, PaintScreen
<1> QED
  BY <1>7, <1>17, <1>18, DoneKeeps DEF Inv

\* An update is drawn or lost.
LEMMA UpdatedGood ==
  ASSUME NEW d, NEW C, Good(d, C), NEW s \in Slots, NEW part, NEW e \in Updated(d, s, part)
  PROVE  Good(e, C)
<1>1. CASE e = Painted(d, {s}, part)
  <2>1. Fits(e) /\ Later(d, e, {})
    BY <1>1, PaintedFits DEF Good
  <2> QED
    BY <2>1, LaterSound, LaterOwners DEF Good, Sound, SoundBut
<1>2. CASE e = [d EXCEPT !.lost = @ \cup ({s} \X (part \cap Screen))]
  <2>1. PICK lost : lost = d.lost \cup ({s} \X (part \cap Screen))
    OBVIOUS
  <2>2. lost \subseteq Slots \X Screen
    BY <2>1 DEF Good, Fits, RestOK
  <2>3. e = [d EXCEPT !.lost = lost] /\ DOMAIN d = Fields
    BY <1>2, <2>1 DEF Good, Fits
  <2>4. /\ DOMAIN e = Fields /\ SameNodes(d, e) /\ SameMenus(d, e) /\ SameDirty(d, e)
        /\ e.active = d.active /\ e.clip = d.clip /\ e.stale = d.stale
        /\ e.paint = d.paint /\ e.lost = lost
    BY <2>3 DEF Fields, SameNodes, SameMenus, SameDirty
  <2>5. TableOK(e) /\ Used(e) = Used(d)
    BY <2>4, NodesKept DEF Good, Fits
  <2>6. RestOK(e)
    BY <2>2, <2>4, <2>5 DEF Good, Fits, RestOK, SameMenus, SameDirty
  <2>7. Later(d, e, {})
    BY <2>4 DEF Later, FewerClips
  <2> QED
    BY <2>4, <2>5, <2>6, <2>7, LaterSound, LaterOwners DEF Good, Fits, Sound, SoundBut
<1> QED
  BY <1>1, <1>2 DEF Updated

\* The copied part shows the window where it did, the rest of the new place
\* nothing that lasts.
Copies(d, s, rc, place, e) ==
  /\ SameDirty(d, e) /\ d.paint \subseteq e.paint /\ d.lost \subseteq e.lost
  /\ \A p \in e.paint : p \in d.paint \/ p \in {Junk, s} \X (place \cap Screen)
  /\ \A c \in place \cap Screen :
       LET y == c - (First(rc) - First(d.win[s].rc))
       IN  y \in Screen /\ TopAt(d, y) = s => <<s, c>> \in e.paint \cup e.lost

LEMMA CopiedFits ==
  ASSUME NEW d, Fits(d), NEW s \in Slots, NEW rc, NEW e, e = Copied(d, s, rc),
         NEW place, place = rc \ Covered(d, Above(d, s) \cap Shown(d))
  PROVE  Fits(e) /\ Later(d, e, {}) /\ Copies(d, s, rc, place, e)
<1> DEFINE by == First(rc) - First(d.win[s].rc)
           dest == rc \ Covered(d, Above(d, s) \cap Shown(d))
           from == {c \in dest : c - by \in Screen /\ TopAt(d, c - by) = s}
           late == {c \in from : \/ c - by \in desk.stale
                                 \/ TopAt(desk, c - by) = Menu /\ d.win[s].cli # Server}
<1>1. PICK a : a = Painted(d, {Junk}, dest)
  OBVIOUS
<1>2. PICK b : b = Painted(a, {s}, from \ late)
  OBVIOUS
<1>3. PICK more : more = {s} \X (late \cap Screen)
  OBVIOUS
<1>4. e = [b EXCEPT !.lost = @ \cup more]
  BY <1>1, <1>2, <1>3 DEF Copied
<1>5. more \subseteq Slots \X Screen
  BY <1>3
<1>5a. /\ dest = place /\ from \subseteq dest
       /\ \A c \in place : c - by \in Screen /\ TopAt(d, c - by) = s => c \in from
  OBVIOUS
<1> HIDE DEF dest, from, late
<1>6. Fits(a) /\ Later(d, a, {})
  BY <1>1, PaintedFits
<1>7. Fits(b) /\ Later(a, b, {})
  BY <1>2, <1>6, PaintedFits
<1>8. /\ DOMAIN e = Fields /\ SameNodes(b, e) /\ SameMenus(b, e) /\ SameDirty(b, e)
      /\ e.active = b.active /\ e.clip = b.clip /\ e.stale = b.stale
      /\ e.paint = b.paint /\ e.lost = b.lost \cup more
  <2>1. DOMAIN b = Fields
    BY <1>7 DEF Fits
  <2> QED
    BY <1>4, <2>1 DEF Fields, SameNodes, SameMenus, SameDirty
<1>9. TableOK(e) /\ Used(e) = Used(b)
  BY <1>7, <1>8, NodesKept DEF Fits
<1>10. RestOK(e)
  BY <1>5, <1>7, <1>8, <1>9 DEF Fits, RestOK, SameMenus, SameDirty
<1>11. Later(d, e, {})
  BY <1>6, <1>7, <1>8 DEF Later, SameNodes, SameMenus, FewerClips
<1>12. /\ SameDirty(d, e)
       /\ e.paint = (d.paint \cup ({Junk} \X (dest \cap Screen))) \cup ({s} \X ((from \ late) \cap Screen))
       /\ e.lost = d.lost \cup more
  <2>1. SameDirty(d, a) /\ a.lost = d.lost /\ a.paint = d.paint \cup ({Junk} \X (dest \cap Screen))
    BY <1>1, PaintedIs DEF Fits
  <2>2. SameDirty(a, b) /\ b.lost = a.lost
        /\ b.paint = a.paint \cup ({s} \X ((from \ late) \cap Screen))
    BY <1>2, <1>6, PaintedIs DEF Fits
  <2> QED
    BY <1>8, <2>1, <2>2 DEF SameDirty
<1>13. \A p \in e.paint : p \in d.paint \/ p \in {Junk, s} \X (place \cap Screen)
  BY <1>5a, <1>12
<1>14. \A c \in from \cap Screen : <<s, c>> \in e.paint \cup e.lost
  BY <1>3, <1>12
<1> QED
  BY <1>8, <1>9, <1>10, <1>11, <1>12, <1>13, <1>14, <1>5a DEF Fits, Copies

\* Of two rectangles of one size, each cell of the one lies on a cell of the other.
LEMMA SameSize ==
  ASSUME NEW r \in Rects \cup {Screen}, NEW q \in Rects \cup {Screen},
         Cardinality(r) = Cardinality(q), NEW c \in q
  PROVE  /\ c - (First(q) - First(r)) \in r
         /\ First(q) \in Int /\ First(r) \in Int
<1>1. ASSUME NEW t \in Rects \cup {Screen}
      PROVE  /\ First(t) \in Int /\ Last(t) \in Int /\ t = First(t) .. Last(t)
             /\ Cardinality(t) = Last(t) - First(t) + 1
  <2>1. PICK a, b \in t : t = a .. b
    <3>1. ASSUME t = Screen PROVE \E a, b \in t : t = a .. b
      <4>1. 0 \in t /\ Width - 1 \in t /\ t = 0 .. Width - 1
        BY <3>1, BoundsAssumption DEF Screen
      <4> QED
        BY <4>1
    <3> QED
      BY <3>1, RectsAssumption
  <2>2. t \in SUBSET Nat /\ t # {} /\ IsFiniteSet(t)
    <3>1. t \subseteq Cells /\ t # {}
      BY CellsFinite
    <3> QED
      BY <3>1, CellsFinite
  <2>3. /\ First(t) \in t /\ \A y \in t : First(t) <= y
        /\ Last(t) \in t /\ \A y \in t : y <= Last(t)
    BY <2>2, Ends
  <2>4. a \in Int /\ b \in Int /\ First(t) \in Int /\ Last(t) \in Int
    BY <2>1, <2>2, <2>3
  <2>5. First(t) <= a /\ b <= Last(t) /\ a <= First(t) /\ Last(t) <= b
    BY <2>1, <2>3, <2>4
  <2>6. a = First(t) /\ b = Last(t)
    BY <2>4, <2>5
  <2>7. Cardinality(a .. b) = b - a + 1
    <3>1. ~(a > b)
      BY <2>3, <2>4, <2>6
    <3> QED
      BY <2>4, <3>1, FS_Interval
  <2> QED
    BY <2>1, <2>4, <2>6, <2>7
<1>2. /\ c \in Int /\ First(q) <= c /\ c <= Last(q)
      /\ Last(q) - First(q) = Last(r) - First(r)
      /\ First(q) \in Int /\ Last(q) \in Int /\ First(r) \in Int /\ Last(r) \in Int
  BY <1>1
<1>3. c - (First(q) - First(r)) \in First(r) .. Last(r)
  BY <1>2
<1> QED
  BY <1>1, <1>3

\* A node at another place.
Moved(a, s, rc) == [a EXCEPT !.win[s].rc = rc]

LEMMA MovedIs ==
  ASSUME NEW a, Fits(a), NEW s \in Listed(a), NEW rc \in Rects,
         NEW m, m = Moved(a, s, rc)
  PROVE  /\ OneNode(a, m, s) /\ Fits(m) /\ m.clip = a.clip
         /\ m.win[s].rc = rc /\ (s \in Shown(m) <=> s \in Shown(a))
<1>1. s \in Used(a) /\ a.win[s] \in Nodes /\ DOMAIN a = Fields
  BY DEF Listed, Fits, TableOK, NodesOK
<1>2. m.win = [a.win EXCEPT ![s] = [@ EXCEPT !.rc = rc]]
  BY <1>1 DEF Fields, Moved
<1>3. /\ m.win[s] \in Nodes /\ m.win[s].type = a.win[s].type /\ m.win[s].cli = a.win[s].cli
      /\ m.win[s].rc = rc /\ m.win[s].visible = a.win[s].visible
  BY <1>1, <1>2 DEF Nodes, Used
<1>4. DOMAIN m.win = DOMAIN a.win /\ \A b \in Used(a) \ {s} : m.win[b] = a.win[b]
  BY <1>2 DEF Used
<1>5. /\ DOMAIN m = Fields /\ m.before = a.before /\ m.free = a.free /\ m.nr = a.nr
      /\ SameMenus(a, m) /\ SameDirty(a, m) /\ SameScreen(a, m)
      /\ m.active = a.active /\ m.clip = a.clip
  BY <1>1 DEF Fields, Moved, SameMenus, SameDirty, SameScreen
<1>6. OneNode(a, m, s)
  BY <1>3, <1>4, <1>5 DEF OneNode
<1>7. Fits(m)
  <2>1. FewerClips(a, m, {})
    BY <1>5 DEF FewerClips
  <2> QED
    BY <1>6, <2>1, OneNodeFits
<1>8. s \in Shown(m) <=> s \in Shown(a)
  BY <1>3, <1>4 DEF Shown, Listed, Used
<1> QED
  BY <1>3, <1>5, <1>6, <1>7, <1>8

LEMMA MoveHiddenKeeps ==
  ASSUME Inv, NEW s \in Slots, NEW rc \in Rects, MoveHiddenWindow(s, rc) PROVE Inv'
<1>1. PICK a : a = Aged(desk, {s})
  OBVIOUS
<1>2. PICK m : m = Moved(a, s, rc)
  OBVIOUS
<1>3. desk' = Done(m) /\ clients' = clients
  BY <1>1, <1>2 DEF MoveHiddenWindow, Moved
<1>4. Fits(desk) /\ Sound(desk) /\ OwnersOK(desk, clients)
  BY DEF Inv, Good
<1>5. s \in Listed(desk) /\ ~desk.win[s].visible
  BY DEF MoveHiddenWindow, Owned
<1>6. Fits(a) /\ Later(desk, a, {s})
  BY <1>1, <1>4, AgedFits
<1>7. Sound(a) /\ OwnersOK(a, clients)
  BY <1>4, <1>6, LaterSound, LaterOwners DEF Sound, SoundBut
<1>8. s \in Listed(a) /\ s \notin Shown(a) /\ s \notin DOMAIN a.clip
  BY <1>5, <1>6, NodesKept DEF Later, Shown, FewerClips
<1>9. /\ OneNode(a, m, s) /\ Fits(m) /\ m.clip = a.clip
      /\ m.win[s].rc = rc /\ (s \in Shown(m) <=> s \in Shown(a))
  BY <1>2, <1>6, <1>8, MovedIs
<1>10. Shown(m) \ {s} = Shown(a) \ {s} /\ OwnersOK(m, clients) /\ TableOK(m) /\ Used(m) = Used(a)
  BY <1>6, <1>7, <1>8, <1>9, OneNodeKeeps
<1>11. Sound(m)
  <2>1. ASSUME NEW b \in DOMAIN a.clip, b \in Shown(m) \cup {Desktop}
        PROVE  b \in Shown(a) \cup {Desktop} /\ ClipOf(m, b) = ClipOf(a, b)
    <3>1. b \in Shown(a) \cup {Desktop} /\ b \in Used(a) \ {s}
      BY <1>6, <1>8, <1>10, <2>1 DEF Fits, RestOK
    <3> QED
      BY <1>6, <1>8, <1>9, <3>1, OneNodeClip
  <2>2. FewerClips(a, m, {})
    BY <1>9 DEF FewerClips
  <2> QED
    BY <1>7, <2>1, <2>2, ClipsStay
<1>12. Screened(desk, m)
  <2>1. Screened(desk, a)
    <3>1. SameNodes(desk, a) /\ SameMenus(desk, a) /\ SameDirty(desk, a) /\ SameScreen(desk, a)
      BY <1>1, <1>4, AgedIs DEF Fits
    <3> QED
      BY <3>1, ScreenSame DEF Inv
  <2>2. ASSUME NEW c \in Screen, NEW b \in Shown(m) \cup {Desktop}, c \in ClipOf(m, b)
        PROVE  b \in Shown(a) \cup {Desktop} /\ c \in ClipOf(a, b)
    <3>1. b \in Shown(a) \cup {Desktop} /\ b \in Used(a) \ {s}
      BY <1>6, <1>8, <1>9, <1>10 DEF Shown, Listed, Fits, TableOK, NodesOK
    <3> QED
      BY <1>6, <1>8, <1>9, <2>2, <3>1, OneNodeGains
  <2>3. PartsOK(m) /\ More(a, m) /\ m.menus = a.menus /\ m.paint = a.paint
    BY <1>9, <1>10, <2>1 DEF OneNode, SameMenus, SameDirty, SameScreen, Screened, PartsOK, More
  <2> QED
    BY <1>6, <1>10, <2>1, <2>2, <2>3, ScreenStep DEF Fits, Others
<1> QED
  BY <1>3, <1>9, <1>10, <1>11, <1>12, DoneKeeps DEF Inv, Good

\* A window moved: what it covers now and what it covered.
LEMMA MoveVisibleKeeps ==
  ASSUME Inv, NEW s \in Slots, NEW rc \in Rects, MoveVisibleWindow(s, rc) PROVE Inv'
<1>1. PICK d : d = ForceCloseMenu(desk)
  OBVIOUS
<1> DEFINE old == d.win[s].rc
           by == First(rc) - First(old)
           left == {x \in old : x < First(rc)}
           right == {x \in old : x > Last(rc)}
           under == Overlapped(d, rc, Below(d, s))
           first == Touched(d, left, Below(d, s))
           touched == first \cup Touched(d, right, Below(d, s) \ first)
           hidden == (old \ Screen) \cup (old \cap Covered(d, Above(d, s) \cap Shown(d)))
           part == Shift(hidden, by) \cap rc
           resized == Cardinality(old) # Cardinality(rc)
<1>2. PICK f : f = Copied(d, s, rc)
  OBVIOUS
<1>3. PICK a : a = Aged(f, under \cup {s})
  OBVIOUS
<1>4. PICK m : m = Moved(a, s, rc)
  OBVIOUS
<1>5. PICK T : T = touched
  OBVIOUS
<1>6. PICK u : u = Uncover(m, T, old)
  OBVIOUS
<1>7. /\ \E e \in IF resized THEN {Painted(u, {s}, rc)} ELSE Updated(u, s, part) :
           desk' = Done(e)
      /\ clients' = clients /\ s \in Owned /\ desk.win[s].visible
  BY <1>1, <1>2, <1>3, <1>4, <1>5, <1>6 DEF MoveVisibleWindow, Moved
<1>8. Good(d, clients) /\ SameNodes(desk, d) /\ d.menus = <<>> /\ Screened(desk, d)
  BY <1>1, ForceGood DEF Inv
<1>9. s \in Listed(d) /\ Fits(d) /\ s \in Shown(d)
  BY <1>7, <1>8, NodesKept DEF Owned, Good, SameNodes, Shown
<1> DEFINE place == rc \ Covered(d, Above(d, s) \cap Shown(d))
<1>10. /\ Fits(f) /\ Later(d, f, {}) /\ SameDirty(d, f)
       /\ d.paint \subseteq f.paint /\ d.lost \subseteq f.lost
       /\ \A p \in f.paint : p \in d.paint \/ p \in {Junk, s} \X (place \cap Screen)
       /\ \A c \in place \cap Screen :
            c - by \in Screen /\ TopAt(d, c - by) = s => <<s, c>> \in f.paint \cup f.lost
  <2>1. Fits(f) /\ Later(d, f, {}) /\ Copies(d, s, rc, place, f)
    BY <1>2, <1>9, CopiedFits
  <2> QED
    BY <2>1 DEF Copies
<1>11. Fits(a) /\ Later(f, a, under \cup {s})
  BY <1>3, <1>10, AgedFits
<1>12. Later(d, a, under \cup {s})
  <2>1. Later(d, a, {} \cup (under \cup {s}))
    BY <1>10, <1>11, LaterTwice
  <2> QED
    BY <2>1, Zenon
<1>13. Sound(a) /\ OwnersOK(a, clients)
  BY <1>8, <1>12, LaterSound, LaterOwners DEF Good, Sound, SoundBut
<1>14. /\ a.win = d.win /\ Used(a) = Used(d) /\ Listed(a) = Listed(d) /\ Shown(a) = Shown(d)
       /\ \A p, q : Over(a, p, q) <=> Over(d, p, q)
  BY <1>12, NodesKept DEF Later, SameNodes
<1>15. \A b \in DOMAIN a.clip : b \notin under /\ b # s
  BY <1>12 DEF Later, FewerClips
<1>16. /\ OneNode(a, m, s) /\ Fits(m) /\ m.clip = a.clip
       /\ m.win[s].rc = rc /\ (s \in Shown(m) <=> s \in Shown(a))
  BY <1>4, <1>9, <1>11, <1>14, MovedIs
<1>17. /\ Used(m) = Used(a) /\ OwnersOK(m, clients) /\ Shown(m) = Shown(a)
  <2>1. /\ Used(m) = Used(a) /\ OwnersOK(m, clients) /\ Shown(m) \ {s} = Shown(a) \ {s}
    BY <1>9, <1>11, <1>13, <1>14, <1>16, OneNodeKeeps
  <2> QED
    BY <1>16, <2>1
<1>18. T \in SUBSET Used(m)
  <2>1. Desktop \in Used(d) /\ Shown(d) \subseteq Used(d)
    BY <1>9 DEF Shown, Listed, Fits, TableOK, NodesOK
  <2>2. T \subseteq Shown(d) \cup {Desktop}
    BY <1>5, TouchedIn
  <2> QED
    BY <1>14, <1>17, <2>1, <2>2
<1> HIDE DEF left, right, under, first, touched, hidden, part, resized, by, place
<1>18a. ASSUME NEW b \in (Shown(d) \cup {Desktop}) \ T, NEW x \in Screen,
               x \in d.win[b].rc, Over(d, s, b), x \in old,
               \A p \in Shown(d) \ {s} : Over(d, p, b) => x \notin d.win[p].rc
        PROVE  x \in rc
  <2>1. b \in (Below(d, s) \cap Shown(d)) \cup {Desktop}
    BY <1>18a DEF Below, Shown
  <2>2. x \in Nat
    BY BoundsAssumption DEF Screen
  <2>3. s \notin Below(d, s)
    BY <1>9, Irreflexive DEF Below, Fits
  <2>4. b \notin first /\ b \notin Touched(d, right, Below(d, s) \ first)
    BY <1>5, <1>18a DEF touched
  <2>5. x \notin left
    BY <1>18a, <2>1, <2>2, <2>3, <2>4, TouchedHas DEF first
  <2>6. x \notin right
    <3>1. b \in ((Below(d, s) \ first) \cap Shown(d)) \cup {Desktop}
      BY <2>1, <2>4
    <3> QED
      BY <1>18a, <2>2, <2>3, <2>4, <3>1, TouchedHas
  <2> QED
    BY <1>18a, <2>2, <2>5, <2>6, Beside DEF left, right
<1>19. SoundBut(m, T)
  <2> SUFFICES ASSUME NEW b \in DOMAIN a.clip \ T, b \in Shown(d) \cup {Desktop}
               PROVE  a.clip[b] = ClipOf(m, b)
    BY <1>14, <1>16, <1>17 DEF SoundBut
  <2>1. b \in Used(a) \ {s} /\ b \notin under
    BY <1>11, <1>15 DEF Fits, RestOK
  <2>2. a.clip[b] = ClipOf(a, b)
    BY <1>13, <1>14 DEF Sound
  <2>3. ASSUME NEW x \in Screen, x \in d.win[b].rc, Over(d, s, b),
               \A p \in Shown(d) \ {s} : Over(d, p, b) => x \notin d.win[p].rc
        PROVE  x \in old <=> x \in rc
    <3>1. b \in (Below(d, s) \cap Shown(d)) \cup {Desktop}
      BY <2>3 DEF Below, Shown
    <3>2. x \notin rc
      BY <2>1, <2>3, <3>1 DEF under, Overlapped
    <3> QED
      BY <1>18a, <2>3, <3>2
  <2>4. ClipOf(m, b) = ClipOf(a, b)
    BY <1>9, <1>11, <1>14, <1>16, <1>17, <2>1, <2>3, OneNodeClip
  <2> QED
    BY <2>2, <2>4
<1>20. Fits(u) /\ Later(m, u, T)
  BY <1>6, <1>16, <1>18, UncoverFits
<1>21. Good(u, clients)
  BY <1>17, <1>19, <1>20, LaterSound, LaterOwners DEF Good
<1>22. PICK e \in IF resized THEN {Painted(u, {s}, rc)} ELSE Updated(u, s, part) :
           desk' = Done(e)
  BY <1>7
<1>23. Good(e, clients)
  <2>1. CASE e = Painted(u, {s}, rc)
    <3>1. Fits(e) /\ Later(u, e, {})
      BY <1>20, <2>1, PaintedFits
    <3> QED
      BY <1>21, <3>1, LaterSound, LaterOwners DEF Good, Sound, SoundBut
  <2>2. CASE e \in Updated(u, s, part)
    BY <1>21, <2>2, UpdatedGood
  <2> QED
    BY <1>22, <2>1, <2>2
<1>24. PartsOK(m) /\ More(d, m) /\ m.paint = f.paint /\ m.lost = f.lost
  <2>1. SameDirty(f, a) /\ SameScreen(f, a)
    BY <1>3, <1>10, AgedIs DEF Fits
  <2>2. m.dirty = d.dirty /\ m.told = d.told /\ m.paint = f.paint /\ m.lost = f.lost
    BY <1>10, <1>16, <2>1 DEF OneNode, SameDirty, SameScreen
  <2>3. \A p \in f.paint : p = <<p[1], p[2]>>
    BY <1>8, <1>10 DEF Screened, PartsOK
  <2>4. PartsOK(m)
    BY <1>8, <2>2, <2>3 DEF Screened, PartsOK
  <2>5. \A b \in Used(d) : m.win[b].cli = d.win[b].cli
    BY <1>14, <1>16 DEF OneNode
  <2> QED
    BY <1>10, <2>2, <2>4, <2>5 DEF More
<1>25. /\ SameNodes(m, u) /\ SameMenus(m, u) /\ PartsOK(u) /\ More(m, u)
       /\ \A b \in T, c \in old \cap Screen : Told(u, b, c)
       /\ \A c : Others(u, c) => Others(m, c)
  BY <1>6, <1>16, <1>18, <1>24, UncoverTells DEF Fits
<1>26. /\ SameNodes(u, e) /\ SameMenus(u, e) /\ PartsOK(e) /\ More(u, e)
       /\ \A c : Others(e, c) => Others(u, c)
       /\ \A c \in (IF resized THEN rc ELSE part) \cap Screen : <<s, c>> \in e.paint \cup e.lost
  <2>1. PICK cells : cells = IF resized THEN rc ELSE part
    OBVIOUS
  <2>2. e \in Updated(u, s, cells)
    BY <1>22, <2>1 DEF Updated
  <2>3. /\ SameNodes(u, e) /\ SameMenus(u, e) /\ SameDirty(u, e)
        /\ u.lost \subseteq e.lost /\ u.paint \subseteq e.paint
        /\ \A p \in e.paint : p \in u.paint \/ p \in {s} \X (cells \cap Screen)
        /\ \A c \in cells \cap Screen : <<s, c>> \in e.paint \cup e.lost
    BY <1>20, <2>2, UpdatedIs DEF Fits
  <2>4. PartsOK(e)
    BY <1>25, <2>3 DEF PartsOK, SameDirty
  <2>5. More(u, e)
    BY <1>25, <2>3 DEF PartsOK, SameDirty, SameNodes, More
  <2>6. \A c : Others(e, c) => Others(u, c)
    BY <2>3 DEF Others
  <2> QED
    BY <2>1, <2>3, <2>4, <2>5, <2>6
<1>27. /\ TableOK(d) /\ TableOK(m) /\ TableOK(e)
       /\ Shown(e) = Shown(d) /\ Used(e) = Used(d) /\ e.win = m.win /\ e.menus = <<>>
       /\ \A b : ClipOf(e, b) = ClipOf(m, b) /\ ClipOf(a, b) = ClipOf(d, b)
  <2>1. /\ Shown(u) = Shown(m) /\ Used(u) = Used(m) /\ Shown(e) = Shown(u) /\ Used(e) = Used(u)
    BY <1>25, <1>26, NodesKept
  <2>2. \A b : ClipOf(e, b) = ClipOf(m, b) /\ ClipOf(a, b) = ClipOf(d, b)
    BY <1>12, <1>25, <1>26, SameTableClip DEF Later
  <2> QED
    BY <1>8, <1>9, <1>12, <1>14, <1>16, <1>17, <1>23, <1>25, <1>26, <2>1, <2>2
    DEF Good, Fits, OneNode, SameMenus, SameNodes, Later
<1>28. More(d, e)
  BY <1>14, <1>16, <1>17, <1>24, <1>25, <1>26, <1>27 DEF More, OneNode, SameNodes
<1>29. ASSUME NEW c \in Screen, c \in ClipOf(e, s) PROVE c \in place /\ Told(e, s, c)
  <2>1. /\ \A b \in Shown(d) \ {s} : m.win[b] = d.win[b]
        /\ \A b \in Shown(d) : Over(m, b, s) <=> Over(d, b, s)
    BY <1>9, <1>11, <1>14, <1>16, OneNodeKeeps DEF OneNode, Shown, Listed
  <2>2. c \in rc /\ \A b \in Shown(d) : Over(d, b, s) => c \notin m.win[b].rc
    BY <1>14, <1>16, <1>17, <1>27, <1>29, <2>1, InClip
  <2>3. c \in place
    BY <1>9, <2>1, <2>2, Irreflexive DEF place, Covered, Above, Fits
  <2>4. <<s, c>> \in e.paint \cup e.lost
    <3>1. CASE resized
      BY <1>26, <2>2, <3>1
    <3>2. CASE ~resized
      <4>0. old \in Rects \cup {Screen}
        BY <1>9 DEF Listed, Fits, TableOK, NodesOK, Nodes
      <4>1. PICK y : y = c - by
        OBVIOUS
      <4>2. y \in old
        BY <2>2, <3>2, <4>0, <4>1, SameSize DEF resized, by
      <4>3. CASE y \in Screen /\ TopAt(d, y) = s
        BY <1>10, <1>24, <1>25, <1>26, <2>3, <4>1, <4>3 DEF More
      <4>4. CASE ~(y \in Screen /\ TopAt(d, y) = s)
        <5>1. y \in hidden
          <6>1. CASE y \notin Screen
            BY <4>2, <6>1 DEF hidden
          <6>2. CASE y \in Screen
            <7>1. y \notin ClipOf(d, s)
              BY <1>9, <1>27, <4>4, <6>2, TopIs
            <7>2. PICK b \in Shown(d) : Over(d, b, s) /\ y \in d.win[b].rc
              BY <1>8, <4>2, <6>2, <7>1, InClip
            <7> QED
              BY <4>2, <7>2 DEF hidden, Covered, Above, Shown
          <6> QED
            BY <6>1, <6>2
        <5>2. c \in part
          <6>1. y + by = c
            <7>1. by \in Int /\ c \in Int
              <8>1. First(rc) \in Int /\ First(old) \in Int
                BY <2>2, <3>2, <4>0, SameSize DEF resized
              <8> QED
                BY <8>1, BoundsAssumption DEF by, Screen
            <7> QED
              BY <4>1, <7>1
          <6> QED
            BY <2>2, <5>1, <6>1 DEF part, Shift
        <5> QED
          BY <1>26, <3>2, <5>2
      <4> QED
        BY <4>3, <4>4
    <3> QED
      BY <3>1, <3>2
  <2> QED
    BY <2>3, <2>4 DEF Told
<1>30. ASSUME NEW c \in Screen, NEW b \in (Shown(d) \cup {Desktop}) \ {s}, c \in ClipOf(e, b),
              ~Told(e, b, c)
       PROVE  c \in ClipOf(d, b) /\ (Others(e, c) => Others(d, c))
  <2>1. b \notin T \/ c \notin old
    <3>1. Told(u, b, c) => Told(e, b, c)
      <4>1. b \in Used(u) /\ b \in Used(e) /\ u.win = e.win
        BY <1>9, <1>25, <1>26, <1>27, NodesKept DEF SameNodes, Shown, Listed, TableOK, NodesOK
      <4> QED
        BY <1>26, <4>1 DEF Told, More
    <3> QED
      BY <1>25, <1>30, <3>1
  <2>2. c \in ClipOf(d, b)
    <3>1. b \in Used(a) \ {s}
      BY <1>14, <1>27, <1>30 DEF Shown, Listed, TableOK, NodesOK
    <3>2. ASSUME Over(d, s, b), c \in old PROVE c \in rc
      <4>1. \A p \in Shown(d) \ {s} : Over(d, p, b) => c \notin d.win[p].rc
        <5>1. /\ \A p \in Shown(d) \ {s} : m.win[p] = d.win[p]
              /\ \A p \in Shown(d) : Over(m, p, b) <=> Over(d, p, b)
          BY <1>9, <1>11, <1>14, <1>16, <3>1, OneNodeKeeps DEF OneNode, Shown, Listed
        <5> QED
          BY <1>14, <1>17, <1>27, <1>30, <5>1, InClip
      <4>2. c \in d.win[b].rc
        BY <1>14, <1>16, <1>27, <1>30, <3>1, InClip DEF OneNode
      <4> QED
        BY <1>18a, <1>30, <2>1, <3>2, <4>1, <4>2
    <3> QED
      BY <1>9, <1>11, <1>14, <1>16, <1>17, <1>27, <1>30, <3>1, <3>2, OneNodeGains
  <2>3. Others(e, c) => Others(d, c)
    <3> SUFFICES ASSUME Others(e, c), ~Others(d, c) PROVE FALSE
      OBVIOUS
    <3>1. PICK p \in f.paint : p[1] \notin Slots /\ p[2] = c
      BY <1>24, <1>25, <1>26 DEF Others
    <3>2. c \in place
      BY <1>10, <3>1 DEF Others
    <3>3. c \in ClipOf(m, s)
      <4>1. /\ \A q \in Shown(d) \ {s} : m.win[q] = d.win[q]
            /\ \A q \in Shown(d) : Over(m, q, s) <=> Over(d, q, s)
        BY <1>9, <1>11, <1>14, <1>16, OneNodeKeeps DEF OneNode, Shown, Listed
      <4>2. c \in rc /\ \A q \in Shown(d) : Over(d, q, s) => c \notin d.win[q].rc
        BY <3>2 DEF place, Covered, Above, Shown
      <4>3. \A q \in Shown(m) : Over(m, q, s) => c \notin m.win[q].rc
        BY <1>9, <1>14, <1>17, <4>1, <4>2, Irreflexive DEF Fits
      <4>4. m.menus = <<>>
        BY <1>25, <1>26, <1>27 DEF SameMenus
      <4> QED
        BY <1>16, <4>2, <4>3, <4>4, InClip
    <3> QED
      BY <1>9, <1>14, <1>17, <1>27, <1>30, <3>3, TopIs
  <2> QED
    BY <2>2, <2>3
<1>31. Screened(desk, e)
  <2>1. ASSUME NEW c \in Screen, NEW b \in Shown(e) \cup {Desktop}, c \in ClipOf(e, b), ~Told(e, b, c)
        PROVE  /\ b \in Shown(d) \cup {Desktop} /\ c \in ClipOf(d, b)
               /\ Others(e, c) => Others(d, c)
    BY <1>27, <1>29, <1>30, <2>1
  <2> QED
    BY <1>8, <1>26, <1>27, <1>28, <2>1, ScreenStep
<1> QED
  BY <1>7, <1>22, <1>23, <1>31, DoneKeeps DEF Inv
-----------------------------------------------------------------------------
(* The lists.                                                              *)

\* The nodes but s are in order.
OrderBut(d, s) ==
  /\ \A p \in d.before : /\ p \in Listed(d) \X Listed(d) /\ p[1] # p[2]
                         /\ d.win[p[1]].type = d.win[p[2]].type
  /\ \A a, b \in Listed(d) \ {s} :
       a # b /\ d.win[a].type = d.win[b].type
         => (<<a, b>> \in d.before <=> <<b, a>> \notin d.before)
  /\ \A a, b, c \in Listed(d) \ {s} :
       <<a, b>> \in d.before /\ <<b, c>> \in d.before => <<a, c>> \in d.before

LEMMA ToFrontIs ==
  ASSUME NEW d, NEW s \in Listed(d), OrderBut(d, s),
         NEW e, e.win = d.win, e.before = ToFront(d, s)
  PROVE  /\ OrderOK(e)
         /\ \A a, b : a # s /\ b # s => (<<a, b>> \in e.before <=> <<a, b>> \in d.before)
         /\ \A a : <<a, s>> \notin e.before
         /\ \A b : <<s, b>> \in e.before
                     <=> b \in Listed(d) \ {s} /\ d.win[b].type = d.win[s].type
<1> DEFINE peers == {a \in Listed(d) : d.win[a].type = d.win[s].type} \ {s}
<1>1. ASSUME NEW a, NEW b
      PROVE  <<a, b>> \in e.before
               <=> \/ <<a, b>> \in d.before /\ a \in peers /\ b \in peers
                   \/ <<a, b>> \in d.before /\ ~(a \in peers \cup {s} /\ b \in peers \cup {s})
                   \/ a = s /\ b \in peers
  BY DEF ToFront
<1>2. ASSUME NEW a, NEW b, <<a, b>> \in d.before
      PROVE  /\ a \in Listed(d) /\ b \in Listed(d) /\ a # b
             /\ d.win[a].type = d.win[b].type
  BY <1>2 DEF OrderBut
<1>3. \A a, b : a # s /\ b # s => (<<a, b>> \in e.before <=> <<a, b>> \in d.before)
  BY <1>1, <1>2
<1>4. \A a : <<a, s>> \notin e.before
  BY <1>1, <1>2
<1>5. \A b : <<s, b>> \in e.before <=> b \in peers
  BY <1>1, <1>2
<1>6. Listed(e) = Listed(d)
  BY DEF Listed, Used
<1>7. \A p \in e.before : /\ p \in Listed(e) \X Listed(e) /\ p[1] # p[2]
                          /\ e.win[p[1]].type = e.win[p[2]].type
  <2>1. \A p \in e.before : \E a, b : p = <<a, b>>
    <3>1. \A p \in d.before : \E a, b : p = <<a, b>>
      BY DEF OrderBut
    <3> QED
      BY <3>1 DEF ToFront
  <2>2. ASSUME NEW a, NEW b, <<a, b>> \in e.before
        PROVE  a \in Listed(d) /\ b \in Listed(d) /\ a # b /\ d.win[a].type = d.win[b].type
    BY <1>1, <1>2, <2>2
  <2> QED
    BY <1>6, <2>1, <2>2
<1>8. ASSUME NEW a \in Listed(d), NEW b \in Listed(d), a # b, d.win[a].type = d.win[b].type
      PROVE  <<a, b>> \in e.before <=> <<b, a>> \notin e.before
  <2>1. CASE a # s /\ b # s
    BY <1>3, <1>8, <2>1 DEF OrderBut
  <2>2. CASE a = s
    BY <1>4, <1>5, <1>8, <2>2
  <2>3. CASE b = s
    BY <1>4, <1>5, <1>8, <2>3
  <2> QED
    BY <2>1, <2>2, <2>3
<1>9. ASSUME NEW a \in Listed(d), NEW b \in Listed(d), NEW c \in Listed(d),
             <<a, b>> \in e.before, <<b, c>> \in e.before
      PROVE  <<a, c>> \in e.before
  <2>1. b # s /\ c # s
    BY <1>4, <1>9
  <2>2. <<b, c>> \in d.before
    BY <1>3, <1>9, <2>1
  <2>3. CASE a = s
    <3>1. c \in peers
      BY <1>2, <1>5, <1>9, <2>1, <2>2, <2>3
    <3> QED
      BY <1>5, <2>3, <3>1
  <2>4. CASE a # s
    <3>1. <<a, b>> \in d.before
      BY <1>3, <1>9, <2>1, <2>4
    <3>2. <<a, c>> \in d.before
      BY <2>1, <2>2, <2>4, <3>1 DEF OrderBut
    <3> QED
      BY <1>3, <2>1, <2>4, <3>2
  <2> QED
    BY <2>3, <2>4
<1>10. OrderOK(e)
  <2>1. \A a, b \in Listed(e) :
       a # b /\ e.win[a].type = e.win[b].type
         => (<<a, b>> \in e.before <=> <<b, a>> \notin e.before)
    BY <1>6, <1>8
  <2>2. \A a, b, c \in Listed(e) :
       <<a, b>> \in e.before /\ <<b, c>> \in e.before => <<a, c>> \in e.before
    BY <1>6, <1>9
  <2> QED
    BY <1>7, <2>1, <2>2 DEF OrderOK
<1> QED
  BY <1>3, <1>4, <1>5, <1>10

LEMMA Move2TopKeeps ==
  ASSUME Inv, NEW s \in Slots, Move2Top(s) PROVE Inv'
<1>1. PICK d : d = ForceCloseMenu(desk)
  OBVIOUS
<1> DEFINE rc == d.win[s].rc
<1>2. PICK passed : passed = {a \in Shown(d) : /\ <<a, s>> \in d.before
                                  /\ d.win[s].visible /\ d.win[a].rc \cap rc # {}}
  OBVIOUS
<1>3. PICK part : part = Covered(d, passed) \cap rc
  OBVIOUS
<1>4. PICK a : a = Aged(d, passed \cup {s})
  OBVIOUS
<1>5. PICK m : m = [a EXCEPT !.before = ToFront(d, s)]
  OBVIOUS
<1>6. PICK e : e \in Updated(m, s, part) /\ desk' = Done(e)
  BY <1>1, <1>2, <1>3, <1>4, <1>5 DEF Move2Top
<1>7. clients' = clients /\ s \in Owned
  BY DEF Move2Top
<1>8. Good(d, clients) /\ SameNodes(desk, d) /\ Screened(desk, d)
  BY <1>1, ForceGood DEF Inv
<1>9. s \in Listed(d) /\ Fits(d) /\ DOMAIN d = Fields /\ TableOK(d)
  BY <1>7, <1>8, NodesKept DEF Owned, Good, Fits
<1>10. /\ DOMAIN a = Fields
       /\ SameNodes(d, a) /\ SameMenus(d, a) /\ SameDirty(d, a) /\ SameScreen(d, a)
       /\ a.active = d.active /\ FewerClips(d, a, passed \cup {s})
  BY <1>4, <1>9, AgedIs
<1>11. /\ DOMAIN m = Fields /\ m.win = d.win /\ m.free = d.free /\ m.nr = d.nr
       /\ m.before = ToFront(d, s)
       /\ SameMenus(d, m) /\ SameDirty(d, m) /\ SameScreen(d, m)
       /\ m.active = d.active /\ FewerClips(d, m, passed \cup {s})
  <2>1. /\ DOMAIN m = Fields /\ m.win = a.win /\ m.free = a.free /\ m.nr = a.nr
        /\ m.before = ToFront(d, s)
        /\ SameMenus(a, m) /\ SameDirty(a, m) /\ SameScreen(a, m)
        /\ m.active = a.active /\ m.clip = a.clip
    BY <1>5, <1>10 DEF Fields, SameMenus, SameDirty, SameScreen
  <2> QED
    BY <1>10, <2>1 DEF SameNodes, SameMenus, SameDirty, SameScreen, FewerClips
<1>12. Used(m) = Used(d) /\ Listed(m) = Listed(d) /\ Shown(m) = Shown(d)
  BY <1>11 DEF Used, Listed, Shown
<1>13. OrderBut(d, s)
  BY <1>9 DEF TableOK, OrderOK, OrderBut
<1>14. /\ OrderOK(m)
       /\ \A p, q : p # s /\ q # s => (<<p, q>> \in m.before <=> <<p, q>> \in d.before)
       /\ \A q : <<s, q>> \in m.before
                   <=> q \in Listed(d) \ {s} /\ d.win[q].type = d.win[s].type
  BY <1>9, <1>11, <1>13, ToFrontIs
<1>15. TableOK(m)
  <2>1. NodesOK(m)
    BY <1>9, <1>11, <1>12 DEF TableOK, NodesOK
  <2>2. \A t : Of(m, t) = Of(d, t)
    BY <1>11, <1>12 DEF Of
  <2>3. CountsOK(m)
    BY <1>9, <1>11, <1>12, <2>2 DEF TableOK, CountsOK
  <2> QED
    BY <1>14, <2>1, <2>3 DEF TableOK
<1>16. Fits(m)
  BY <1>9, <1>11, <1>12, <1>15 DEF Fits, RestOK, SameMenus, SameDirty, SameScreen, FewerClips
<1>17. OwnersOK(m, clients)
  BY <1>8, <1>11, <1>12 DEF Good, OwnersOK, Theirs, SameMenus
<1>18. Sound(m)
  <2>1. ASSUME NEW b \in DOMAIN d.clip \ (passed \cup {s}), b \in Shown(d) \cup {Desktop}
        PROVE  ClipOf(m, b) = ClipOf(d, b)
    <3>1. \A p : p # s => (Over(m, p, b) <=> Over(d, p, b))
      BY <1>11, <1>14, <2>1 DEF Over
    <3>2. ASSUME NEW x, s \in Shown(d), x \in d.win[s].rc, x \in d.win[b].rc
          PROVE  Over(m, s, b) <=> Over(d, s, b)
      <4>1. CASE <<s, b>> \in m.before /\ <<s, b>> \notin d.before
        <5>1. b \in Listed(d) \ {s} /\ d.win[b].type = d.win[s].type
          BY <1>14, <4>1
        <5>2. <<b, s>> \in d.before
          BY <1>9, <4>1, <5>1 DEF TableOK, OrderOK
        <5>3. b \in Shown(d) /\ d.win[s].visible
          BY <2>1, <3>2, <5>1 DEF Listed, Shown
        <5> QED
          BY <1>2, <2>1, <3>2, <5>2, <5>3
      <4>2. CASE <<s, b>> \in d.before
        <5>1. b \in Listed(d) \ {s} /\ d.win[b].type = d.win[s].type
          BY <1>13, <4>2 DEF OrderBut
        <5> QED
          BY <1>14, <4>2, <5>1 DEF Over
      <4>3. CASE <<s, b>> \notin m.before /\ <<s, b>> \notin d.before
        BY <1>11, <4>3 DEF Over
      <4> QED
        BY <4>1, <4>2, <4>3
    <3>3. m.menus = d.menus /\ m.win = d.win
      BY <1>11 DEF SameMenus
    <3> QED
      BY <1>12, <3>1, <3>2, <3>3, SameClip
  <2> QED
    BY <1>8, <1>11, <1>12, <2>1, ClipsStay DEF Good
<1>19. Good(e, clients)
  BY <1>6, <1>16, <1>17, <1>18, UpdatedGood DEF Good
<1>20. /\ SameNodes(m, e) /\ SameMenus(m, e) /\ SameDirty(m, e)
       /\ m.lost \subseteq e.lost /\ m.paint \subseteq e.paint
       /\ \A p \in e.paint : p \in m.paint \/ p \in {s} \X (part \cap Screen)
       /\ \A c \in part \cap Screen : <<s, c>> \in e.paint \cup e.lost
  BY <1>6, <1>11, UpdatedIs
<1>21. /\ TableOK(e) /\ Shown(e) = Shown(d) /\ e.win = d.win /\ e.menus = d.menus /\ m.menus = d.menus
       /\ \A b : ClipOf(e, b) = ClipOf(m, b)
       /\ Used(e) = Used(d)
  BY <1>11, <1>12, <1>15, <1>20, NodesKept, SameTableClip DEF SameNodes, SameMenus
<1>22. PartsOK(e) /\ More(d, e) /\ \A c : Others(e, c) => Others(d, c)
  <2>1. /\ e.dirty = d.dirty /\ e.told = d.told /\ d.lost \subseteq e.lost /\ d.paint \subseteq e.paint
        /\ \A p \in e.paint : p \in d.paint \/ p \in {s} \X (part \cap Screen)
    BY <1>11, <1>20 DEF SameDirty, SameScreen
  <2>2. PartsOK(e)
    BY <1>8, <2>1 DEF Screened, PartsOK
  <2>3. \A c : Others(e, c) => Others(d, c)
    BY <2>1 DEF Others
  <2> QED
    BY <1>21, <2>1, <2>2, <2>3 DEF More
<1>23. ASSUME NEW c \in Screen, NEW b \in Shown(e) \cup {Desktop}, c \in ClipOf(e, b), ~Told(e, b, c)
       PROVE  c \in ClipOf(d, b)
  <2>1. /\ c \in d.win[b].rc /\ \A i \in DOMAIN d.menus : c \notin d.menus[i]
        /\ \A p \in Shown(d) : Over(m, p, b) => c \notin d.win[p].rc
    BY <1>11, <1>12, <1>21, <1>23, InClip
  <2> SUFFICES ASSUME NEW p \in Shown(d), Over(d, p, b), c \in d.win[p].rc PROVE FALSE
    BY <1>23, <2>1, InClip
  <2>2. ~Over(m, p, b)
    BY <2>1
  <2>3. <<p, b>> \in d.before /\ <<p, b>> \notin m.before
    BY <1>11, <2>2 DEF Over
  <2>4. p \in Listed(d) /\ b \in Listed(d) /\ p # b /\ d.win[p].type = d.win[b].type
    BY <1>13, <2>3 DEF OrderBut
  <2>5. b = s
    BY <1>14, <2>3, <2>4
  <2>6. d.win[s].visible
    BY <1>21, <1>23, <2>4, <2>5 DEF Shown, Listed
  <2>7. p \in passed
    BY <1>2, <2>1, <2>3, <2>5, <2>6
  <2>8. c \in part
    BY <1>3, <2>1, <2>5, <2>7 DEF Covered
  <2> QED
    BY <1>20, <1>23, <2>5, <2>8 DEF Told
<1>24. Screened(desk, e)
  BY <1>8, <1>9, <1>21, <1>22, <1>23, ScreenStep
<1> QED
  BY <1>6, <1>7, <1>19, <1>24, DoneKeeps DEF Inv
-----------------------------------------------------------------------------
(* Slots and counts.                                                       *)

LEMMA MaxOfIs ==
  /\ DOMAIN MaxOf = Lists
  /\ MaxOf[GLOBAL] = MaxGlobals /\ MaxOf[TOPMOST] = MaxTopmosts /\ MaxOf[NORMAL] = MaxNormals
  BY DEF MaxOf, Lists, GLOBAL, TOPMOST, NORMAL

\* A set that is smaller than an interval of slots leaves one of them out.
LEMMA OneLeft ==
  ASSUME NEW a \in Nat, NEW b \in Nat, NEW S \in SUBSET Slots, Cardinality(S) < b - a + 1,
         a <= b + 1, a .. b \subseteq Slots
  PROVE  \E s \in a .. b : s \notin S
<1>1. IsFiniteSet(a .. b) /\ Cardinality(a .. b) = b - a + 1
  <2>1. IsFiniteSet(a .. b) /\ Cardinality(a .. b) = IF a > b THEN 0 ELSE b - a + 1
    BY FS_Interval
  <2> QED
    BY <2>1
<1>2. CASE a .. b \subseteq S
  <2>1. Cardinality(a .. b) <= Cardinality(S)
    BY <1>2, SlotsFinite, FS_Subset
  <2> QED
    BY <1>1, <2>1, SlotsFinite
<1> QED
  BY <1>2

LEMMA SlotFound ==
  ASSUME NEW d, TableOK(d), NEW t \in Lists, d.nr[t] < MaxOf[t]
  PROVE  /\ FreeSlots(d, t) # {}
         /\ First(FreeSlots(d, t)) \in FreeSlots(d, t)
         /\ First(FreeSlots(d, t)) < MaxGlobals <=> t = GLOBAL
<1>1. /\ \A u : Of(d, u) \subseteq Slots /\ Cardinality(Of(d, u)) \in Nat
      /\ Desktop \in Slots /\ d.free = Slots \ Used(d)
  BY SlotsFinite DEF TableOK, NodesOK, CountsOK, Of, Listed
<1>2. /\ MaxGlobals \in Nat \ {0} /\ MaxTopmosts \in Nat /\ MaxNormals \in Nat
  BY BoundsAssumption
<1>3. \A s \in Listed(d) : s \in Of(d, GLOBAL) \cup Of(d, TOPMOST) \cup Of(d, NORMAL)
  BY DEF TableOK, NodesOK, Lists, Of
<1>4. CASE t = GLOBAL
  <2> DEFINE G == Of(d, GLOBAL) \cup {Desktop}
  <2>1. Cardinality(G) = Cardinality(Of(d, GLOBAL)) + 1
    <3>1. Desktop \notin Of(d, GLOBAL) /\ IsFiniteSet(Of(d, GLOBAL))
      BY <1>1, SlotsFinite DEF Of, Listed
    <3> QED
      BY <3>1, FS_AddElement
  <2>2. Cardinality(G) < MaxGlobals
    <3>1. d.nr[GLOBAL] = Cardinality(Of(d, GLOBAL)) + 1
      BY <1>4 DEF TableOK, CountsOK
    <3> QED
      BY <1>4, <2>1, <3>1, MaxOfIs
  <2>3. \E s \in 0 .. MaxGlobals - 1 : s \notin G
    <3>1. PICK b : b = MaxGlobals - 1
      OBVIOUS
    <3>2. b \in Nat /\ Cardinality(G) < b - 0 + 1 /\ 0 .. b \subseteq Slots /\ 0 <= b + 1
      BY <1>2, <2>2, <3>1 DEF Slots
    <3>3. G \in SUBSET Slots
      BY <1>1
    <3> HIDE DEF G
    <3> QED
      BY <3>1, <3>2, <3>3, OneLeft
  <2>4. PICK s \in 0 .. MaxGlobals - 1 : s \notin G
    BY <2>3
  <2>5. s \in Nat /\ s < MaxGlobals /\ s \in Slots
    BY <1>2, <2>4 DEF Slots
  <2>6. s \notin Used(d)
    BY <1>3, <2>4, <2>5, TypesDiffer DEF TableOK, NodesOK, Listed, Of
  <2>7. s \in FreeSlots(d, t)
    BY <1>1, <1>4, <2>5, <2>6 DEF FreeSlots
  <2>8. FreeSlots(d, t) \in SUBSET Nat /\ IsFiniteSet(FreeSlots(d, t))
    BY <1>1, SlotsFinite DEF FreeSlots
  <2>9. /\ First(FreeSlots(d, t)) \in FreeSlots(d, t)
        /\ First(FreeSlots(d, t)) <= s
    BY <2>7, <2>8, Ends
  <2> QED
    BY <1>2, <1>4, <2>5, <2>7, <2>8, <2>9
<1>5. CASE t # GLOBAL
  <2> DEFINE N == Of(d, NORMAL)
             O == Of(d, TOPMOST)
  <2>1. Cardinality(N \cup O) = Cardinality(N) + Cardinality(O)
    <3>1. N \cap O = {}
      BY TypesDiffer DEF Of
    <3> HIDE DEF N, O
    <3>2. IsFiniteSet(N) /\ IsFiniteSet(O) /\ Cardinality(N) \in Nat /\ Cardinality(O) \in Nat
      BY <1>1, SlotsFinite DEF N, O
    <3>3. Cardinality(N \cup O) = Cardinality(N) + Cardinality(O) - Cardinality(N \cap O)
      BY <3>2, FS_Union
    <3>4. Cardinality(N \cap O) = 0
      BY <3>1, FS_EmptySet
    <3> QED
      BY <3>2, <3>3, <3>4
  <2>2. Cardinality(N \cup O) < MaxNormals + MaxTopmosts
    <3>1. /\ d.nr[NORMAL] = Cardinality(N) + 0 /\ d.nr[TOPMOST] = Cardinality(O) + 0
          /\ d.nr[NORMAL] <= MaxNormals /\ d.nr[TOPMOST] <= MaxTopmosts
      BY MaxOfIs, TypesDiffer DEF TableOK, CountsOK
    <3>2. d.nr[NORMAL] < MaxNormals \/ d.nr[TOPMOST] < MaxTopmosts
      BY <1>5, MaxOfIs, TypesDiffer
    <3> QED
      BY <1>1, <1>2, <2>1, <3>1, <3>2
  <2>3. \E s \in MaxGlobals .. MaxGlobals + MaxTopmosts + MaxNormals - 1 : s \notin N \cup O
    <3>1. PICK b : b = MaxGlobals + MaxTopmosts + MaxNormals - 1
      OBVIOUS
    <3>2. /\ b \in Nat /\ Cardinality(N \cup O) < b - MaxGlobals + 1
          /\ MaxGlobals .. b \subseteq Slots /\ MaxGlobals <= b + 1
      <4>1. PICK k : k = Cardinality(N \cup O)
        OBVIOUS
      <4>2. k < MaxNormals + MaxTopmosts
        BY <2>2, <4>1
      <4>3. b \in Nat /\ b - MaxGlobals + 1 = MaxNormals + MaxTopmosts /\ MaxGlobals <= b + 1
        BY <1>2, <3>1
      <4>4. MaxGlobals .. b \subseteq 0 .. b
        BY <1>2, <4>3
      <4> QED
        BY <3>1, <4>1, <4>2, <4>3, <4>4 DEF Slots
    <3>3. N \cup O \in SUBSET Slots
      BY <1>1
    <3> HIDE DEF N, O
    <3> QED
      BY <1>2, <3>1, <3>2, <3>3, OneLeft
  <2>4. PICK s \in MaxGlobals .. MaxGlobals + MaxTopmosts + MaxNormals - 1 : s \notin N \cup O
    BY <2>3
  <2>5. s \in Nat /\ s >= MaxGlobals /\ s \in Slots
    BY <1>2, <2>4 DEF Slots
  <2>6. s \notin Used(d)
    <3>1. s # Desktop
      BY <1>2, <2>5 DEF Desktop
    <3>2. s \notin Of(d, GLOBAL)
      BY <1>2, <2>5 DEF TableOK, NodesOK, Of
    <3> QED
      BY <1>3, <2>4, <3>1, <3>2 DEF Listed
  <2>7. s \in FreeSlots(d, t)
    BY <1>1, <2>5, <2>6 DEF FreeSlots
  <2>8. FreeSlots(d, t) \in SUBSET Nat /\ IsFiniteSet(FreeSlots(d, t))
    BY <1>1, SlotsFinite DEF FreeSlots
  <2>9. First(FreeSlots(d, t)) \in FreeSlots(d, t)
    BY <2>7, <2>8, Ends
  <2>10. First(FreeSlots(d, t)) >= MaxGlobals /\ First(FreeSlots(d, t)) \in Nat
    BY <1>5, <2>8, <2>9 DEF FreeSlots
  <2> QED
    BY <1>2, <1>5, <2>7, <2>9, <2>10
<1> QED
  BY <1>4, <1>5

\* A new node.
LEMMA AllocNodes ==
  ASSUME NEW d, Fits(d), NEW t \in Lists, d.nr[t] < MaxOf[t],
         NEW slot, slot = First(FreeSlots(d, t)),
         NEW node \in Nodes, node.type = t,
         NEW e, DOMAIN e = Fields,
         e.win = [s \in Used(d) \cup {slot} |-> IF s = slot THEN node ELSE d.win[s]],
         e.free = d.free \ {slot},
         e.nr = [d.nr EXCEPT ![t] = @ + 1]
  PROVE  /\ NodesOK(e) /\ CountsOK(e) /\ slot \notin Used(d) /\ slot \in Slots /\ slot # Desktop
         /\ Used(e) = Used(d) \cup {slot} /\ Listed(e) = Listed(d) \cup {slot}
         /\ e.win[slot] = node /\ \A s \in Used(d) : e.win[s] = d.win[s]
<1>1. /\ slot \in Slots /\ slot \notin Used(d)
      /\ slot < MaxGlobals <=> t = GLOBAL
  <2>1. TableOK(d)
    BY DEF Fits
  <2>2. slot \in FreeSlots(d, t) /\ (slot < MaxGlobals <=> t = GLOBAL)
    BY <2>1, SlotFound
  <2> QED
    BY <2>1, <2>2 DEF TableOK, CountsOK, FreeSlots
<1>2. slot # Desktop
  BY <1>1 DEF Fits, TableOK, NodesOK
<1>3. /\ DOMAIN e.win = DOMAIN d.win \cup {slot} /\ e.win[slot] = node
      /\ \A s \in DOMAIN d.win : e.win[s] = d.win[s]
  BY <1>1 DEF Used
<1>4. Used(e) = Used(d) \cup {slot} /\ Listed(e) = Listed(d) \cup {slot}
  BY <1>2, <1>3 DEF Used, Listed
<1>5. \A s \in Used(d) : e.win[s] = d.win[s]
  BY <1>3 DEF Used
<1>6. NodesOK(e)
  <2>1. NodesOK(d)
    BY DEF Fits, TableOK
  <2>2. \A s \in Used(e) : e.win[s] \in Nodes
    BY <1>3, <1>4, <1>5, <2>1 DEF NodesOK
  <2>3. \A s \in Listed(e) : e.win[s].type \in Lists /\ (s < MaxGlobals <=> e.win[s].type = GLOBAL)
    BY <1>1, <1>3, <1>4, <1>5, <2>1 DEF NodesOK, Listed
  <2> QED
    BY <1>1, <1>4, <1>5, <2>1, <2>2, <2>3 DEF NodesOK
<1>7. CountsOK(e)
  <2>1. CountsOK(d) /\ \A u : Of(d, u) \in SUBSET Slots
    BY DEF Fits, TableOK, NodesOK, Of, Listed
  <2>2. Of(e, t) = Of(d, t) \cup {slot} /\ slot \notin Of(d, t)
    BY <1>1, <1>3, <1>4, <1>5 DEF Of, Listed
  <2>3. \A u : u # t => Of(e, u) = Of(d, u)
    BY <1>3, <1>4, <1>5 DEF Of, Listed
  <2>4. Cardinality(Of(e, t)) = Cardinality(Of(d, t)) + 1 /\ Cardinality(Of(d, t)) \in Nat
    BY <2>1, <2>2, SlotsFinite, FS_AddElement
  <2>5. e.free = Slots \ Used(e) /\ DOMAIN e.nr = Lists
    BY <1>1, <1>4, <2>1 DEF CountsOK
  <2>6. ASSUME NEW u \in Lists
        PROVE  /\ e.nr[u] = Cardinality(Of(e, u)) + (IF u = GLOBAL THEN 1 ELSE 0)
               /\ e.nr[u] <= MaxOf[u]
    <3>1. CASE u = t
      <4>1. e.nr[t] = d.nr[t] + 1
        BY <2>1 DEF CountsOK
      <4>2. d.nr[t] = Cardinality(Of(d, t)) + (IF t = GLOBAL THEN 1 ELSE 0)
        BY <2>1 DEF CountsOK
      <4>3. MaxOf[t] \in Nat
        BY MaxOfIs, TypesDiffer, BoundsAssumption
      <4> QED
        BY <2>4, <3>1, <4>1, <4>2, <4>3
    <3>2. CASE u # t
      BY <2>1, <2>3, <3>2 DEF CountsOK
    <3> QED
      BY <3>1, <3>2
  <2> QED
    BY <2>5, <2>6 DEF CountsOK
<1> QED
  BY <1>1, <1>2, <1>3, <1>4, <1>5, <1>6, <1>7

LEMMA AllocKeeps ==
  ASSUME Inv, NEW c \in Processes, NEW t \in TypesOf(c), NEW rc \in Rects, NEW visible \in BOOLEAN,
         AllocZOrderNode(c, t, rc, visible)
  PROVE  Inv'
<1>1. PICK d : d = IF visible THEN ForceCloseMenu(desk) ELSE desk
  OBVIOUS
<1>2. PICK slot : slot = First(FreeSlots(d, t))
  OBVIOUS
<1>3. PICK under : under = Overlapped(d, rc, {b \in Listed(d) : d.win[b].type <= t})
  OBVIOUS
<1>4. PICK node : node = [type |-> t, visible |-> visible, cli |-> c, rc |-> rc]
  OBVIOUS
<1>5. PICK aged : aged = IF visible THEN under ELSE {}
  OBVIOUS
<1>6. PICK a : a = Aged(d, aged)
  OBVIOUS
<1>7. PICK n : n = [a EXCEPT !.win = [s \in Used(d) \cup {slot} |-> IF s = slot THEN node ELSE @[s]],
                             !.free = @ \ {slot}, !.nr[t] = @ + 1]
  OBVIOUS
<1>8. PICK m : m = [n EXCEPT !.before = ToFront(n, slot)]
  OBVIOUS
<1>9. /\ c \in clients \cup {Server} /\ desk.nr[t] < MaxOf[t]
      /\ desk' = Done(IF visible THEN Painted(m, {slot}, rc) ELSE m)
      /\ clients' = clients
  <2> DEFINE D == IF visible THEN ForceCloseMenu(desk) ELSE desk
             L == First(FreeSlots(D, t))
             U == Overlapped(D, rc, {b \in Listed(D) : D.win[b].type <= t})
             W == [type |-> t, visible |-> visible, cli |-> c, rc |-> rc]
             A == Aged(D, IF visible THEN U ELSE {})
             D1 == [A EXCEPT !.win = [s \in Used(D) \cup {L} |-> IF s = L THEN W ELSE @[s]],
                             !.free = @ \ {L}, !.nr[t] = @ + 1]
             D2 == [D1 EXCEPT !.before = ToFront(D1, L)]
  <2>1. /\ c \in clients \cup {Server} /\ desk.nr[t] < MaxOf[t]
        /\ desk' = Done(IF visible THEN Painted(D2, {L}, rc) ELSE D2)
        /\ clients' = clients
    BY Zenon DEF AllocZOrderNode
  <2>2. D = d
    BY <1>1
  <2> HIDE DEF D
  <2>3. L = slot /\ U = under /\ W = node
    BY <1>2, <1>3, <1>4, <2>2
  <2> HIDE DEF L, U, W
  <2>4. A = a
    BY <1>5, <1>6, <2>2, <2>3
  <2> HIDE DEF A
  <2>5. D1 = n
    BY <1>7, <2>2, <2>3, <2>4
  <2> HIDE DEF D1
  <2>6. D2 = m
    BY <1>8, <2>3, <2>5
  <2> HIDE DEF D2
  <2> QED
    BY <2>1, <2>3, <2>6
<1>10. Good(d, clients) /\ SameNodes(desk, d) /\ Screened(desk, d)
  <2>1. /\ Good(ForceCloseMenu(desk), clients) /\ SameNodes(desk, ForceCloseMenu(desk))
        /\ Screened(desk, ForceCloseMenu(desk))
    BY ForceGood DEF Inv
  <2> QED
    BY <1>1, <2>1 DEF Inv, SameNodes
<1>11. Fits(d) /\ DOMAIN d = Fields /\ TableOK(d) /\ d.nr[t] < MaxOf[t] /\ DOMAIN d.nr = Lists
  BY <1>9, <1>10 DEF Good, Fits, TableOK, CountsOK, SameNodes
<1>12. t \in Lists /\ t \in Nat /\ node \in Nodes
       /\ node.type = t /\ node.visible = visible /\ node.cli = c /\ node.rc = rc
  <2>1. t \in Lists
    BY DEF TypesOf, Lists
  <2> QED
    BY <1>4, <2>1, TypesDiffer DEF Nodes
<1>13. /\ DOMAIN a = Fields
       /\ SameNodes(d, a) /\ SameMenus(d, a) /\ SameDirty(d, a) /\ SameScreen(d, a)
       /\ a.active = d.active /\ FewerClips(d, a, aged)
  BY <1>6, <1>11, AgedIs
<1>14. /\ DOMAIN n = Fields /\ n.before = d.before
       /\ n.win = [s \in Used(d) \cup {slot} |-> IF s = slot THEN node ELSE d.win[s]]
       /\ n.free = d.free \ {slot} /\ n.nr = [d.nr EXCEPT ![t] = @ + 1]
       /\ SameMenus(d, n) /\ SameDirty(d, n) /\ SameScreen(d, n)
       /\ n.active = d.active /\ FewerClips(d, n, aged)
  <2>1. /\ DOMAIN n = Fields /\ n.before = a.before
        /\ n.win = [s \in Used(d) \cup {slot} |-> IF s = slot THEN node ELSE a.win[s]]
        /\ n.free = a.free \ {slot} /\ n.nr = [a.nr EXCEPT ![t] = @ + 1]
        /\ SameMenus(a, n) /\ SameDirty(a, n) /\ SameScreen(a, n)
        /\ n.active = a.active /\ n.clip = a.clip
    BY <1>7, <1>13 DEF Fields, SameMenus, SameDirty, SameScreen
  <2> QED
    BY <1>13, <2>1 DEF SameNodes, SameMenus, SameDirty, SameScreen, FewerClips
<1>15. /\ slot \notin Used(d) /\ slot \in Slots /\ slot # Desktop
       /\ Used(n) = Used(d) \cup {slot} /\ Listed(n) = Listed(d) \cup {slot}
       /\ n.win[slot] = node /\ \A s \in Used(d) : n.win[s] = d.win[s]
  BY <1>2, <1>11, <1>12, <1>14, AllocNodes
<1>16. /\ DOMAIN m = Fields /\ m.before = ToFront(n, slot) /\ m.win = n.win
       /\ m.free = n.free /\ m.nr = n.nr
       /\ SameMenus(d, m) /\ SameDirty(d, m) /\ SameScreen(d, m)
       /\ m.active = d.active /\ FewerClips(d, m, aged)
  BY <1>8, <1>14 DEF Fields, SameMenus, SameDirty, SameScreen, FewerClips
<1>17. NodesOK(m) /\ CountsOK(m)
  BY <1>2, <1>11, <1>12, <1>14, <1>16, AllocNodes
<1>18. /\ Used(m) = Used(d) \cup {slot} /\ Listed(m) = Listed(d) \cup {slot}
       /\ m.win[slot] = node /\ \A s \in Used(d) : m.win[s] = d.win[s]
  BY <1>15, <1>16 DEF Used, Listed
<1>19. OrderBut(n, slot)
  <2>1. Listed(n) \ {slot} = Listed(d) /\ Listed(d) \subseteq Used(d)
    BY <1>15 DEF Listed
  <2>2. \A s \in Listed(d) : n.win[s] = d.win[s]
    BY <1>15 DEF Listed
  <2>3. OrderOK(d) /\ n.before = d.before
    BY <1>11, <1>14 DEF TableOK
  <2> QED
    BY <1>15, <2>1, <2>2, <2>3 DEF OrderOK, OrderBut
<1>20. /\ OrderOK(m)
       /\ \A p, q : p # slot /\ q # slot => (<<p, q>> \in m.before <=> <<p, q>> \in d.before)
       /\ \A q : <<slot, q>> \in m.before
                   <=> q \in Listed(n) \ {slot} /\ n.win[q].type = n.win[slot].type
  BY <1>14, <1>15, <1>16, <1>19, ToFrontIs
<1>21. TableOK(m)
  BY <1>17, <1>20 DEF TableOK
<1>22. Fits(m)
  <2>1. RestOK(m)
    BY <1>11, <1>16, <1>18 DEF Fits, RestOK, SameMenus, SameDirty, SameScreen, FewerClips
  <2> QED
    BY <1>16, <1>21, <2>1 DEF Fits
<1>23. OwnersOK(m, clients)
  <2>1. OwnersOK(d, clients)
    BY <1>10 DEF Good
  <2>2. \A s \in Listed(m) : m.win[s].cli \in clients \cup {Server}
    BY <1>9, <1>12, <1>18, <2>1 DEF OwnersOK, Theirs, Listed
  <2> QED
    BY <1>16, <1>18, <2>1, <2>2 DEF OwnersOK, Theirs, SameMenus
<1>24. Sound(m)
  <2>1. ASSUME NEW b \in DOMAIN d.clip \ aged, b \in Shown(m) \cup {Desktop}
        PROVE  b \in Shown(d) \cup {Desktop} /\ ClipOf(m, b) = ClipOf(d, b)
    <3>1. b \in Used(d) /\ b # slot /\ b \in Used(m)
      BY <1>11, <1>15, <1>18 DEF Fits, RestOK
    <3>2. b \in Shown(d) \cup {Desktop}
      BY <1>18, <2>1, <3>1 DEF Shown, Listed
    <3>3. \A p \in Shown(d) : /\ p \in Shown(m) /\ p # slot
                              /\ m.win[p] = d.win[p] /\ (Over(m, p, b) <=> Over(d, p, b))
      BY <1>15, <1>18, <1>20, <3>1 DEF Shown, Listed, Over
    <3>4. \A p \in Shown(m) : p = slot \/ p \in Shown(d)
      BY <1>18 DEF Shown, Listed
    <3>5. ASSUME NEW x \in rc, x \in d.win[b].rc, slot \in Shown(m), Over(m, slot, b)
          PROVE  FALSE
      <4>1. visible
        BY <1>12, <1>18, <3>5 DEF Shown
      <4>2. b = Desktop \/ (b \in Listed(d) /\ d.win[b].type <= t)
        <5>1. CASE m.win[slot].type > m.win[b].type
          <6>1. b # Desktop => d.win[b].type \in Nat
            BY <1>11, <3>1, TypesDiffer DEF TableOK, NodesOK, Listed
          <6> QED
            BY <1>12, <1>18, <3>1, <5>1, <6>1 DEF Listed
        <5>2. CASE <<slot, b>> \in m.before
          BY <1>12, <1>15, <1>20, <3>1, <5>2 DEF Listed
        <5> QED
          BY <3>5, <5>1, <5>2 DEF Over
      <4>3. b \in under
        BY <1>3, <3>2, <3>5, <4>2 DEF Overlapped
      <4> QED
        BY <1>5, <2>1, <4>1, <4>3
    <3>6. m.menus = d.menus /\ m.win[b] = d.win[b] /\ m.win[slot].rc = rc
      BY <1>12, <1>16, <1>18, <3>1 DEF SameMenus
    <3>7. ASSUME NEW x \in Screen, x \in d.win[b].rc
          PROVE  (\E p \in Shown(d) : Over(d, p, b) /\ x \in d.win[p].rc)
                   <=> (\E p \in Shown(m) : Over(m, p, b) /\ x \in m.win[p].rc)
      BY <3>3, <3>4, <3>5, <3>6, <3>7
    <3>8. ClipOf(m, b) = ClipOf(d, b)
      BY <3>6, <3>7, SameClip
    <3> QED
      BY <3>2, <3>8
  <2> QED
    BY <1>10, <1>16, <2>1, ClipsStay DEF Good
<1>25. PICK e : e = IF visible THEN Painted(m, {slot}, rc) ELSE m
  OBVIOUS
<1>26. Good(e, clients)
  <2>1. CASE e = Painted(m, {slot}, rc)
    <3>1. Fits(e) /\ Later(m, e, {})
      BY <1>22, <2>1, PaintedFits
    <3> QED
      BY <1>23, <1>24, <3>1, LaterSound, LaterOwners DEF Good, Sound, SoundBut
  <2>2. CASE e = m
    BY <1>22, <1>23, <1>24, <2>2 DEF Good
  <2> QED
    BY <1>25, <2>1, <2>2
<1>27. ASSUME NEW x \in Screen, NEW b \in Shown(m) \cup {Desktop}, x \in ClipOf(m, b),
              ~(b = slot /\ x \in rc)
       PROVE  b \in Shown(d) \cup {Desktop} /\ x \in ClipOf(d, b)
  <2>1. b # slot
    BY <1>12, <1>18, <1>27, InClip
  <2>2. b \in Used(d) /\ b \in Shown(d) \cup {Desktop}
    BY <1>11, <1>18, <1>27, <2>1 DEF Shown, Listed, TableOK, NodesOK
  <2>3. \A p \in Shown(d) : /\ p \in Shown(m)
                            /\ m.win[p] = d.win[p] /\ (Over(m, p, b) <=> Over(d, p, b))
    BY <1>15, <1>18, <1>20, <2>2 DEF Shown, Listed, Over
  <2>4. m.menus = d.menus /\ m.win[b] = d.win[b]
    BY <1>16, <1>18, <2>2 DEF SameMenus
  <2> QED
    BY <1>27, <2>2, <2>3, <2>4, InClip
<1>28. Screened(desk, e)
  <2>1. /\ \A b \in Used(d) \cap Used(m) : m.win[b].cli = d.win[b].cli
        /\ m.menus = d.menus /\ slot # Menu
    BY <1>15, <1>16, <1>18, SlotsFinite DEF SameMenus, Menu
  <2>2. CASE visible
    <3>1. e = Painted(m, {slot}, rc)
      BY <1>25, <2>2
    <3> QED
      BY <1>10, <1>11, <1>15, <1>16, <1>21, <1>27, <2>1, <3>1, PaintScreen
  <2>3. CASE ~visible
    <3>1. slot \notin Shown(m)
      BY <1>12, <1>18, <2>3 DEF Shown
    <3>2. PartsOK(m) /\ More(d, m) /\ m.paint = d.paint
      BY <1>10, <1>16, <2>1 DEF SameDirty, SameScreen, Screened, PartsOK, More
    <3>3. Screened(desk, m)
      BY <1>10, <1>11, <1>15, <1>21, <1>27, <2>1, <3>1, <3>2, ScreenStep DEF Others
    <3> QED
      BY <1>25, <2>3, <3>3
  <2> QED
    BY <2>2, <2>3
<1> QED
  BY <1>9, <1>25, <1>26, <1>28, DoneKeeps DEF Inv

\* Nodes that go.
LEMMA UnchainedIs ==
  ASSUME NEW d, Fits(d), NEW S \in SUBSET Listed(d), NEW e, e = Unchained(d, S)
  PROVE  /\ Fits(e) /\ FewerClips(d, e, S)
         /\ SameMenus(d, e) /\ SameDirty(d, e) /\ SameScreen(d, e) /\ e.active = d.active
         /\ Used(e) = Used(d) \ S /\ Listed(e) = Listed(d) \ S
         /\ \A s \in Used(e) : e.win[s] = d.win[s]
         /\ \A a, b \in Used(e) : Over(e, a, b) <=> Over(d, a, b)
<1> DEFINE kept == Used(d) \ S
           less == [t \in Lists |-> d.nr[t] - Cardinality({s \in S : d.win[s].type = t})]
<1>1. PICK a : a = Aged(d, S)
  OBVIOUS
<1>2. /\ DOMAIN a = Fields
      /\ SameNodes(d, a) /\ SameMenus(d, a) /\ SameDirty(d, a) /\ SameScreen(d, a)
      /\ a.active = d.active /\ FewerClips(d, a, S)
  BY <1>1, AgedIs DEF Fits
<1>3. e = [a EXCEPT !.win = [s \in kept |-> d.win[s]],
                    !.before = @ \cap (kept \X kept),
                    !.free = @ \cup S, !.nr = less]
  BY <1>1, <1>2 DEF Unchained, SameNodes
<1>4. /\ DOMAIN e = Fields /\ e.win = [s \in kept |-> d.win[s]]
      /\ e.before = d.before \cap (kept \X kept) /\ e.free = d.free \cup S /\ e.nr = less
      /\ SameMenus(d, e) /\ SameDirty(d, e) /\ SameScreen(d, e)
      /\ e.active = d.active /\ FewerClips(d, e, S)
  <2> HIDE DEF less, kept
  <2>1. /\ DOMAIN e = Fields /\ e.win = [s \in kept |-> d.win[s]]
        /\ e.before = a.before \cap (kept \X kept) /\ e.free = a.free \cup S /\ e.nr = less
        /\ SameMenus(a, e) /\ SameDirty(a, e) /\ SameScreen(a, e)
        /\ e.active = a.active /\ e.clip = a.clip
    BY <1>2, <1>3 DEF Fields, SameMenus, SameDirty, SameScreen
  <2> QED
    BY <1>2, <2>1 DEF SameNodes, SameMenus, SameDirty, SameScreen, FewerClips
<1>5. Used(e) = Used(d) \ S /\ Listed(e) = Listed(d) \ S /\ \A s \in Used(e) : e.win[s] = d.win[s]
  BY <1>4 DEF Used, Listed
<1>6. \A p, q \in Used(e) : Over(e, p, q) <=> Over(d, p, q)
  BY <1>4, <1>5 DEF Over
<1>7. TableOK(d) /\ Desktop \notin S
  BY DEF Fits, Listed
<1>8. NodesOK(e)
  <2>1. NodesOK(d)
    BY <1>7 DEF TableOK
  <2>2. Used(e) \subseteq Used(d) /\ Listed(e) \subseteq Listed(d)
        /\ Listed(e) \subseteq Used(e) /\ Desktop \in Used(e)
    BY <1>5, <1>7, <2>1 DEF NodesOK, Listed
  <2>3. \A s \in Listed(e) : e.win[s].type \in Lists /\ (s < MaxGlobals <=> e.win[s].type = GLOBAL)
    BY <1>5, <2>1, <2>2 DEF NodesOK
  <2> HIDE DEF kept, less
  <2> QED
    BY <1>5, <2>1, <2>2, <2>3 DEF NodesOK
<1>9. OrderOK(e)
  <2>1. OrderOK(d)
    BY <1>7 DEF TableOK
  <2>2. \A p \in e.before : /\ p \in Listed(e) \X Listed(e) /\ p[1] # p[2]
                            /\ e.win[p[1]].type = e.win[p[2]].type
    BY <1>4, <1>5, <2>1 DEF OrderOK, Listed
  <2>3. \A p, q \in Listed(e) : <<p, q>> \in e.before <=> <<p, q>> \in d.before
    BY <1>4, <1>5 DEF Listed
  <2>4. \A p \in Listed(e) : p \in Listed(d) /\ e.win[p].type = d.win[p].type
    BY <1>5 DEF Listed
  <2> QED
    BY <2>1, <2>2, <2>3, <2>4 DEF OrderOK
<1>10. CountsOK(e)
  <2>1. CountsOK(d) /\ Used(d) \subseteq Slots
    BY <1>7 DEF TableOK, NodesOK
  <2>2. e.free = Slots \ Used(e) /\ DOMAIN e.nr = Lists
    BY <1>4, <1>5, <2>1 DEF CountsOK, Listed
  <2>3. ASSUME NEW t \in Lists
        PROVE  /\ e.nr[t] = Cardinality(Of(e, t)) + (IF t = GLOBAL THEN 1 ELSE 0)
               /\ e.nr[t] <= MaxOf[t]
    <3>1. PICK G : G = {s \in S : d.win[s].type = t}
      OBVIOUS
    <3>2. Of(e, t) = Of(d, t) \ G /\ Of(d, t) \cap G = G
      BY <1>5, <3>1 DEF Of, Listed
    <3>3. /\ IsFiniteSet(Of(d, t)) /\ Cardinality(Of(d, t)) \in Nat
          /\ IsFiniteSet(G) /\ Cardinality(G) \in Nat
      <4>1. Of(d, t) \in SUBSET Slots /\ G \in SUBSET Slots
        BY <2>1, <3>1 DEF Of, Listed
      <4> QED
        BY <4>1, SlotsFinite
    <3>4. Cardinality(Of(d, t) \ G) = Cardinality(Of(d, t)) - Cardinality(G)
      <4>1. Cardinality(Of(d, t) \ G) = Cardinality(Of(d, t)) - Cardinality(Of(d, t) \cap G)
        BY <3>3, FS_Difference
      <4> QED
        BY <3>2, <4>1
    <3>5. e.nr[t] = d.nr[t] - Cardinality(G)
      BY <1>4, <3>1
    <3>6. /\ d.nr[t] = Cardinality(Of(d, t)) + (IF t = GLOBAL THEN 1 ELSE 0)
          /\ d.nr[t] <= MaxOf[t]
      BY <2>1 DEF CountsOK
    <3>7. MaxOf[t] \in Nat
      BY MaxOfIs, TypesDiffer, BoundsAssumption
    <3> HIDE DEF less
    <3> QED
      BY <3>2, <3>3, <3>4, <3>5, <3>6, <3>7
  <2> QED
    BY <2>2, <2>3 DEF CountsOK
<1>11. Fits(e)
  <2>1. TableOK(e)
    BY <1>8, <1>9, <1>10 DEF TableOK
  <2>2. RestOK(e)
    <3>1. RestOK(d)
      BY DEF Fits
    <3>2. DOMAIN e.clip \subseteq Used(e) /\ \A s \in DOMAIN e.clip : e.clip[s] \subseteq Screen
      BY <1>4, <1>5, <3>1 DEF RestOK, FewerClips
    <3> HIDE DEF less, kept
    <3> QED
      BY <1>4, <3>1, <3>2 DEF RestOK, SameMenus, SameDirty, SameScreen
  <2> QED
    BY <1>4, <2>1, <2>2 DEF Fits
<1> QED
  BY <1>4, <1>5, <1>6, <1>11

LEMMA NextVisibleIn ==
  ASSUME NEW d, TableOK(d), NEW behind
  PROVE  NextVisibleMainwin(d, behind) \in Used(d)
<1>1. Shown(d) \in SUBSET Listed(d) /\ Listed(d) \subseteq Used(d) /\ Desktop \in Used(d)
  BY DEF Shown, Listed, TableOK, NodesOK
<1>2. CASE Shown(d) \cap behind # {}
  <2>1. FirstOf(d, Shown(d) \cap behind) \in Shown(d) \cap behind
    BY <1>1, <1>2, FirstIn
  <2> QED
    BY <1>1, <1>2, <2>1 DEF NextVisibleMainwin
<1>3. CASE Shown(d) # {} /\ Shown(d) \cap behind = {}
  <2>1. FirstOf(d, Shown(d)) \in Shown(d)
    BY <1>1, <1>3, FirstIn
  <2> QED
    BY <1>1, <1>3, <2>1 DEF NextVisibleMainwin
<1>4. CASE Shown(d) = {}
  BY <1>1, <1>4 DEF NextVisibleMainwin
<1> QED
  BY <1>2, <1>3, <1>4

\* The active window is another one when it went.
LEMMA ReactivatedGood ==
  ASSUME NEW d, NEW C, Fits(d), Sound(d), Theirs(d, C), NEW gone, NEW behind,
         d.active \in Used(d) \/ gone,
         NEW e, e = IF gone THEN SetActive(d, NextVisibleMainwin(d, behind)) ELSE d
  PROVE  Good(e, C) /\ \A o : Screened(o, d) => Screened(o, e)
<1>1. CASE gone
  <2>1. NextVisibleMainwin(d, behind) \in Used(d)
    BY NextVisibleIn DEF Fits
  <2> QED
    BY <1>1, <2>1, ActiveGood
<1>2. CASE ~gone
  BY <1>2 DEF Good, OwnersOK
<1> QED
  BY <1>1, <1>2

LEMMA FreeKeeps ==
  ASSUME Inv, NEW s \in Slots, FreeZOrderNode(s) PROVE Inv'
<1>1. PICK visible : visible = desk.win[s].visible
  OBVIOUS
<1>2. PICK d : d = IF visible THEN ForceCloseMenu(desk) ELSE desk
  OBVIOUS
<1>3. PICK rc : rc = d.win[s].rc
  OBVIOUS
<1>4. PICK T : T = IF visible THEN Touched(d, rc, Below(d, s)) ELSE {}
  OBVIOUS
<1>5. PICK behind : behind = {b \in Listed(d) : <<s, b>> \in d.before}
  OBVIOUS
<1>6. PICK m : m = Unchained(d, {s})
  OBVIOUS
<1>7. PICK u : u = Uncover(m, T, rc)
  OBVIOUS
<1>8. PICK e : e = IF d.active = s THEN SetActive(u, NextVisibleMainwin(u, behind)) ELSE u
  OBVIOUS
<1>9. desk' = Done(e) /\ clients' = clients /\ s \in Owned
  BY <1>1, <1>2, <1>3, <1>4, <1>5, <1>6, <1>7, <1>8 DEF FreeZOrderNode
<1>10. Good(d, clients) /\ SameNodes(desk, d) /\ Screened(desk, d)
  <2>1. /\ Good(ForceCloseMenu(desk), clients) /\ SameNodes(desk, ForceCloseMenu(desk))
        /\ Screened(desk, ForceCloseMenu(desk))
    BY ForceGood DEF Inv
  <2> QED
    BY <1>2, <2>1 DEF Inv, SameNodes
<1>11. /\ Fits(d) /\ Sound(d) /\ OwnersOK(d, clients)
       /\ s \in Listed(d) /\ (s \in Shown(d) <=> visible) /\ (visible \/ ~visible)
  BY <1>1, <1>9, <1>10, NodesKept DEF Good, SameNodes, Owned, Shown
<1>12. /\ Fits(m) /\ FewerClips(d, m, {s}) /\ SameMenus(d, m) /\ m.active = d.active
       /\ Used(m) = Used(d) \ {s} /\ Listed(m) = Listed(d) \ {s}
       /\ \A b \in Used(m) : m.win[b] = d.win[b]
       /\ \A a, b \in Used(m) : Over(m, a, b) <=> Over(d, a, b)
       /\ SameDirty(d, m) /\ SameScreen(d, m)
  <2>1. {s} \in SUBSET Listed(d)
    BY <1>11
  <2> QED
    BY <1>6, <1>11, <2>1, UnchainedIs
<1>13. Shown(m) = Shown(d) \ {s}
  BY <1>12 DEF Shown, Listed
<1>14. s \notin Below(d, s) /\ s # Desktop /\ Desktop \in Used(d)
  BY <1>11, Irreflexive DEF Below, Fits, Listed, TableOK, NodesOK
<1>15. T \in SUBSET Used(m)
  <2>1. T \subseteq (Below(d, s) \cap Shown(d)) \cup {Desktop}
    BY <1>4, TouchedIn
  <2> QED
    BY <1>12, <1>14, <2>1 DEF Shown, Listed
<1>16a. ASSUME NEW b \in Shown(m) \cup {Desktop}
        PROVE  ClipOf(m, b) \ rc \subseteq ClipOf(d, b) /\ (b \notin T => ClipOf(m, b) = ClipOf(d, b))
  <2>1. b # s /\ b \in Used(m) /\ b \in Shown(d) \cup {Desktop}
    BY <1>12, <1>13, <1>14, <1>16a DEF Shown, Listed
  <2>3. \A p \in Shown(m) : /\ p \in Shown(d) /\ p # s /\ m.win[p] = d.win[p]
                            /\ (Over(m, p, b) <=> Over(d, p, b))
    BY <1>12, <1>13, <2>1 DEF Shown, Listed
  <2>4. ASSUME NEW x \in Screen, x \in d.win[b].rc, Over(d, s, b), x \in rc, s \in Shown(d),
               \A p \in Shown(m) : Over(d, p, b) => x \notin d.win[p].rc
        PROVE  b \in T
    <3>1. b \in (Below(d, s) \cap Shown(d)) \cup {Desktop}
      BY <2>1, <2>4 DEF Below, Shown
    <3>2. x \in Nat
      BY BoundsAssumption DEF Screen
    <3>3. \A p \in Below(d, s) \cap Shown(d) : Over(d, p, b) => x \notin d.win[p].rc
      BY <1>13, <1>14, <2>4
    <3>4. b \in Touched(d, rc, Below(d, s))
      BY <2>4, <3>1, <3>2, <3>3, TouchedHas
    <3> QED
      BY <1>4, <1>11, <2>4, <3>4
  <2>5. m.menus = d.menus /\ m.win[b] = d.win[b]
    BY <1>12, <2>1 DEF SameMenus
  <2>6. ASSUME NEW x \in Screen, x \in d.win[b].rc, b \notin T
        PROVE  (\E p \in Shown(d) : Over(d, p, b) /\ x \in d.win[p].rc)
                 <=> (\E p \in Shown(m) : Over(m, p, b) /\ x \in m.win[p].rc)
    BY <1>3, <1>13, <2>3, <2>4, <2>6
  <2>7. b \notin T => ClipOf(m, b) = ClipOf(d, b)
    BY <2>5, <2>6, SameClip
  <2>8. ClipOf(m, b) \ rc \subseteq ClipOf(d, b)
    BY <1>3, <1>13, <2>3, <2>5, InClip
  <2> QED
    BY <2>7, <2>8
<1>16. Uncovers(d, m, T, rc)
  BY <1>12, <1>13, <1>16a DEF Uncovers, SameMenus
<1>17. Fits(u) /\ Later(m, u, T)
  BY <1>7, <1>12, <1>15, UncoverFits
<1>18. Sound(u) /\ Screened(desk, u)
  <2>1. Sound(u)
    BY <1>11, <1>12, <1>16, <1>17, UncoversSound, LaterSound
  <2>2. Screened(desk, u)
    BY <1>7, <1>10, <1>11, <1>12, <1>15, <1>16, UncoverScreen DEF Fits
  <2> QED
    BY <2>1, <2>2
<1>19. Used(u) = Used(m) /\ Listed(u) = Listed(m) /\ u.active = d.active
  BY <1>12, <1>17, NodesKept DEF Later
<1>20. Theirs(u, clients)
  <2>1. u.win = m.win /\ u.track = d.track
    BY <1>12, <1>17 DEF Later, SameNodes, SameMenus
  <2>2. \A b \in Listed(u) : b \in Listed(d) /\ u.win[b] = d.win[b]
    BY <1>12, <1>19, <2>1 DEF Listed
  <2> QED
    BY <1>11, <2>1, <2>2 DEF OwnersOK, Theirs
<1>21. PICK gone : gone = (d.active = s)
  OBVIOUS
<1>22. u.active \in Used(u) \/ gone
  BY <1>11, <1>12, <1>19, <1>21 DEF OwnersOK
<1>23. e = IF gone THEN SetActive(u, NextVisibleMainwin(u, behind)) ELSE u
  BY <1>8, <1>21
<1>24. Good(e, clients) /\ Screened(desk, e)
  BY <1>17, <1>18, <1>20, <1>22, <1>23, ReactivatedGood
<1> QED
  BY <1>9, <1>24, DoneKeeps DEF Inv

LEMMA RemoveAllKeeps ==
  ASSUME Inv, NEW c \in Clients, RemoveAllZNodes(c) PROVE Inv'
<1>1. PICK gone : gone = {s \in Listed(desk) : desk.win[s].cli = c}
  OBVIOUS
<1>2. PICK left : left = Listed(desk) \ gone
  OBVIOUS
<1>3. PICK menus : menus = IF desk.track = c THEN MenuCells(desk) ELSE {}
  OBVIOUS
<1>4. PICK shown : shown = gone \cap Shown(desk)
  OBVIOUS
<1>5. PICK bound : bound = BoundFromOrigin(menus \cup Covered(desk, shown))
  OBVIOUS
<1>6. PICK byMenus : byMenus = IF menus = {} THEN {}
                               ELSE Touched(desk, BoundFromOrigin(menus), left)
  OBVIOUS
<1> DEFINE by(s) == Touched(desk, desk.win[s].rc, Below(desk, s) \cap left)
<1>7. PICK T : T = byMenus \cup UNION {by(s) : s \in shown}
  OBVIOUS
<1>8. PICK list : list = IF desk.track = c THEN <<>> ELSE desk.menus
  OBVIOUS
<1>9. PICK track : track = IF desk.track = c THEN NoClient ELSE desk.track
  OBVIOUS
<1>10. PICK n : n = WithMenus(desk, list, track)
  OBVIOUS
<1>11. PICK m : m = Unchained(n, gone)
  OBVIOUS
<1>12. PICK u : u = Uncover(m, T, bound)
  OBVIOUS
<1>13. PICK left2 : left2 = (desk.active \in gone)
  OBVIOUS
<1>14. PICK e : e = IF left2 THEN SetActive(u, NextVisibleMainwin(u, {})) ELSE u
  OBVIOUS
<1>15. PICK C : C = clients \ {c}
  OBVIOUS
<1>16. desk' = Done(e) /\ clients' = C
  <2>1. n = [desk EXCEPT !.menus = IF desk.track = c THEN <<>> ELSE @,
                         !.track = IF @ = c THEN NoClient ELSE @]
    BY <1>8, <1>9, <1>10 DEF WithMenus
  <2>2. menus = IF desk.track = c THEN UNION {desk.menus[i] : i \in DOMAIN desk.menus} ELSE {}
    BY <1>3 DEF MenuCells
  <2> QED
    BY <1>1, <1>2, <1>4, <1>5, <1>6, <1>7, <1>11, <1>12, <1>13, <1>14, <1>15, <2>1, <2>2
    DEF RemoveAllZNodes
<1>17. /\ Fits(desk) /\ Sound(desk) /\ OwnersOK(desk, clients) /\ DOMAIN desk = Fields
       /\ RestOK(desk) /\ Desktop \in Used(desk)
  BY DEF Inv, Good, Fits, TableOK, NodesOK
<1>18. Fits(n) /\ SameNodes(desk, n) /\ n.menus = list /\ n.track = track
       /\ n.active = desk.active /\ n.clip = desk.clip
       /\ SameDirty(desk, n) /\ SameScreen(desk, n)
  <2>1. list \in Seq(MenuRects) /\ Len(list) <= MaxMenus
    <3>1. CASE desk.track = c
      BY <1>8, <3>1, BoundsAssumption
    <3>2. CASE desk.track # c
      BY <1>8, <1>17, <3>2 DEF RestOK
    <3> QED
      BY <3>1, <3>2
  <2>2. track \in Processes \cup {NoClient} /\ (list = <<>> <=> track = NoClient)
    <3>1. CASE desk.track = c
      BY <1>8, <1>9, <3>1
    <3>2. CASE desk.track # c
      BY <1>8, <1>9, <1>17, <3>2 DEF RestOK
    <3> QED
      BY <3>1, <3>2
  <2> QED
    BY <1>10, <1>17, <2>1, <2>2, MenusFit
<1>19. Listed(n) = Listed(desk) /\ Used(n) = Used(desk) /\ Shown(n) = Shown(desk)
       /\ n.win = desk.win /\ \A p, q : Over(n, p, q) <=> Over(desk, p, q)
  BY <1>18, NodesKept DEF SameNodes
<1>20. /\ Fits(m) /\ FewerClips(n, m, gone) /\ SameMenus(n, m) /\ m.active = n.active
       /\ Used(m) = Used(n) \ gone /\ Listed(m) = Listed(n) \ gone
       /\ \A b \in Used(m) : m.win[b] = n.win[b]
       /\ \A a, b \in Used(m) : Over(m, a, b) <=> Over(n, a, b)
       /\ SameDirty(n, m) /\ SameScreen(n, m)
  <2>1. gone \in SUBSET Listed(n)
    BY <1>1, <1>19
  <2> QED
    BY <1>11, <1>18, <2>1, UnchainedIs
<1>21. Shown(m) = Shown(desk) \ gone /\ left \cap Shown(desk) = Shown(m)
  BY <1>2, <1>19, <1>20 DEF Shown, Listed
<1>22. T \in SUBSET Used(m)
  <2>1. Desktop \in Used(m) /\ Shown(m) \subseteq Used(m)
    BY <1>1, <1>17, <1>19, <1>20 DEF Shown, Listed
  <2>2. byMenus \subseteq Shown(m) \cup {Desktop}
    BY <1>6, <1>21, TouchedIn
  <2>3. \A s : by(s) \subseteq Shown(m) \cup {Desktop}
    BY <1>21, TouchedIn
  <2> HIDE DEF by
  <2> QED
    BY <1>7, <2>1, <2>2, <2>3
<1>23a. menus \cup Covered(desk, shown) \subseteq bound
  <2>1. menus \subseteq Cells
    BY <1>3, <1>17, MenuCellsAre
  <2>2. \A s \in shown : desk.win[s].rc \subseteq Cells
    BY <1>4, <1>17, CellTypes DEF Shown, Listed, Fits, TableOK
  <2>3. menus \cup Covered(desk, shown) \in SUBSET Cells
    BY <2>1, <2>2 DEF Covered
  <2> QED
    BY <1>5, <2>3, FromOrigin
<1>23b. ASSUME NEW b \in Shown(m) \cup {Desktop}
        PROVE  /\ ClipOf(m, b) \ bound \subseteq ClipOf(desk, b)
               /\ b \notin T => ClipOf(m, b) = ClipOf(desk, b)
  <2>1. b \notin gone /\ b \in Used(m) /\ b \in Shown(desk) \cup {Desktop}
    BY <1>1, <1>17, <1>19, <1>20, <1>21, <1>23b DEF Shown, Listed
  <2>3. \A p \in Shown(m) : /\ p \in Shown(desk) /\ m.win[p] = desk.win[p]
                            /\ (Over(m, p, b) <=> Over(desk, p, b))
    BY <1>19, <1>20, <1>21, <2>1 DEF Shown, Listed
  <2>4. m.menus = list /\ m.win[b] = desk.win[b]
    BY <1>18, <1>19, <1>20, <2>1 DEF SameMenus
  <2>5. \A i \in DOMAIN list : list = desk.menus
    BY <1>8
  <2>6. ASSUME NEW x \in Screen, x \in desk.win[b].rc,
               \A i \in DOMAIN list : x \notin list[i],
               \A p \in Shown(m) : Over(desk, p, b) => x \notin desk.win[p].rc, b \notin T
        PROVE  /\ \A i \in DOMAIN desk.menus : x \notin desk.menus[i]
               /\ \A p \in Shown(desk) : Over(desk, p, b) => x \notin desk.win[p].rc
    <3>1. x \in Nat /\ b \in (left \cap Shown(desk)) \cup {Desktop}
      BY <1>21, BoundsAssumption DEF Screen
    <3>2. ASSUME NEW i \in DOMAIN desk.menus, x \in desk.menus[i] PROVE FALSE
      <4>1. desk.track = c
        BY <1>8, <2>6, <3>2
      <4>2. x \in menus /\ menus \in SUBSET Cells
        BY <1>3, <1>17, <3>2, <4>1, MenuCellsAre DEF MenuCells
      <4>3. x \in BoundFromOrigin(menus)
        BY <4>2, FromOrigin
      <4>4. b \in Touched(desk, BoundFromOrigin(menus), left)
        BY <1>21, <2>6, <3>1, <4>3, TouchedHas
      <4> QED
        BY <1>6, <1>7, <2>6, <4>2, <4>4
    <3>3. ASSUME NEW s \in Shown(desk), Over(desk, s, b), x \in desk.win[s].rc PROVE FALSE
      <4>1. s \in shown
        BY <1>4, <1>21, <2>6, <3>3
      <4>2. b \in ((Below(desk, s) \cap left) \cap Shown(desk)) \cup {Desktop}
        BY <3>1, <3>3 DEF Below, Shown
      <4>3. \A p \in (Below(desk, s) \cap left) \cap Shown(desk) :
              Over(desk, p, b) => x \notin desk.win[p].rc
        BY <1>21, <2>6
      <4>4. b \in by(s)
        BY <2>6, <3>1, <3>3, <4>2, <4>3, TouchedHas
      <4> HIDE DEF by
      <4> QED
        BY <1>7, <2>6, <4>1, <4>4
    <3> QED
      BY <3>2, <3>3
  <2>7. ASSUME NEW x \in Screen, x \in desk.win[b].rc, b \notin T
        PROVE  (\E i \in DOMAIN desk.menus : x \in desk.menus[i])
                 \/ (\E p \in Shown(desk) : Over(desk, p, b) /\ x \in desk.win[p].rc)
               <=> (\E i \in DOMAIN m.menus : x \in m.menus[i])
                 \/ (\E p \in Shown(m) : Over(m, p, b) /\ x \in m.win[p].rc)
    BY <2>3, <2>4, <2>5, <2>6, <2>7
  <2>8. b \notin T => ClipOf(m, b) = ClipOf(desk, b)
    BY <2>4, <2>7, SameClip
  <2>9. ASSUME NEW x, x \in ClipOf(m, b), x \notin bound PROVE x \in ClipOf(desk, b)
    <3>1. /\ x \in desk.win[b].rc /\ x \in Screen /\ \A i \in DOMAIN list : x \notin list[i]
          /\ \A p \in Shown(m) : Over(desk, p, b) => x \notin desk.win[p].rc
      BY <2>3, <2>4, <2>9, InClip
    <3>2. ASSUME NEW i \in DOMAIN desk.menus, x \in desk.menus[i] PROVE FALSE
      <4>1. desk.track = c
        BY <1>8, <3>1, <3>2
      <4>2. x \in menus
        BY <1>3, <3>2, <4>1 DEF MenuCells
      <4> QED
        BY <1>23a, <2>9, <4>2
    <3>3. ASSUME NEW s \in Shown(desk), Over(desk, s, b), x \in desk.win[s].rc PROVE FALSE
      <4>1. s \in shown
        BY <1>4, <1>21, <3>1, <3>3
      <4> QED
        BY <1>23a, <2>9, <3>3, <4>1 DEF Covered
    <3> QED
      BY <3>1, <3>2, <3>3, InClip
  <2> QED
    BY <2>8, <2>9
<1>23. Uncovers(desk, m, T, bound)
  <2>1. \A i \in DOMAIN m.menus : i \in DOMAIN desk.menus /\ m.menus[i] = desk.menus[i]
    BY <1>8, <1>18, <1>20 DEF SameMenus
  <2>2. \A b \in Used(m) : m.win[b] = desk.win[b]
    BY <1>19, <1>20
  <2> HIDE DEF by
  <2> QED
    BY <1>21, <1>23b, <2>1, <2>2 DEF Uncovers
<1>24. Fits(u) /\ Later(m, u, T)
  BY <1>12, <1>20, <1>22, UncoverFits
<1>25. Sound(u) /\ Screened(desk, u)
  <2>1. FewerClips(desk, m, gone) /\ SameDirty(desk, m) /\ SameScreen(desk, m)
    BY <1>18, <1>20 DEF FewerClips, SameDirty, SameScreen
  <2>2. Sound(u)
    BY <1>17, <1>23, <1>24, <2>1, UncoversSound, LaterSound
  <2>3. Screened(desk, u)
    BY <1>12, <1>17, <1>20, <1>22, <1>23, <2>1, UncoverScreen DEF Fits, Inv
  <2> QED
    BY <2>2, <2>3
<1>26. Used(u) = Used(m) /\ Listed(u) = Listed(m) /\ u.active = desk.active
  BY <1>18, <1>20, <1>24, NodesKept DEF Later
<1>27. Theirs(u, C)
  <2>1. u.win = m.win /\ u.track = track
    BY <1>18, <1>20, <1>24 DEF Later, SameNodes, SameMenus
  <2>2. \A b \in Listed(u) : b \in Listed(desk) /\ b \notin gone /\ u.win[b] = desk.win[b]
    BY <1>19, <1>20, <1>26, <2>1 DEF Listed
  <2> QED
    BY <1>1, <1>9, <1>15, <1>17, <2>1, <2>2 DEF OwnersOK, Theirs
<1>28. u.active \in Used(u) \/ left2
  BY <1>13, <1>17, <1>19, <1>20, <1>26 DEF OwnersOK
<1>29. Good(e, C) /\ Screened(desk, e)
  BY <1>14, <1>24, <1>25, <1>27, <1>28, ReactivatedGood
<1> QED
  BY <1>15, <1>16, <1>29, DoneKeeps DEF Inv
-----------------------------------------------------------------------------
(* The table is sound always.                                              *)

LEMMA InitInv == Init => Inv
<1> SUFFICES ASSUME Init PROVE Inv
  OBVIOUS
<1> DEFINE root == [type |-> DESKTOP, visible |-> TRUE, cli |-> Server, rc |-> Screen]
<1>1. /\ DOMAIN desk = Fields /\ desk.win = [s \in {Desktop} |-> root]
      /\ desk.before = {} /\ desk.free = Slots \ {Desktop}
      /\ desk.nr = [t \in Lists |-> IF t = GLOBAL THEN 1 ELSE 0]
      /\ desk.active = Desktop /\ desk.menus = <<>> /\ desk.track = NoClient
      /\ desk.clip = [s \in {Desktop} |-> Screen]
      /\ desk.told = {} /\ desk.paint = {} /\ desk.stale = {} /\ desk.lost = {}
      /\ desk.dirty = [s \in Slots |-> {}] /\ clients = {}
  BY DEF Init, Fields
<1>2. Used(desk) = {Desktop} /\ Listed(desk) = {} /\ desk.win[Desktop] = root /\ Shown(desk) = {}
  BY <1>1 DEF Used, Listed, Shown
<1>3. NodesOK(desk)
  <2>1. Desktop \in Slots
    BY BoundsAssumption DEF Slots, Desktop
  <2>2. root \in Nodes
    BY DEF Nodes, Processes
  <2> QED
    BY <1>2, <2>1, <2>2 DEF NodesOK
<1>4. CountsOK(desk)
  <2>1. \A t : Of(desk, t) = {}
    BY <1>2 DEF Of
  <2>2. \A t : Cardinality(Of(desk, t)) = 0
    BY <2>1, FS_EmptySet
  <2>3. \A t \in Lists : (IF t = GLOBAL THEN 1 ELSE 0) <= MaxOf[t]
    BY MaxOfIs, TypesDiffer, BoundsAssumption
  <2> QED
    BY <1>1, <1>2, <2>2, <2>3 DEF CountsOK
<1>5. OrderOK(desk)
  BY <1>1, <1>2 DEF OrderOK
<1>6. RestOK(desk)
  <2>1. <<>> \in Seq(MenuRects) /\ Len(<<>>) <= MaxMenus
    BY BoundsAssumption
  <2> QED
    BY <1>1, <1>2, <2>1 DEF RestOK
<1>7. Sound(desk)
  <2>1. \A x : x \in ClipOf(desk, Desktop) <=> x \in Screen
    BY <1>1, <1>2, InClip
  <2>2. ClipOf(desk, Desktop) = Screen
    BY <2>1 DEF ClipOf
  <2> QED
    BY <1>1, <1>2, <2>2 DEF Sound
<1>8. Screened(desk, desk)
  BY <1>1 DEF Screened, PartsOK, Others
<1> QED
  BY <1>1, <1>2, <1>3, <1>4, <1>5, <1>6, <1>7, <1>8
  DEF Inv, Good, Fits, TableOK, OwnersOK, Theirs

LEMMA InvNext == Inv /\ [Next]_vars => Inv'
<1> SUFFICES ASSUME Inv, [Next]_vars PROVE Inv'
  OBVIOUS
<1>1. CASE UNCHANGED vars
  <2>1. desk' = desk /\ clients' = clients
    BY <1>1 DEF vars
  <2>2. Screened(desk', desk')
    BY <2>1 DEF Inv
  <2> QED
    BY <2>1, <2>2 DEF Inv, Good, Fits, TableOK, NodesOK, CountsOK, OrderOK, RestOK, Sound,
      OwnersOK, Theirs
<1>2. ASSUME NEW s \in Slots, FreeZOrderNode(s) PROVE Inv'
  BY <1>2, FreeKeeps
<1>3. ASSUME NEW s \in Slots, Move2Top(s) PROVE Inv'
  BY <1>3, Move2TopKeeps
<1>4. ASSUME NEW s \in Slots, ShowWindow(s) PROVE Inv'
  BY <1>4, ShowKeeps
<1>5. ASSUME NEW s \in Slots, HideWindow(s) PROVE Inv'
  BY <1>5, HideKeeps
<1>6. ASSUME NEW s \in Slots, NEW rc \in Rects, MoveVisibleWindow(s, rc) PROVE Inv'
  BY <1>6, MoveVisibleKeeps
<1>7. ASSUME NEW s \in Slots, NEW rc \in Rects, MoveHiddenWindow(s, rc) PROVE Inv'
  BY <1>7, MoveHiddenKeeps
<1>8. ASSUME NEW s \in Slots, SetActiveWindow(s) PROVE Inv'
  BY <1>8, SetActiveKeeps
<1>9. ASSUME NEW c \in Processes, NEW t \in TypesOf(c), NEW rc \in Rects, NEW v \in BOOLEAN,
             AllocZOrderNode(c, t, rc, v)
      PROVE  Inv'
  BY <1>9, AllocKeeps
<1>10. ASSUME NEW c \in Processes, NEW rc \in MenuRects, StartTrackPopupMenu(c, rc) PROVE Inv'
  BY <1>10, StartTrackKeeps
<1>11. ASSUME NEW c \in Processes, EndTrackPopupMenu(c) PROVE Inv'
  BY <1>11, EndTrackKeeps
<1>12. ASSUME CloseMenu PROVE Inv'
  BY <1>12, CloseMenuKeeps
<1>13. ASSUME NEW c \in Clients, Connect(c) PROVE Inv'
  BY <1>13, ConnectKeeps
<1>14. ASSUME NEW c \in Clients, RemoveAllZNodes(c) PROVE Inv'
  BY <1>14, RemoveAllKeeps
<1>15. ASSUME NEW c \in Clients, IamLive(c) PROVE Inv'
  BY <1>15, IamLiveKeeps
<1>16. CASE Next
  BY <1>2, <1>3, <1>4, <1>5, <1>6, <1>7, <1>8, <1>9, <1>10, <1>11, <1>12, <1>13, <1>14,
    <1>15, <1>16 DEF Next
<1> QED
  BY <1>1, <1>16

\* What every theorem below follows from.
LEMMA Always == Spec => []Inv
<1>1. Init => Inv
  BY InitInv
<1>2. Inv /\ [Next]_vars => Inv'
  BY InvNext
<1> QED
  BY <1>1, <1>2, PTL DEF Spec

\* Every field of the table keeps to its type and its limit through all
\* handlers of __mg_do_zorder_operation and the end of any client.
THEOREM TypeCorrect == Spec => []TypeOK
<1>1. Inv => TypeOK
  <2> SUFFICES ASSUME Inv PROVE TypeOK
    OBVIOUS
  <2>1. /\ Fits(desk) /\ TableOK(desk) /\ NodesOK(desk) /\ CountsOK(desk) /\ OrderOK(desk)
        /\ RestOK(desk) /\ OwnersOK(desk, clients)
    BY DEF Inv, Good, Fits, TableOK
  <2>2. Used(desk) \subseteq Slots /\ \A s \in Used(desk) : desk.win[s] \in Nodes
    BY <2>1 DEF NodesOK
  <2>3. desk.before \subseteq Slots \X Slots
    BY <2>1, <2>2 DEF OrderOK, Listed
  <2>4. desk.free \subseteq Slots /\ desk.active \in Slots
    BY <2>1, <2>2 DEF CountsOK, OwnersOK
  <2>5. ASSUME NEW t \in Lists PROVE desk.nr[t] \in 0 .. MaxOf[t]
    <3>1. Cardinality(Of(desk, t)) \in Nat
      BY <2>2, SlotsFinite DEF Of, Listed
    <3>2. MaxOf[t] \in Nat
      BY MaxOfIs, TypesDiffer, BoundsAssumption
    <3>3. /\ desk.nr[t] = Cardinality(Of(desk, t)) + (IF t = GLOBAL THEN 1 ELSE 0)
          /\ desk.nr[t] <= MaxOf[t]
      BY <2>1 DEF CountsOK
    <3> QED
      BY <3>1, <3>2, <3>3
  <2> QED
    BY <2>1, <2>2, <2>3, <2>4, <2>5 DEF TypeOK, RestOK, Inv
<1> QED
  BY <1>1, Always, PTL

\* srvAllocZOrderNode finds a slot whenever the count lets it look for one,
\* the counts and the bitmap are those of the nodes, and each list has one order.
THEOREM SlotsCorrect == Spec => []SlotsAgree
<1>1. Inv => SlotsAgree
  <2> SUFFICES ASSUME Inv PROVE SlotsAgree
    OBVIOUS
  <2>1. /\ TableOK(desk) /\ NodesOK(desk) /\ CountsOK(desk) /\ OrderOK(desk)
    BY DEF Inv, Good, Fits, TableOK
  <2>2. ASSUME NEW t \in Lists
        PROVE  /\ desk.nr[t] = Cardinality(Of(desk, t)) + (IF t = GLOBAL THEN 1 ELSE 0)
               /\ desk.nr[t] < MaxOf[t] => FreeSlots(desk, t) # {}
               /\ \A s \in Of(desk, t) : s < MaxGlobals <=> t = GLOBAL
               /\ \A a, b \in Of(desk, t) :
                    a # b => (<<a, b>> \in desk.before <=> <<b, a>> \notin desk.before)
    <3>1. desk.nr[t] = Cardinality(Of(desk, t)) + (IF t = GLOBAL THEN 1 ELSE 0)
      BY <2>1 DEF CountsOK
    <3>2. desk.nr[t] < MaxOf[t] => FreeSlots(desk, t) # {}
      BY <2>1, SlotFound
    <3>3. \A s \in Of(desk, t) : s < MaxGlobals <=> t = GLOBAL
      BY <2>1 DEF NodesOK, Of
    <3>4. \A a, b \in Of(desk, t) :
            a # b => (<<a, b>> \in desk.before <=> <<b, a>> \notin desk.before)
      BY <2>1 DEF OrderOK, Of
    <3> QED
      BY <3>1, <3>2, <3>3, <3>4
  <2>3. desk.free = Slots \ Used(desk)
    BY <2>1 DEF CountsOK
  <2>4. \A p \in desk.before : p[1] # p[2] /\ desk.win[p[1]].type = desk.win[p[2]].type
    BY <2>1 DEF OrderOK
  <2> QED
    BY <2>2, <2>3, <2>4 DEF SlotsAgree, Of
<1> QED
  BY <1>1, Always, PTL

\* No node and no menu outlives its client, and the active window is in the
\* table, whenever a client ends (__mg_remove_all_znodes_of_client).
THEOREM OwnersCorrect == Spec => []OwnersConnected
<1>1. Inv => OwnersConnected
  BY DEF Inv, Good, Fits, RestOK, OwnersOK, Theirs, OwnersConnected
<1> QED
  BY <1>1, Always, PTL

\* A visible window never draws in a region the table does not give it any
\* more: every handler increments the ages of all nodes whose regions it changes.
THEOREM CacheCorrect == Spec => []CacheCurrent
<1>1. Inv => CacheCurrent
  <2> SUFFICES ASSUME Inv, NEW s \in Shown(desk) \cup {Desktop}
               PROVE  desk.clip[s] = ClipOf(desk, s)
    BY DEF CacheCurrent
  <2>1. s \in DOMAIN desk.clip
    BY DEF Inv, Good, Fits, TableOK, NodesOK, Shown, Listed
  <2> QED
    BY <2>1 DEF Inv, Good, Sound
<1> QED
  BY <1>1, Always, PTL

\* A cell that does not show what is on top there is never forgotten: whatever
\* the handlers of __mg_do_zorder_operation uncover, its owner draws it, has
\* been told to, or is sent it only when it is live (update_client_window_rgn).
THEOREM ScreenAnswered == Spec => []ScreenCorrect
<1>1. Inv => ScreenCorrect
  <2> SUFFICES ASSUME Inv, NEW c \in desk.stale
               PROVE  /\ TopAt(desk, c) # Menu
                      /\ \/ c \in desk.dirty[TopAt(desk, c)]
                            /\ desk.win[TopAt(desk, c)].cli \in desk.told
                         \/ <<TopAt(desk, c), c>> \in desk.lost
    BY DEF ScreenCorrect
  <2>1. c \in Screen /\ desk.lost \subseteq Slots \X Screen /\ desk.paint = {}
    BY DEF Inv, Good, Fits, RestOK
  <2>2. Told(desk, TopAt(desk, c), c)
    BY <2>1 DEF Inv, Screened
  <2>3. Menu \notin Slots
    BY SlotsFinite DEF Menu
  <2> QED
    BY <2>1, <2>2, <2>3 DEF Told
<1> QED
  BY <1>1, Always, PTL
=============================================================================
