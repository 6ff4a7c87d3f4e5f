------------------------------- MODULE ZOrder -------------------------------
(***************************************************************************)
(* The z-order table of the topmost layer in MiniGUI-Processes             *)
(* (src/kernel/desktop-procs.c).  The table lies in shared memory: only    *)
(* the server (client 0) changes it, on behalf of the clients, and every   *)
(* process clips its own drawing by it.  A window keeps the clipping       *)
(* region it last computed and the age its node had then; a handler that   *)
(* changes what a window may draw must increment the node's age, and one   *)
(* that uncovers a part of a window must tell its owner.                   *)
(*                                                                         *)
(* The screen is a row of cells, a rectangle an interval of cells.  An age *)
(* is abstracted: a window whose age has changed has no entry in desk.clip *)
(* and computes it anew.  A handler runs under lock_zi_for_change, which   *)
(* takes every unit of the semaphore, and a drawing under                  *)
(* lock_zi_for_read, so each is one step.  An owner repaints as soon as    *)
(* it is told: the time a message takes is part of the time the node's     *)
(* dirty rectangle waits.                                                  *)
(***************************************************************************)
EXTENDS Integers, FiniteSets, Sequences

CONSTANTS Clients,      \* the client processes
          Server,       \* client 0
          Width,        \* cells of the screen, g_rcScr
          Rects,        \* the rectangles a window may have
          MenuRects,    \* the rectangles a popup menu may have
          MaxGlobals, MaxTopmosts, MaxNormals, MaxMenus   \* max_nr_*

ASSUME ClientsAssumption == Server \notin Clients /\ "none" \notin Clients \cup {Server}
ASSUME BoundsAssumption ==
  /\ Width \in Nat \ {0} /\ MaxGlobals \in Nat \ {0}
  /\ MaxTopmosts \in Nat /\ MaxNormals \in Nat /\ MaxMenus \in Nat
\* A coordinate is an int.
ASSUME RectsAssumption ==
  /\ IsFiniteSet(UNION (Rects \cup MenuRects))
  /\ \A r \in Rects \cup MenuRects : r \subseteq Nat /\ \E a, b \in r : r = a .. b

Screen   == 0 .. Width - 1
Slots    == 0 .. MaxGlobals + MaxTopmosts + MaxNormals - 1
Desktop  == 0                       \* the slot of the desktop
Processes == Clients \cup {Server}
NoClient == "none"                  \* cli_trackmenu = -1
Junk     == -1                      \* drawn by nobody: copied from elsewhere
Menu     == -2                      \* drawn by the owner of a popup menu

\* ZOF_TYPE_*, the desktop put lowest: a larger type is drawn above a smaller one.
DESKTOP == 0
NORMAL  == 1
TOPMOST == 2
GLOBAL  == 3
Lists   == {NORMAL, TOPMOST, GLOBAL}

VARIABLES
  desk,     \* the shared table, what owners keep of it, and the screen:
            \*   win     per used slot: type, visible, cli, rc
            \*   before  <<a, b>>: a is ahead of b in the list of their type
            \*   free    the slots marked free in the usage bitmap
            \*   nr      nr_globals, nr_topmosts, nr_normals
            \*   active  active_win, 0 when no window is active
            \*   menus, track   the popup menus and cli_trackmenu (or NoClient)
            \*   clip    the region each window remembers with its node's age
            \*   dirty   per slot dirty_rc; told   clients with has_dirty
            \*   paint   what is drawn once the handler is done: <<who, cell>>
            \*   stale   cells that do not show what is on top there
            \*   lost    <<window, cell>>: an update its owner never gets
  clients   \* connected clients

vars == <<desk, clients>>
-----------------------------------------------------------------------------
(* Rectangles.                                                             *)

Last(rc) == CHOOSE c \in rc : \A a \in rc : a <= c
First(rc) == CHOOSE c \in rc : \A a \in rc : c <= a

\* The smallest interval that holds a set of cells (rcBound of a region).
Bound(cells) == IF cells = {} THEN {} ELSE First(cells) .. Last(cells)

\* That interval meets the rectangle rc.
BoxMeets(cells, rc) ==
  /\ \E c \in cells, x \in rc : c <= x
  /\ \E c \in cells, x \in rc : x <= c

\* GetBoundRect starting from the rectangle (0, 0, 0, 0).
BoundFromOrigin(cells) == Bound(cells \cup {0})

\* Fault: the part is not moved with the window.
ShiftNone(cells, by) == cells
Shift(cells, by) == {c + by : c \in cells}
-----------------------------------------------------------------------------
(* The lists.  A list runs from its first (topmost) node to its last.      *)

Used(d)   == DOMAIN d.win
Listed(d) == Used(d) \ {Desktop}
Shown(d)  == {s \in Listed(d) : d.win[s].visible}

\* Node a is drawn above node b.
Over(d, a, b) ==
  \/ d.win[a].type > d.win[b].type
  \/ <<a, b>> \in d.before

Above(d, s) == {a \in Listed(d) : Over(d, a, s)}
Below(d, s) == {b \in Listed(d) : Over(d, s, b)}
Covered(d, slots) == UNION {d.win[s].rc : s \in slots}

\* The node of a set that a walk through the lists meets first.
FirstOf(d, slots) ==
  CHOOSE a \in slots : \A b \in slots \ {a} : Over(d, a, b)

\* __mg_lock_recalc_gcrinfo: what a window may draw, by the table.
ClipOf(d, s) ==
  ((d.win[s].rc \cap Screen) \ UNION {d.menus[i] : i \in DOMAIN d.menus})
    \ Covered(d, Above(d, s) \cap Shown(d))

\* age ++ for each node of a set: the cached regions are never read again.
Aged(d, slots) ==
  [d EXCEPT !.clip = [s \in DOMAIN @ \ slots |-> @[s]]]

\* The owners of these windows will draw this part of the screen.
Painted(d, slots, cells) ==
  [d EXCEPT !.paint = @ \cup (slots \X (cells \cap Screen))]

\* What must be seen at a cell: a menu, or the topmost window, or the desktop.
TopAt(d, c) ==
  LET at == {s \in Shown(d) : c \in d.win[s].rc}
  IN  IF \E i \in DOMAIN d.menus : c \in d.menus[i] THEN Menu
      ELSE IF at = {} THEN Desktop ELSE FirstOf(d, at)

\* The handler is done: windows whose age changed compute their region anew,
\* and each draws what it was told to, within its region.  A window may do so
\* much later; computing at once leaves it the oldest region it may have.  A
\* hidden window computes none: its region is out of date whatever it was.
Done(d) ==
  LET clip == [s \in Used(d) |->
                 CASE ~d.win[s].visible -> {}
                   [] d.win[s].visible /\ s \in DOMAIN d.clip -> d.clip[s]
                   [] OTHER -> ClipOf(d, s)]
      drawn == {p \in d.paint : p[1] \in Slots => p[1] \in Used(d) /\ p[2] \in clip[p[1]]}
      old == [c \in Screen |-> TopAt(desk, c)]
      top == [c \in Screen |-> TopAt(d, c)]
      wrong == desk.stale \cup {c \in Screen : top[c] # old[c]} \cup {p[2] : p \in drawn}
      stale == {c \in wrong : <<top[c], c>> \notin drawn}
  IN  [d EXCEPT !.clip = clip, !.paint = {}, !.stale = stale,
                !.lost = {p \in @ : p[2] \in stale /\ top[p[2]] = p[1]}]
-----------------------------------------------------------------------------
(* What a change uncovers.  A handler puts the uncovered rectangle in      *)
(* sg_UpdateRgn and walks down the nodes: SubtractClipRect takes a node's  *)
(* rectangle out of the region and returns TRUE when that rectangle meets  *)
(* the bounding box of what is left.                                       *)

\* The nodes of a set for which the walk finds SubtractClipRect TRUE, and the
\* desktop when the region reaches it behind them.
Touched(d, rc, swept) ==
  LET seen == swept \cap Shown(d)
      rest(b) == rc \ Covered(d, {a \in seen : Over(d, a, b)})
  IN  {b \in seen \cup {Desktop} : BoxMeets(rest(b), d.win[b].rc)}

\* Fault: the desktop's age is left as it was.
OverlappedNoDesktop(d, rc, swept) ==
  {b \in swept \cap Shown(d) : d.win[b].rc \cap rc # {}}

\* The nodes of a set, and the desktop, that a rectangle overlaps.
Overlapped(d, rc, swept) ==
  {b \in (swept \cap Shown(d)) \cup {Desktop} : d.win[b].rc \cap rc # {}}

\* The end of a handler that uncovers rc: age ++ of the nodes it touched, and
\* update_client_window for them.  A client's node gets a larger dirty
\* rectangle (its part on the screen is kept); a window of the server, and
\* the desktop, repaint.
Uncover(d, touched, rc) ==
  LET own == {s \in touched : d.win[s].cli = Server}
      told == [Aged(d, touched) EXCEPT
        !.dirty = [s \in Slots |-> IF s \in touched \ own
                                   THEN Bound(@[s] \cup (rc \cap Screen)) ELSE @[s]],
        !.told = @ \cup {d.win[s].cli : s \in touched \ own}]
  IN  Painted(told, own, rc)

\* srvForceCloseMenu: every menu goes, whoever tracks it.
ForceCloseMenu(d) ==
  LET rc == BoundFromOrigin(UNION {d.menus[i] : i \in DOMAIN d.menus})
  IN  IF d.menus = <<>> THEN d
      ELSE Uncover([d EXCEPT !.menus = <<>>, !.track = NoClient],
                   Touched(d, rc, Listed(d)), rc)

\* get_next_visible_mainwin: first behind the node that went, then anywhere.
NextVisibleMainwin(d, behind) ==
  LET fit == Shown(d)
  IN  CASE fit \cap behind # {} -> FirstOf(d, fit \cap behind)
        [] fit # {} /\ fit \cap behind = {} -> FirstOf(d, fit)
        [] OTHER -> Desktop

\* Fault: active_win is kept when there is no window to activate.
SetActiveKept(d, s) == [ForceCloseMenu(d) EXCEPT !.active = IF s = Desktop THEN @ ELSE s]

\* srvSetActiveWindow
SetActive(d, s) == [ForceCloseMenu(d) EXCEPT !.active = s]

\* unchain_znode for a set of nodes, and their slots and counts given back.
Unchained(d, slots) ==
  LET kept == Used(d) \ slots
  IN  [Aged(d, slots) EXCEPT
         !.win = [s \in kept |-> d.win[s]],
         !.before = @ \cap (kept \X kept),
         !.free = @ \cup slots,
         !.nr = [t \in Lists |-> @[t] - Cardinality({s \in slots : d.win[s].type = t})]]

\* Fault: the node is linked at the front and not unlinked where it was.
ToFrontLinked(d, s) ==
  d.before \cup ({s} \X {a \in Listed(d) \ {s} : d.win[a].type = d.win[s].type})

\* The front of its list.
ToFront(d, s) ==
  LET peers == {a \in Listed(d) : d.win[a].type = d.win[s].type} \ {s}
  IN  (d.before \cap (peers \X peers)) \cup (d.before \ ((peers \cup {s}) \X (peers \cup {s})))
        \cup ({s} \X peers)
-----------------------------------------------------------------------------
(* The handlers of __mg_do_zorder_operation.                              *)

\* The windows a process may ask the server to change: its own.
Owned == {s \in Listed(desk) : desk.win[s].cli \in clients \cup {Server}}

\* The server's windows are global, a client's topmost or normal.
TypesOf(c) == IF c = Server THEN {GLOBAL} ELSE {TOPMOST, NORMAL}
MaxOf == [t \in Lists |-> CASE t = GLOBAL -> MaxGlobals
                            [] t = TOPMOST -> MaxTopmosts
                            [] t = NORMAL -> MaxNormals]

\* __mg_lookfor_unused_slot on the part of the bitmap for this type.
FreeSlots(d, t) == {s \in d.free : t = GLOBAL \/ s >= MaxGlobals}

\* srvAllocZOrderNode, and the owner painting its new window.
AllocZOrderNode(c, t, rc, visible) ==
  LET d == IF visible THEN ForceCloseMenu(desk) ELSE desk
      slot == First(FreeSlots(d, t))
      under == Overlapped(d, rc, {b \in Listed(d) : d.win[b].type <= t})
      node == [type |-> t, visible |-> visible, cli |-> c, rc |-> rc]
      d1 == [Aged(d, IF visible THEN under ELSE {}) EXCEPT
               !.win = [s \in Used(d) \cup {slot} |-> IF s = slot THEN node ELSE @[s]],
               !.free = @ \ {slot}, !.nr[t] = @ + 1]
      d2 == [d1 EXCEPT !.before = ToFront(d1, slot)]
  IN  /\ c \in clients \cup {Server}
      /\ desk.nr[t] < MaxOf[t]
      /\ FreeSlots(d, t) # {}
      /\ desk' = Done(IF visible THEN Painted(d2, {slot}, rc) ELSE d2)
      /\ UNCHANGED clients

\* srvFreeZOrderNode
FreeZOrderNode(s) ==
  LET visible == desk.win[s].visible
      d == IF visible THEN ForceCloseMenu(desk) ELSE desk
      rc == d.win[s].rc
      touched == IF visible THEN Touched(d, rc, Below(d, s)) ELSE {}
      behind == {b \in Listed(d) : <<s, b>> \in d.before}
      d1 == Uncover(Unchained(d, {s}), touched, rc)
  IN  /\ s \in Owned
      /\ desk' = Done(IF d.active = s THEN SetActive(d1, NextVisibleMainwin(d1, behind)) ELSE d1)
      /\ UNCHANGED clients

\* update_client_window_rgn: what comes of sending a window's owner a part to
\* repaint.  __mg_send2client drops it when the client has not said it is live
\* for THRES_LIVE; the server's own windows are always reached.
Updated(d, s, part) ==
  {Painted(d, {s}, part)} \cup
    (IF d.win[s].cli = Server \/ part \cap Screen = {} THEN {}
     ELSE {[d EXCEPT !.lost = @ \cup ({s} \X (part \cap Screen))]})

\* srvMove2Top: the windows it passes were over it, and its owner is sent
\* their rectangles at once.
Move2Top(s) ==
  LET d == ForceCloseMenu(desk)
      rc == d.win[s].rc
      passed == {a \in Shown(d) : /\ <<a, s>> \in d.before
                                  /\ d.win[s].visible /\ d.win[a].rc \cap rc # {}}
      part == Covered(d, passed) \cap rc
  IN  /\ s \in Owned
      /\ \E a \in Listed(desk) : <<a, s>> \in desk.before
      /\ \E d1 \in Updated([Aged(d, passed \cup {s}) EXCEPT !.before = ToFront(d, s)], s, part) :
           desk' = Done(d1)
      /\ UNCHANGED clients

\* srvShowWindow, and the owner painting the whole window.
ShowWindow(s) ==
  LET d == ForceCloseMenu(desk)
      rc == d.win[s].rc
      under == Overlapped(d, rc, Below(d, s))
  IN  /\ s \in Owned
      /\ ~desk.win[s].visible
      /\ desk' = Done(Painted([Aged(d, under \cup {s}) EXCEPT !.win[s].visible = TRUE], {s}, rc))
      /\ UNCHANGED clients

\* srvHideWindow: active_win stays.
HideWindow(s) ==
  LET d == ForceCloseMenu(desk)
      rc == d.win[s].rc
      touched == Touched(d, rc, Below(d, s))
  IN  /\ s \in Owned
      /\ desk.win[s].visible
      /\ desk' = Done(Uncover([d EXCEPT !.win[s].visible = FALSE], touched, rc))
      /\ UNCHANGED clients

\* The BitBlt of srvMoveWindow, clipped by what lies above: a cell of the new
\* place shows the window if the cell it was copied from did.  What a closed
\* menu uncovered moves with a window of the server, whose invalid region is
\* its own, but not with a client's, whose dirty_rc lies on the screen.
Copied(d, s, rc) ==
  LET by == First(rc) - First(d.win[s].rc)
      dest == rc \ Covered(d, Above(d, s) \cap Shown(d))
      from == {c \in dest : c - by \in Screen /\ TopAt(d, c - by) = s}
      late == {c \in from : \/ c - by \in desk.stale
                            \/ TopAt(desk, c - by) = Menu /\ d.win[s].cli # Server}
  IN  [Painted(Painted(d, {Junk}, dest), {s}, from \ late) EXCEPT
         !.lost = @ \cup ({s} \X (late \cap Screen))]

\* srvMoveWindow of a visible window: the nodes under the new place are aged,
\* those under the two parts of the old one that SubtractRect leaves are told.
\* The owner is sent what could not be copied; after a change of size it
\* repaints everything (MoveWindow).
MoveVisibleWindow(s, rc) ==
  LET d == ForceCloseMenu(desk)
      old == d.win[s].rc
      by == First(rc) - First(old)
      left == {x \in old : x < First(rc)}
      right == {x \in old : x > Last(rc)}
      under == Overlapped(d, rc, Below(d, s))
      first == Touched(d, left, Below(d, s))
      touched == first \cup Touched(d, right, Below(d, s) \ first)
      hidden == (old \ Screen) \cup (old \cap Covered(d, Above(d, s) \cap Shown(d)))
      part == Shift(hidden, by) \cap rc
      resized == Cardinality(old) # Cardinality(rc)
      moved == Uncover([Aged(Copied(d, s, rc), under \cup {s}) EXCEPT !.win[s].rc = rc],
                       touched, old)
  IN  /\ s \in Owned
      /\ desk.win[s].visible /\ desk.win[s].rc # rc
      /\ \E d1 \in IF resized THEN {Painted(moved, {s}, rc)} ELSE Updated(moved, s, part) :
           desk' = Done(d1)
      /\ UNCHANGED clients

\* srvMoveWindow of a hidden window
MoveHiddenWindow(s, rc) ==
  /\ s \in Owned
  /\ ~desk.win[s].visible /\ desk.win[s].rc # rc
  /\ desk' = Done([Aged(desk, {s}) EXCEPT !.win[s].rc = rc])
  /\ UNCHANGED clients

\* srvSetActiveWindow for a window of the caller, or for none.
SetActiveWindow(s) ==
  /\ s \in Owned \cup {Desktop}
  /\ desk.active # s
  /\ desk' = Done(SetActive(desk, s))
  /\ UNCHANGED clients

\* Fault: max_nr_popupmenus is not looked at.
StartTrackPopupMenuUnbounded(c, rc) ==
  LET d == IF desk.track \in {NoClient, c} THEN desk ELSE ForceCloseMenu(desk)
  IN  /\ c \in clients \cup {Server}
      /\ desk' = Done(Painted([Aged(d, Overlapped(d, rc, Listed(d))) EXCEPT
                                 !.menus = Append(@, rc), !.track = c], {Menu}, rc))
      /\ UNCHANGED clients

\* srvStartTrackPopupMenu, and the owner drawing the menu.
StartTrackPopupMenu(c, rc) ==
  LET d == IF desk.track \in {NoClient, c} THEN desk ELSE ForceCloseMenu(desk)
      under == Overlapped(d, rc, Listed(d))
  IN  /\ c \in clients \cup {Server}
      /\ Len(d.menus) < MaxMenus
      /\ desk' = Done(Painted([Aged(d, under) EXCEPT !.menus = Append(@, rc), !.track = c],
                              {Menu}, rc))
      /\ UNCHANGED clients

\* srvEndTrackPopupMenu of the last menu.
EndTrackPopupMenu(c) ==
  LET n == Len(desk.menus)
      rc == desk.menus[n]
      touched == Touched(desk, rc, Listed(desk))
  IN  /\ desk.track = c
      /\ desk' = Done(Uncover([desk EXCEPT !.menus = SubSeq(@, 1, n - 1),
                                           !.track = IF n = 1 THEN NoClient ELSE @],
                              touched, rc))
      /\ UNCHANGED clients

\* ID_ZOOP_CLOSEMENU
CloseMenu ==
  /\ desk.menus # <<>>
  /\ desk' = Done(ForceCloseMenu(desk))
  /\ UNCHANGED clients
-----------------------------------------------------------------------------
(* Clients.                                                                *)

\* __mg_client_add
Connect(c) ==
  /\ c \notin clients
  /\ clients' = clients \cup {c}
  /\ desk' = [desk EXCEPT !.told = @ \ {c}]

\* __mg_remove_all_znodes_of_client, when a client has ended or died: its
\* menus, then its windows; what they uncover is told with one rectangle.
RemoveAllZNodes(c) ==
  LET gone == {s \in Listed(desk) : desk.win[s].cli = c}
      left == Listed(desk) \ gone
      menus == IF desk.track = c THEN UNION {desk.menus[i] : i \in DOMAIN desk.menus} ELSE {}
      shown == gone \cap Shown(desk)
      bound == BoundFromOrigin(menus \cup Covered(desk, shown))
      byMenus == IF menus = {} THEN {}
                 ELSE Touched(desk, BoundFromOrigin(menus), left)
      by(s) == Touched(desk, desk.win[s].rc, Below(desk, s) \cap left)
      d == Unchained([desk EXCEPT !.menus = IF desk.track = c THEN <<>> ELSE @,
                                  !.track = IF @ = c THEN NoClient ELSE @], gone)
      d1 == Uncover(d, byMenus \cup UNION {by(s) : s \in shown}, bound)
  IN  /\ c \in clients
      /\ desk' = Done(IF desk.active \in gone THEN SetActive(d1, NextVisibleMainwin(d1, {})) ELSE d1)
      /\ clients' = clients \ {c}

\* REQID_IAMLIVE, and __mg_check_dirty_znode: each visible window of the
\* client is sent its dirty rectangle and repaints it.
IamLive(c) ==
  LET mine == {s \in Shown(desk) : desk.win[s].cli = c /\ desk.dirty[s] # {}}
  IN  /\ c \in clients
      /\ c \in desk.told
      /\ desk' = Done([desk EXCEPT
           !.told = @ \ {c},
           !.dirty = [s \in Slots |-> IF s \in mine THEN {} ELSE @[s]],
           !.paint = {p \in mine \X Screen : p[2] \in desk.dirty[p[1]]}])
      /\ UNCHANGED clients
-----------------------------------------------------------------------------
Init ==
  /\ desk = [win |-> [s \in {Desktop} |-> [type |-> DESKTOP, visible |-> TRUE,
                                           cli |-> Server, rc |-> Screen]],
             before |-> {}, free |-> Slots \ {Desktop},
             nr |-> [t \in Lists |-> IF t = GLOBAL THEN 1 ELSE 0],
             active |-> Desktop, menus |-> <<>>, track |-> NoClient,
             clip |-> [s \in {Desktop} |-> Screen], dirty |-> [s \in Slots |-> {}],
             told |-> {}, paint |-> {}, stale |-> {}, lost |-> {}]
  /\ clients = {}

Next ==
  \/ \E s \in Slots :
       \/ FreeZOrderNode(s)
       \/ Move2Top(s)
       \/ ShowWindow(s)
       \/ HideWindow(s)
       \/ \E rc \in Rects : MoveVisibleWindow(s, rc) \/ MoveHiddenWindow(s, rc)
       \/ SetActiveWindow(s)
  \/ \E c \in Processes :
       \/ \E t \in TypesOf(c), rc \in Rects, v \in BOOLEAN : AllocZOrderNode(c, t, rc, v)
       \/ \E rc \in MenuRects : StartTrackPopupMenu(c, rc)
       \/ EndTrackPopupMenu(c)
  \/ CloseMenu
  \/ \E c \in Clients : Connect(c) \/ RemoveAllZNodes(c) \/ IamLive(c)

Spec == Init /\ [][Next]_vars
-----------------------------------------------------------------------------
Nodes == [type : Lists \cup {DESKTOP}, visible : BOOLEAN,
          cli : Processes, rc : Rects \cup {Screen}]

\* Every field holds a value of its C type, within the limits of the table.
TypeOK ==
  /\ Used(desk) \subseteq Slots /\ \A s \in Used(desk) : desk.win[s] \in Nodes
  /\ desk.before \subseteq Slots \X Slots /\ desk.free \subseteq Slots
  /\ \A t \in Lists : desk.nr[t] \in 0 .. MaxOf[t]
  /\ desk.active \in Slots
  /\ desk.menus \in Seq(MenuRects) /\ Len(desk.menus) <= MaxMenus
  /\ desk.track \in Processes \cup {NoClient}
  /\ desk.told \subseteq Clients /\ desk.paint = {} /\ desk.stale \subseteq Screen
  /\ DOMAIN desk.clip = Used(desk)
  /\ \A s \in DOMAIN desk.clip : desk.clip[s] \subseteq Screen
  /\ clients \subseteq Clients /\ desk.lost \subseteq Slots \X Screen

\* The region a visible window has cached is the region the table gives it,
\* as long as its node's age is the one it remembers: no handler changes
\* what a window may draw without an age ++ of that window.
CacheCurrent ==
  \A s \in Shown(desk) \cup {Desktop} : desk.clip[s] = ClipOf(desk, s)

\* A cell shows what is on top there, or it belongs to the dirty rectangle of
\* a client's window and that client has has_dirty set, so that it will be
\* told to repaint when it next says it is live.  Excepted are an update that
\* was not sent because its owner was not live, and a part moved with its
\* window while it was dirty: dirty_rc is in screen coordinates.
ScreenCorrect ==
  \A c \in desk.stale :
    LET s == TopAt(desk, c)
    IN  /\ s # Menu
        /\ \/ c \in desk.dirty[s] /\ desk.win[s].cli \in desk.told
           \/ <<s, c>> \in desk.lost

\* The counts, the bitmap and the lists agree, so that a slot is free whenever
\* the count lets srvAllocZOrderNode look for one: it would return with the
\* lock held if there were none.  Each list is in a total order.
SlotsAgree ==
  /\ desk.free = Slots \ Used(desk)
  /\ \A t \in Lists :
       LET nodes == {s \in Listed(desk) : desk.win[s].type = t}
       IN  /\ desk.nr[t] = Cardinality(nodes) + (IF t = GLOBAL THEN 1 ELSE 0)
           /\ desk.nr[t] < MaxOf[t] => FreeSlots(desk, t) # {}
           /\ \A s \in nodes : s < MaxGlobals <=> t = GLOBAL
           /\ \A a, b \in nodes :
                a # b => (<<a, b>> \in desk.before <=> <<b, a>> \notin desk.before)
  /\ \A p \in desk.before : p[1] # p[2] /\ desk.win[p[1]].type = desk.win[p[2]].type

\* Nothing in the table outlives the client it belongs to: no node, no menu,
\* and the active window is one of the table's.
OwnersConnected ==
  /\ \A s \in Listed(desk) : desk.win[s].cli \in clients \cup {Server}
  /\ desk.active \in Used(desk)
  /\ desk.menus = <<>> <=> desk.track = NoClient
  /\ desk.track \in clients \cup {Server, NoClient}
=============================================================================
