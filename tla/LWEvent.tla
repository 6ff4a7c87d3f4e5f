------------------------------ MODULE LWEvent -------------------------------
(***************************************************************************)
(* Input in the server of MiniGUI-Processes: an update of the keyboard or  *)
(* of the mouse becomes an event in GetLWEvent (src/kernel/event.c), and   *)
(* ParseEvent (src/server/server.c) sends it to a client or queues it for  *)
(* the desktop.  The server handles an update in one step; between two of  *)
(* them clients connect, die and change what lies under the pointer.       *)
(*                                                                         *)
(* GetLWEvent compares the new state of the device with the one it kept,   *)
(* reports the first difference and keeps the whole new state.  A mouse    *)
(* button pressed over a client makes this client the receiver of all      *)
(* mouse messages until the button is released (down_client).              *)
(*                                                                         *)
(* A point is known by the client whose window is visible there.  Time     *)
(* counts in units of __mg_timer_counter up to the double click interval;  *)
(* when a timeout falls due is left open.  Long presses are disabled, as   *)
(* they are at start-up, and the server has no windows of its own but the  *)
(* desktop.                                                                *)
(*                                                                         *)
(* GetLWEvent fills in the status of the event it returns, except for a    *)
(* pure motion: that word of the caller's frame is never assigned.         *)
(***************************************************************************)
EXTENDS Integers, FiniteSets

CONSTANTS Keys,         \* scan codes of the keyboard
          Buttons,      \* buttons of the mouse: "L", "R", "M"
          Clients,      \* the entries of the client table
          DblClick,     \* dblclicktime
          Outcomes,     \* what becomes of a mouse message, see ButtonEvent
          HookFlags,    \* may a mouse hook stop messages (HOOK_STOP)?
          Chords,       \* may several buttons change in one update?
          Unassigned,   \* the statuses a word never assigned may hold
          MaxConnects   \* bound: connections that an entry serves

ASSUME KeysAssumption == Keys \subseteq 1 .. 127
ASSUME ButtonsAssumption == Buttons \subseteq {"L", "R", "M"}
ASSUME ClientsAssumption == "none" \notin Clients
ASSUME BoundsAssumption ==
  /\ DblClick \in Nat /\ MaxConnects \in Nat \ {0} /\ Chords \in BOOLEAN
  /\ Outcomes \subseteq {"sent", "taken", "dropped"} /\ HookFlags \subseteq BOOLEAN

SCANCODE_F1_F6        == 59 .. 64
SCANCODE_RIGHTCONTROL == 97
ShiftKeys == {29, 97, 42, 54, 56, 100} \cap Keys   \* control, shift and alt keys
LockKeys  == {58, 69, 70} \cap Keys                \* caps, num and scroll lock
Reported  == {"L", "R"}     \* the buttons GetLWEvent knows of
NoClient  == "none"         \* -1
NoButton  == "none"
NoKey     == 0
Unset     == -1             \* time1, time2 = 0

ASSUME UnassignedAssumption ==
  Unassigned \subseteq [shift : SUBSET (ShiftKeys \cup LockKeys), btn : SUBSET Reported]

VARIABLES
  kbd,      \* held: keys held down; rep: the one the keyboard repeats;
            \* state: the table of the input engine
  lw,       \* the static variables of event.c: oldkeystate, olddownkey,
            \* oldbutton, time (time1 and time2, as ages), locks (capslock,
            \* numlock, slock), pressed (caps_off, ... = 0), old_lwe (the key
            \* of a KE_KEYDOWN, or NoKey), and status as shift (bits 0 to 11),
            \* leds (16 to 18) and btn (12 to 15)
  given,    \* the last key or mouse event GetLWEvent returned: is it a pure
            \* motion, and its status as shift and btn
  route,    \* down_client, down_by, drag (the client of _dd_info), and hook
            \* and stop (the client and the flag of mousehook)
  under,    \* the client at the pointer
  alive,    \* clients that are connected
  uses,     \* connections each entry has served
  owed,     \* history: the client told of the press that began a capture and
            \* not yet of its release
  told,     \* history: has the last motion reached anybody?
  clicks    \* history: what the last press of a button was reported as
            \* ("down", "dblclk"), or "old" once the pointer has moved

world == <<under, alive, uses>>
vars == <<kbd, lw, given, route, world, owed, told, clicks>>

Least(S) == CHOOSE i \in S : \A j \in S : i <= j
-----------------------------------------------------------------------------
(* The keyboard.                                                           *)

\* keyboard_update: one key per update.  The keys that switch consoles clear
\* the right control key and report nothing.
Switches(k, press) ==
  press /\ k \in SCANCODE_F1_F6 /\ SCANCODE_RIGHTCONTROL \in kbd.state

Updated(k, press) ==
  IF Switches(k, press) THEN kbd.state \ {SCANCODE_RIGHTCONTROL}
  ELSE IF press THEN kbd.state \cup {k} ELSE kbd.state \ {k}

\* the keys that an update has changed
Changed(old, new) == (old \ new) \cup (new \ old)

\* A lock key toggles when it goes down and was up; status is then the leds.
Toggled(w, k, make) ==
  LET on == IF k \in w.locks THEN w.locks \ {k} ELSE w.locks \cup {k}
      on2 == IF make /\ k \notin w.pressed THEN [w EXCEPT !.locks = on, !.leds = on, !.btn = {}]
             ELSE w
  IN  [on2 EXCEPT !.pressed = IF make THEN @ \cup {k} ELSE @ \ {k}]

\* the mouse buttons in status: the left one, or else the right one
KeyButtons(w) ==
  w.btn \cup (IF "L" \in w.oldbutton THEN {"L"} ELSE w.oldbutton \cap {"R"})

\* status after the key k has changed
Statused(w, k, make) ==
  LET lk == IF k \in LockKeys THEN Toggled(w, k, make) ELSE w
      on == (w.shift \cap ShiftKeys) \ (IF make THEN {} ELSE {k})
      mods == on \cup (IF make THEN {k} \cap ShiftKeys ELSE {})
  IN  [lk EXCEPT !.shift = mods \cup lk.locks, !.btn = KeyButtons(lk)]

\* Fault: a release leaves the event that is repeated.
KeyedRepeats(w, k, new) ==
  LET make == k \in new
  IN  [Statused(w, k, make) EXCEPT
         !.oldkeystate = new,
         !.olddownkey = IF make THEN k ELSE @,
         !.old_lwe = IF make THEN k ELSE @]

\* Fault: only the key reported is kept.
KeyedOne(w, k, new) ==
  LET make == k \in new
  IN  [Statused(w, k, make) EXCEPT
         !.oldkeystate = @ \cup {k},
         !.olddownkey = IF make THEN k ELSE @,
         !.old_lwe = IF make THEN k ELSE NoKey]

\* GetLWEvent reports the change of key k, with the new table.
Keyed(w, k, new) ==
  LET make == k \in new
  IN  [Statused(w, k, make) EXCEPT
         !.oldkeystate = new,
         !.olddownkey = IF make THEN k ELSE @,
         !.old_lwe = IF make THEN k ELSE NoKey]

\* An update without a change stands for the key that went down last.
Unchanged(w, new) == [w EXCEPT !.oldkeystate = new, !.old_lwe = w.olddownkey]

\* GetLWEvent returns an event with the status in w.
Gives(motion, w) == given' = [motion |-> motion, shift |-> w.shift, btn |-> w.btn]

\* __mg_do_drag_drop_window for anything but a motion: the window is dropped.
Dropped(r) == [r EXCEPT !.drag = NoClient]

\* A byte of the keyboard: a key goes down, goes up or is repeated.
Key(k, press) ==
  LET new == Updated(k, press)
      ch == Changed(lw.oldkeystate, new)
      some == ch # {} \/ lw.olddownkey # NoKey       \* GetLWEvent returns 1
  IN  /\ IF press THEN k \notin kbd.held \/ k = kbd.rep ELSE k \in kbd.held
      /\ kbd' = [held |-> IF press THEN kbd.held \cup {k} ELSE kbd.held \ {k},
                 rep |-> IF press THEN k ELSE IF kbd.rep = k THEN NoKey ELSE kbd.rep,
                 state |-> new]
      /\ IF Switches(k, press) \/ ~some THEN UNCHANGED <<lw, given, route>>
         ELSE /\ lw' = IF ch = {} THEN Unchanged(lw, new) ELSE Keyed(lw, Least(ch), new)
              /\ Gives(FALSE, lw')
              /\ route' = Dropped(route)
      /\ UNCHANGED <<world, owed, told, clicks>>
-----------------------------------------------------------------------------
(* The mouse.                                                              *)

\* The first button that differs, as the tests are ordered.
FirstOf(old, new) ==
  IF ("L" \in old) # ("L" \in new) THEN "L"
  ELSE IF ("R" \in old) # ("R" \in new) THEN "R"
  ELSE NoButton

\* Fault: time1 stays set after a double click.
StampedKept(t) == 0

\* time1 when the left button goes down
Stamped(t) == IF t = Unset THEN 0 ELSE Unset

IsDblClick(t) == t # Unset /\ t <= DblClick

Still(t, moved) == IF moved THEN [b \in Reported |-> Unset] ELSE t

\* Fault: the buttons already in status stay there.
ButtonedKept(w, new, t) ==
  [w EXCEPT !.oldbutton = new, !.time = t, !.btn = @ \cup (new \cap Reported),
            !.old_lwe = NoKey]

\* mouseret: a button event is reported.
Buttoned(w, new, t) ==
  [w EXCEPT !.oldbutton = new, !.time = t, !.btn = new \cap Reported,
            !.old_lwe = NoKey]

\* A motion alone is reported at once, before me->status is set.
MoveOnly(old, new, moved) == moved /\ old = new

\* Fault: the client at the pointer gets every message.
TargetUnder(r, at) == at

\* the client a mouse message is sent to; NoClient is the desktop
Target(r, at) == IF r.down_client = NoClient THEN at ELSE r.down_client

\* ParseEvent: a button that goes down over a client begins a capture.
Captured(r, b, at) ==
  IF r.down_client = NoClient /\ at # NoClient
  THEN [r EXCEPT !.down_client = at, !.down_by = b] ELSE r

\* Fault: the test is for the press.
ReleasedNever(r, b) ==
  IF r.down_by # b THEN [r EXCEPT !.down_client = NoClient] ELSE r

\* Fault: the client is set to the entry of the server.
ReleasedZero(r, b) ==
  IF r.down_by = b THEN [r EXCEPT !.down_client = "server"] ELSE r

\* ... and ends with the button that began it.
Released(r, b) ==
  IF r.down_by = b THEN [r EXCEPT !.down_client = NoClient] ELSE r

\* A change of button b, at the point of client at.  A mouse hook with HOOK_STOP
\* makes ParseEvent return.  Otherwise the message is sent; or taken by
\* srv_evt_hook; or dropped by __mg_send2client, because the client has not been
\* heard of for long.
ButtonEvent(b, new, at, how, dbl) ==
  LET down == b \in new
      r1 == IF down /\ ~dbl THEN Captured(route, b, at) ELSE route
      stopped == route.hook # NoClient /\ route.stop
      r2 == IF down \/ stopped THEN r1 ELSE Released(r1, b)
      to == Target(r1, at)
      got == how = "sent" /\ ~stopped /\ to \in alive
  IN  IF route.drag # NoClient
      THEN /\ route' = [Dropped(route) EXCEPT !.down_client = NoClient]
           /\ owed' = NoClient
      ELSE /\ route' = r2
           /\ owed' = IF got /\ r1.down_client # route.down_client THEN to
                      ELSE IF got /\ ~down /\ to = owed /\ b = route.down_by THEN NoClient
                      ELSE owed

\* A motion goes to the window dragged, or to a client.
MoveEvent ==
  /\ route' = IF route.drag # NoClient THEN [route EXCEPT !.down_client = NoClient]
              ELSE route
  /\ owed' = IF route.drag # NoClient THEN NoClient ELSE owed

\* An update of the mouse: RefreshCursor, GetLWEvent and ParseEvent.
Mouse(new, moved, at, how) ==
  LET old == lw.oldbutton
      b == FirstOf(old, new)
      t == Still(lw.time, moved)
      down == b \in new
      dbl == down /\ IsDblClick(t[b])
      seen == [x \in Reported |-> IF moved THEN "old" ELSE clicks[x]]
  IN  /\ Chords \/ Cardinality(Changed(old, new)) <= 1
      /\ moved \/ at = under
      /\ under' = at
      /\ IF MoveOnly(old, new, moved)
         THEN /\ lw' = [lw EXCEPT !.time = t]
              /\ \E w \in Unassigned : Gives(TRUE, w)
              /\ told' = TRUE /\ clicks' = seen
              /\ MoveEvent
         ELSE IF b = NoButton
         THEN /\ lw' = [lw EXCEPT !.time = t, !.old_lwe = NoKey]
              /\ told' = (told /\ ~moved) /\ clicks' = seen
              /\ UNCHANGED <<given, route, owed>>
         ELSE /\ lw' = Buttoned(lw, new, IF down THEN [t EXCEPT ![b] = Stamped(@)] ELSE t)
              /\ Gives(FALSE, lw')
              /\ told' = TRUE
              /\ clicks' = IF down THEN [seen EXCEPT ![b] = IF dbl THEN "dblclk" ELSE "down"]
                           ELSE seen
              /\ ButtonEvent(b, new, at, how, dbl)
      /\ UNCHANGED <<kbd, alive, uses>>

\* GetLWEvent (0) when the timeout is due: the last key is repeated, which
\* drops a window that is dragged; otherwise MSG_TIMEOUT goes to the desktop.
Timeout ==
  /\ IF lw.old_lwe # NoKey THEN Gives(FALSE, lw) /\ route' = Dropped(route)
                           ELSE UNCHANGED <<given, route>>
  /\ UNCHANGED <<kbd, lw, world, owed, told, clicks>>

\* __mg_timer_counter advances.
Tick ==
  /\ lw' = [lw EXCEPT !.time =
              [b \in Reported |-> IF @[b] \in 0 .. DblClick THEN @[b] + 1 ELSE @[b]]]
  /\ UNCHANGED <<kbd, given, route, world, owed, told, clicks>>
-----------------------------------------------------------------------------
(* The clients.                                                            *)

\* A client connects and may show a window at the pointer.
Connect(c) ==
  /\ c \notin alive /\ uses[c] < MaxConnects
  /\ alive' = alive \cup {c}
  /\ uses' = [uses EXCEPT ![c] = @ + 1]
  /\ UNCHANGED <<kbd, lw, given, route, under, owed, told, clicks>>

\* lock_zi_for_change: an operation on the z-order drops the window dragged,
\* and another client may come to lie under the pointer.
ZOrderOp(at) ==
  /\ at \in alive \cup {NoClient} /\ at # under
  /\ under' = at
  /\ route' = Dropped(route)
  /\ UNCHANGED <<kbd, lw, given, alive, uses, owed, told, clicks>>

\* __mg_remove_client: its windows go; down_client is not looked at.
Die(c, at) ==
  /\ c \in alive
  /\ alive' = alive \ {c}
  /\ IF under = c THEN at \in alive' \cup {NoClient} ELSE at = under
  /\ under' = at
  /\ route' = Dropped(route)
  /\ owed' = IF owed = c THEN NoClient ELSE owed
  /\ UNCHANGED <<kbd, lw, given, uses, told, clicks>>

\* srvStartDragWindow
StartDrag(c) ==
  /\ c \in alive /\ route.drag = NoClient
  /\ route' = [route EXCEPT !.drag = c]
  /\ UNCHANGED <<kbd, lw, given, world, owed, told, clicks>>

\* __mg_do_reghook_operation: the last client to register or unregister wins.
RegisterMouseHook(c, stop) ==
  /\ c \in alive
  /\ \/ route' = [route EXCEPT !.hook = c, !.stop = stop]
     \/ route' = [route EXCEPT !.hook = NoClient]
  /\ UNCHANGED <<kbd, lw, given, world, owed, told, clicks>>

\* srvCancelDragWindow
CancelDrag(c) ==
  /\ c \in alive /\ route.drag = c
  /\ route' = Dropped(route)
  /\ UNCHANGED <<kbd, lw, given, world, owed, told, clicks>>
-----------------------------------------------------------------------------
\* InitLWEvent: ResetMouseEvent and ResetKeyEvent.
Init ==
  /\ kbd = [held |-> {}, rep |-> NoKey, state |-> {}]
  /\ lw = [oldkeystate |-> {}, olddownkey |-> NoKey, oldbutton |-> {},
           time |-> [b \in Reported |-> Unset], locks |-> {}, pressed |-> {},
           old_lwe |-> NoKey, shift |-> {}, leds |-> {}, btn |-> {}]
  /\ given = [motion |-> FALSE, shift |-> {}, btn |-> {}]
  /\ route = [down_client |-> NoClient, down_by |-> "L", drag |-> NoClient,
              hook |-> NoClient, stop |-> FALSE]
  /\ under = NoClient /\ alive = {} /\ uses = [c \in Clients |-> 0]
  /\ owed = NoClient /\ told = TRUE
  /\ clicks = [b \in Reported |-> "old"]

Next ==
  \/ \E k \in Keys, press \in BOOLEAN : Key(k, press)
  \/ \E new \in SUBSET Buttons, moved \in BOOLEAN, at \in alive \cup {NoClient},
        how \in Outcomes : Mouse(new, moved, at, how)
  \/ Timeout \/ Tick
  \/ \E c \in Clients : Connect(c) \/ StartDrag(c) \/ CancelDrag(c)
  \/ \E c \in Clients, stop \in HookFlags : RegisterMouseHook(c, stop)
  \/ \E at \in alive \cup {NoClient} : ZOrderOp(at)
  \/ \E c \in Clients, at \in Clients \cup {NoClient} : Die(c, at)

Spec == Init /\ [][Next]_vars
-----------------------------------------------------------------------------
(* Properties.                                                             *)

\* Every variable holds a value of its type; down_client is -1 or the entry of
\* a client.
TypeOK ==
  /\ kbd \in [held : SUBSET Keys, rep : Keys \cup {NoKey}, state : SUBSET Keys]
  /\ lw \in [oldkeystate : SUBSET Keys, olddownkey : Keys \cup {NoKey},
             oldbutton : SUBSET Buttons, time : [Reported -> Unset .. DblClick + 1],
             locks : SUBSET LockKeys, pressed : SUBSET LockKeys,
             old_lwe : Keys \cup {NoKey}, shift : SUBSET (ShiftKeys \cup LockKeys),
             leds : SUBSET LockKeys, btn : SUBSET Reported]
  /\ given \in [motion : BOOLEAN, shift : SUBSET (ShiftKeys \cup LockKeys),
                btn : SUBSET Reported]
  /\ route \in [down_client : Clients \cup {NoClient}, down_by : Reported,
                drag : Clients \cup {NoClient}, hook : Clients \cup {NoClient},
                stop : BOOLEAN]
  /\ under \in alive \cup {NoClient} /\ alive \subseteq Clients
  /\ uses \in [Clients -> 0 .. MaxConnects]
  /\ owed \in Clients \cup {NoClient} /\ told \in BOOLEAN
  /\ clicks \in [Reported -> {"old", "down", "dblclk"}]

\* The status GetShiftKeyStatus returns, and that of the last event unless it is
\* a pure motion, says of every control, shift and alt key whether it is held:
\* no release and no press is swallowed, though GetLWEvent reports one change of
\* an update only.
Modifiers(w) == w.shift \cap ShiftKeys = kbd.held \cap ShiftKeys
ModifiersFollowKeys ==
  Modifiers(lw) /\ (~given.motion => Modifiers(given))

\* The key that a timeout would repeat (KS_REPEATED) is still held.
RepeatsHeldKey == lw.old_lwe # NoKey => lw.old_lwe \in kbd.held

\* The buttons in the status GetShiftKeyStatus returns, and in that of the last
\* event unless it is a pure motion, are down; and a button that is down is in
\* it, unless it is the right one and a lock key has cleared it while the left
\* one was down too.
PressedButtons(w) ==
  /\ w.btn \subseteq lw.oldbutton
  /\ "L" \in lw.oldbutton => "L" \in w.btn
  /\ "R" \in lw.oldbutton \ w.btn => "L" \in lw.oldbutton
ButtonsTrue ==
  PressedButtons(lw) /\ (~given.motion => PressedButtons(given))

\* A capture (down_client) ends no later than the button that began it.
CaptureEnds == route.down_client # NoClient => route.down_by \in lw.oldbutton

\* The client that captures the mouse has been sent the press, and a client that
\* has been sent the press keeps the capture until it is sent the release or the
\* window is dropped.
CaptureTold ==
  /\ route.down_client \in alive => owed = route.down_client
  /\ owed # NoClient => owed = route.down_client

\* A press counts for one double click: one that ended a double click, or that
\* the pointer has moved away from, does not begin another.
ClickCountsOnce ==
  \A b \in Reported : lw.time[b] # Unset => clicks[b] = "down"

\* Claimed by include/window.h of MSG_MOUSEMOVE: a motion of the pointer is
\* reported, by itself or with a button.
MovesReported == told

\* Claimed by include/window.h of MSG_MOUSEMOVE: its key_flags are the shift key
\* status when the motion occurred.
MotionStatusTrue == given.motion => Modifiers(given)

\* Claimed by include/common.h of KS_RIGHTBUTTON.
RightButtonShown == "R" \in lw.oldbutton => "R" \in lw.btn
=============================================================================
