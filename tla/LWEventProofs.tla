--------------------------- MODULE LWEventProofs ---------------------------
(* What GetLWEvent and ParseEvent keep true, for every keyboard, mouse,    *)
(* set of clients and double click interval.                               *)
EXTENDS LWEvent, FiniteSetTheorems, LeastNumber, TLAPS

\* Least finds a member of the set it is given.
LEMMA LeastIn ==
  ASSUME NEW S \in SUBSET Nat, S # {}
  PROVE  Least(S) \in S
  BY LeastExists DEF Least
-----------------------------------------------------------------------------
(* Types.                                                                  *)

KbdType == [held : SUBSET Keys, rep : Keys \cup {NoKey}, state : SUBSET Keys]
LwType ==
  [oldkeystate : SUBSET Keys, olddownkey : Keys \cup {NoKey},
   oldbutton : SUBSET Buttons, time : [Reported -> Unset .. DblClick + 1],
   locks : SUBSET LockKeys, pressed : SUBSET LockKeys,
   old_lwe : Keys \cup {NoKey}, shift : SUBSET (ShiftKeys \cup LockKeys),
   leds : SUBSET LockKeys, btn : SUBSET Reported]
GivenType ==
  [motion : BOOLEAN, shift : SUBSET (ShiftKeys \cup LockKeys), btn : SUBSET Reported]
RouteType ==
  [down_client : Clients \cup {NoClient}, down_by : Reported,
   drag : Clients \cup {NoClient}, hook : Clients \cup {NoClient},
   stop : BOOLEAN]

\* Reporting a key keeps lw of its type and changes status, the lock keys and
\* the event to repeat only.
LEMMA StatusedType ==
  ASSUME NEW w \in LwType, NEW k \in Keys, NEW make \in BOOLEAN
  PROVE  Statused(w, k, make) \in LwType
<1> DEFINE lk == IF k \in LockKeys THEN Toggled(w, k, make) ELSE w
<1>1. lk \in LwType
  <2> DEFINE on == IF k \in w.locks THEN w.locks \ {k} ELSE w.locks \cup {k}
             w1 == IF make /\ k \notin w.pressed
                   THEN [w EXCEPT !.locks = on, !.leds = on, !.btn = {}] ELSE w
             pr == IF make THEN w1.pressed \cup {k} ELSE w1.pressed \ {k}
  <2> SUFFICES ASSUME k \in LockKeys PROVE [w1 EXCEPT !.pressed = pr] \in LwType
    BY DEF Toggled
  <2>1. on \in SUBSET LockKeys
    BY DEF LwType
  <2> HIDE DEF on
  <2>2. w1 \in LwType
    BY <2>1 DEF LwType
  <2> HIDE DEF w1
  <2>3. pr \in SUBSET LockKeys
    BY <2>2 DEF LwType
  <2> HIDE DEF pr
  <2> QED
    BY <2>2, <2>3 DEF LwType
<1>2. KeyButtons(lk) \in SUBSET Reported
  BY <1>1 DEF LwType, KeyButtons, Reported
<1>3. lk.locks \in SUBSET LockKeys
  BY <1>1 DEF LwType
<1> HIDE DEF lk
<1> DEFINE sh == ((w.shift \cap ShiftKeys) \ (IF make THEN {} ELSE {k}))
                   \cup (IF make THEN {k} \cap ShiftKeys ELSE {}) \cup lk.locks
<1>4. sh \in SUBSET (ShiftKeys \cup LockKeys)
  BY <1>3
<1>5. Statused(w, k, make) = [lk EXCEPT !.shift = sh, !.btn = KeyButtons(lk)]
  BY DEF Statused, lk
<1> HIDE DEF sh
<1> QED
  BY <1>1, <1>2, <1>4, <1>5 DEF LwType

LEMMA KeyedType ==
  ASSUME NEW w \in LwType, NEW k \in Keys, NEW new \in SUBSET Keys
  PROVE  Keyed(w, k, new) \in LwType
<1> DEFINE s == Statused(w, k, k \in new)
<1>1. s \in LwType
  <2>1. (k \in new) \in BOOLEAN
    OBVIOUS
  <2> QED
    BY <2>1, StatusedType, Zenon
<1>2. Keyed(w, k, new) =
        [s EXCEPT !.oldkeystate = new,
                  !.olddownkey = IF k \in new THEN k ELSE @,
                  !.old_lwe = IF k \in new THEN k ELSE NoKey]
  BY DEF Keyed
<1> HIDE DEF s
<1> QED
  BY <1>1, <1>2 DEF LwType

LEMMA TypeParts ==
  TypeOK <=> /\ kbd \in KbdType /\ lw \in LwType /\ given \in GivenType
             /\ route \in RouteType
             /\ under \in alive \cup {NoClient} /\ alive \subseteq Clients
             /\ uses \in [Clients -> 0 .. MaxConnects]
             /\ owed \in Clients \cup {NoClient} /\ told \in BOOLEAN
             /\ clicks \in [Reported -> {"old", "down", "dblclk"}]
  BY DEF TypeOK, KbdType, LwType, GivenType, RouteType

\* An event's status has a type.
LEMMA GivesType ==
  ASSUME NEW w \in LwType, NEW motion \in BOOLEAN, Gives(motion, w)
  PROVE  given' \in GivenType
  BY DEF Gives, GivenType, LwType

\* What a change of button b does to the receiver of mouse messages.
LEMMA ButtonEventType ==
  ASSUME TypeOK, NEW b \in Reported, NEW new \in SUBSET Buttons,
         NEW at \in Clients \cup {NoClient}, NEW how \in Outcomes, NEW dbl,
         ButtonEvent(b, new, at, how, dbl)
  PROVE  route' \in RouteType /\ owed' \in Clients \cup {NoClient}
<1> DEFINE down == b \in new
           r1 == IF down /\ ~dbl THEN Captured(route, b, at) ELSE route
           stopped == route.hook # NoClient /\ route.stop
           r2 == IF down \/ stopped THEN r1 ELSE Released(r1, b)
           to == Target(r1, at)
           got == how = "sent" /\ ~stopped /\ to \in alive
<1>1. route \in RouteType /\ owed \in Clients \cup {NoClient}
  BY TypeParts
<1>2. r1 \in RouteType
  BY <1>1 DEF RouteType, Captured
<1>3. r2 \in RouteType
  BY <1>1, <1>2 DEF RouteType, Released
<1>4. to \in Clients \cup {NoClient}
  BY <1>2 DEF RouteType, Target
<1>5. IF route.drag # NoClient
      THEN /\ route' = [Dropped(route) EXCEPT !.down_client = NoClient]
           /\ owed' = NoClient
      ELSE /\ route' = r2
           /\ owed' = IF got /\ r1.down_client # route.down_client THEN to
                      ELSE IF got /\ ~down /\ to = owed /\ b = route.down_by THEN NoClient
                      ELSE owed
  BY Zenon DEF ButtonEvent
<1> HIDE DEF down, r1, stopped, r2, to, got
<1>6. [Dropped(route) EXCEPT !.down_client = NoClient] \in RouteType
  BY <1>1 DEF RouteType, Dropped
<1> QED
  BY <1>1, <1>3, <1>4, <1>5, <1>6

\* One step keeps every type.
LEMMA KeyType ==
  ASSUME TypeOK, NEW k \in Keys, NEW press \in BOOLEAN, Key(k, press)
  PROVE  kbd' \in KbdType /\ lw' \in LwType /\ given' \in GivenType /\ route' \in RouteType
<1> DEFINE new == Updated(k, press)
           ch == Changed(lw.oldkeystate, new)
           some == ch # {} \/ lw.olddownkey # NoKey
<1>1. kbd \in KbdType /\ lw \in LwType /\ given \in GivenType /\ route \in RouteType
  BY TypeParts
<1>2. new \in SUBSET Keys
  BY <1>1 DEF KbdType, Updated
<1>3. ch \in SUBSET Keys
  BY <1>1, <1>2 DEF LwType, Changed
<1>4. /\ kbd' = [held |-> IF press THEN kbd.held \cup {k} ELSE kbd.held \ {k},
                 rep |-> IF press THEN k ELSE IF kbd.rep = k THEN NoKey ELSE kbd.rep,
                 state |-> new]
      /\ IF Switches(k, press) \/ ~some THEN UNCHANGED <<lw, given, route>>
         ELSE /\ lw' = IF ch = {} THEN Unchanged(lw, new) ELSE Keyed(lw, Least(ch), new)
              /\ Gives(FALSE, lw')
              /\ route' = Dropped(route)
  BY Zenon DEF Key
<1> HIDE DEF new, ch, some
<1>5. kbd' \in KbdType
  BY <1>1, <1>2, <1>4 DEF KbdType
<1>6. ch # {} => Keyed(lw, Least(ch), new) \in LwType
  <2> SUFFICES ASSUME ch # {} PROVE Keyed(lw, Least(ch), new) \in LwType
    OBVIOUS
  <2>1. Least(ch) \in Keys
    <3>1. ch \in SUBSET Nat
      BY <1>3, KeysAssumption
    <3> QED
      BY <1>3, <3>1, LeastIn
  <2> QED
    BY <1>1, <1>2, <2>1, KeyedType
<1>7. Unchanged(lw, new) \in LwType
  BY <1>1, <1>2 DEF LwType, Unchanged
<1>8. Dropped(route) \in RouteType
  BY <1>1 DEF RouteType, Dropped
<1>9. lw' \in LwType
  BY <1>1, <1>4, <1>6, <1>7
<1> QED
  BY <1>1, <1>4, <1>5, <1>8, <1>9, GivesType

LEMMA MouseType ==
  ASSUME TypeOK, NEW new \in SUBSET Buttons, NEW moved \in BOOLEAN,
         NEW at \in alive \cup {NoClient}, NEW how \in Outcomes,
         Mouse(new, moved, at, how)
  PROVE  TypeOK'
<1> DEFINE b == FirstOf(lw.oldbutton, new)
           t == Still(lw.time, moved)
           down == b \in new
           dbl == down /\ IsDblClick(t[b])
           seen == [x \in Reported |-> IF moved THEN "old" ELSE clicks[x]]
           t1 == IF down THEN [t EXCEPT ![b] = Stamped(@)] ELSE t
<1>1. /\ kbd \in KbdType /\ lw \in LwType /\ given \in GivenType /\ route \in RouteType
      /\ alive \subseteq Clients /\ told \in BOOLEAN
      /\ owed \in Clients \cup {NoClient}
      /\ clicks \in [Reported -> {"old", "down", "dblclk"}]
  BY TypeParts
<1>2. t \in [Reported -> Unset .. DblClick + 1]
  BY <1>1, BoundsAssumption DEF LwType, Still, Unset
<1>3. t1 \in [Reported -> Unset .. DblClick + 1]
  <2> HIDE DEF t, b, down
  <2>1. Stamped(t[b]) \in Unset .. DblClick + 1
    BY BoundsAssumption DEF Stamped, Unset
  <2> QED
    BY <1>2, <2>1
<1>4. seen \in [Reported -> {"old", "down", "dblclk"}]
  BY <1>1
<1>5. b # NoButton => b \in Reported
  BY DEF FirstOf, Reported
<1>6. UNCHANGED <<kbd, alive, uses>> /\ under' = at
  BY DEF Mouse
<1> SUFFICES /\ lw' \in LwType /\ given' \in GivenType /\ route' \in RouteType
             /\ owed' \in Clients \cup {NoClient} /\ told' \in BOOLEAN
             /\ clicks' \in [Reported -> {"old", "down", "dblclk"}]
  <2>1. kbd' \in KbdType /\ alive' \subseteq Clients /\ under' \in alive' \cup {NoClient}
    BY <1>1, <1>6
  <2>2. uses' \in [Clients -> 0 .. MaxConnects]
    BY <1>6, TypeParts
  <2> QED
    BY <2>1, <2>2 DEF TypeOK, KbdType, LwType, GivenType, RouteType
<1> HIDE DEF dbl, t1
<1>7. CASE MoveOnly(lw.oldbutton, new, moved)
  <2>1. /\ lw' = [lw EXCEPT !.time = t] /\ told' = TRUE /\ clicks' = seen /\ MoveEvent
        /\ \E w \in Unassigned : Gives(TRUE, w)
    BY <1>7 DEF Mouse
  <2> HIDE DEF b, t, seen
  <2>2. lw' \in LwType
    BY <1>1, <1>2, <2>1 DEF LwType
  <2>3. route' \in RouteType /\ owed' \in Clients \cup {NoClient}
    BY <1>1, <2>1 DEF MoveEvent, RouteType
  <2>4. given' \in GivenType
    BY <2>1, UnassignedAssumption DEF Gives, GivenType
  <2> QED
    BY <1>4, <2>1, <2>2, <2>3, <2>4
<1>8. CASE ~MoveOnly(lw.oldbutton, new, moved) /\ b = NoButton
  <2>1. /\ lw' = [lw EXCEPT !.time = t, !.old_lwe = NoKey]
        /\ told' = (told /\ ~moved) /\ clicks' = seen
        /\ UNCHANGED <<given, route, owed>>
    BY <1>8 DEF Mouse
  <2> HIDE DEF b, t, seen
  <2>2. lw' \in LwType
    BY <1>1, <1>2, <2>1 DEF LwType
  <2> QED
    BY <1>1, <1>4, <2>1, <2>2
<1>9. CASE ~MoveOnly(lw.oldbutton, new, moved) /\ b # NoButton
  <2>1. /\ lw' = Buttoned(lw, new, t1)
        /\ Gives(FALSE, lw')
        /\ told' = TRUE
        /\ clicks' = IF down THEN [seen EXCEPT ![b] = IF dbl THEN "dblclk" ELSE "down"]
                     ELSE seen
        /\ ButtonEvent(b, new, at, how, dbl)
    BY <1>9 DEF Mouse, dbl, t1
  <2> HIDE DEF b, t, seen
  <2>2. lw' \in LwType
    BY <1>1, <1>3, <2>1 DEF LwType, Buttoned
  <2>3. at \in Clients \cup {NoClient}
    BY <1>1
  <2>4. route' \in RouteType /\ owed' \in Clients \cup {NoClient}
    BY <1>5, <1>9, <2>1, <2>3, ButtonEventType
  <2>5. clicks' \in [Reported -> {"old", "down", "dblclk"}]
    BY <1>4, <1>5, <1>9, <2>1
  <2>6. given' \in GivenType
    BY <2>1, <2>2, GivesType
  <2> QED
    BY <2>1, <2>2, <2>4, <2>5, <2>6
<1> QED
  BY <1>7, <1>8, <1>9

LEMMA OtherType ==
  ASSUME TypeOK,
         \/ Timeout \/ Tick
         \/ \E c \in Clients : Connect(c) \/ StartDrag(c) \/ CancelDrag(c)
         \/ \E c \in Clients, stop \in HookFlags : RegisterMouseHook(c, stop)
         \/ \E at \in alive \cup {NoClient} : ZOrderOp(at)
         \/ \E c \in Clients, at \in Clients \cup {NoClient} : Die(c, at)
  PROVE  TypeOK'
<1>1. /\ kbd \in KbdType /\ lw \in LwType /\ given \in GivenType /\ route \in RouteType
      /\ under \in alive \cup {NoClient} /\ alive \subseteq Clients
      /\ uses \in [Clients -> 0 .. MaxConnects]
      /\ owed \in Clients \cup {NoClient} /\ told \in BOOLEAN
      /\ clicks \in [Reported -> {"old", "down", "dblclk"}]
  BY TypeParts
<1>2. Dropped(route) \in RouteType
  BY <1>1 DEF Dropped, RouteType
<1> SUFFICES /\ kbd' \in KbdType /\ lw' \in LwType /\ given' \in GivenType /\ route' \in RouteType
             /\ under' \in alive' \cup {NoClient} /\ alive' \subseteq Clients
             /\ uses' \in [Clients -> 0 .. MaxConnects]
             /\ owed' \in Clients \cup {NoClient} /\ told' \in BOOLEAN
             /\ clicks' \in [Reported -> {"old", "down", "dblclk"}]
  BY DEF TypeOK, KbdType, LwType, GivenType, RouteType
<1>3. CASE Timeout
  BY <1>1, <1>2, <1>3, GivesType DEF Timeout, world
<1>4. CASE Tick
  <2>1. lw' \in LwType
    <3> DEFINE tm == [b \in Reported |-> IF lw.time[b] \in 0 .. DblClick
                                         THEN lw.time[b] + 1 ELSE lw.time[b]]
    <3>1. tm \in [Reported -> Unset .. DblClick + 1]
      BY <1>1, BoundsAssumption DEF LwType, Unset
    <3>2. lw' = [lw EXCEPT !.time = tm]
      BY <1>4 DEF Tick
    <3> HIDE DEF tm
    <3> QED
      BY <1>1, <3>1, <3>2 DEF LwType
  <2> QED
    BY <1>1, <1>4, <2>1 DEF Tick, world
<1>5. ASSUME NEW c \in Clients, Connect(c) PROVE uses' \in [Clients -> 0 .. MaxConnects]
  BY <1>1, <1>5, BoundsAssumption DEF Connect
<1>6. ASSUME NEW c \in Clients, Connect(c) \/ StartDrag(c) \/ CancelDrag(c)
      PROVE  route' \in RouteType
  BY <1>1, <1>2, <1>6 DEF Connect, StartDrag, CancelDrag, RouteType
<1>7. CASE \E c \in Clients : Connect(c) \/ StartDrag(c) \/ CancelDrag(c)
  BY <1>1, <1>5, <1>6, <1>7 DEF Connect, StartDrag, CancelDrag, world
<1>8. CASE \E c \in Clients, stop \in HookFlags : RegisterMouseHook(c, stop)
  <2>1. route' \in RouteType
    BY <1>1, <1>8, BoundsAssumption DEF RegisterMouseHook, RouteType
  <2> QED
    BY <1>1, <1>8, <2>1 DEF RegisterMouseHook, world
<1>9. CASE \E at \in alive \cup {NoClient} : ZOrderOp(at)
  BY <1>1, <1>2, <1>9 DEF ZOrderOp
<1>10. CASE \E c \in Clients, at \in Clients \cup {NoClient} : Die(c, at)
  BY <1>1, <1>2, <1>10 DEF Die
<1> QED
  BY <1>3, <1>4, <1>7, <1>8, <1>9, <1>10

\* Every variable keeps its type, whatever the server reads and whoever dies.
THEOREM TypeCorrect == Spec => []TypeOK
<1>1. Init => TypeOK
  <2> SUFFICES ASSUME Init PROVE TypeOK
    OBVIOUS
  <2>1. kbd \in KbdType /\ route \in RouteType
    BY DEF Init, KbdType, RouteType, Reported
  <2>2. lw \in LwType
    BY BoundsAssumption DEF Init, LwType, Unset
  <2>3. given \in GivenType
    BY DEF Init, GivenType
  <2> QED
    BY <2>1, <2>2, <2>3, BoundsAssumption DEF Init, TypeOK, KbdType, LwType, GivenType, RouteType
<1>2. TypeOK /\ [Next]_vars => TypeOK'
  <2> SUFFICES ASSUME TypeOK, [Next]_vars PROVE TypeOK'
    OBVIOUS
  <2>1. ASSUME NEW k \in Keys, NEW press \in BOOLEAN, Key(k, press)
        PROVE  TypeOK'
    <3>1. kbd' \in KbdType /\ lw' \in LwType /\ given' \in GivenType /\ route' \in RouteType
      BY <2>1, KeyType
    <3>2. UNCHANGED <<world, owed, told, clicks>>
      BY <2>1 DEF Key
    <3> QED
      BY <3>1, <3>2 DEF TypeOK, KbdType, LwType, GivenType, RouteType, world
  <2>2. ASSUME NEW new \in SUBSET Buttons, NEW moved \in BOOLEAN,
               NEW at \in alive \cup {NoClient}, NEW how \in Outcomes,
               Mouse(new, moved, at, how)
        PROVE  TypeOK'
    BY <2>2, MouseType
  <2>3. CASE UNCHANGED vars
    BY <2>3 DEF vars, world, TypeOK
  <2> QED
    BY <2>1, <2>2, <2>3, OtherType DEF Next
<1> QED
  BY <1>1, <1>2, PTL DEF Spec

-----------------------------------------------------------------------------
(* The status of the last event.                                           *)

\* status has not changed since the last event, which was given it unless it was
\* a pure motion.
GivenIsStatus ==
  ~given.motion => given.shift = lw.shift /\ given.btn = lw.btn

LEMMA GivenAlways == Spec => []GivenIsStatus
<1>1. Init => GivenIsStatus
  BY DEF Init, GivenIsStatus
<1>2. TypeOK /\ GivenIsStatus /\ [Next]_vars => GivenIsStatus'
  <2> SUFFICES ASSUME TypeOK, GivenIsStatus, [Next]_vars PROVE GivenIsStatus'
    OBVIOUS
  <2>1. lw \in LwType
    BY TypeParts
  <2>2. ASSUME Gives(FALSE, lw') PROVE GivenIsStatus'
    BY <2>2 DEF Gives, GivenIsStatus
  <2>3. ASSUME given' = given, lw'.shift = lw.shift, lw'.btn = lw.btn
        PROVE  GivenIsStatus'
    BY <2>3 DEF GivenIsStatus
  <2>4. ASSUME NEW k \in Keys, NEW press \in BOOLEAN, Key(k, press)
        PROVE  GivenIsStatus'
    <3>1. UNCHANGED <<lw, given>> \/ Gives(FALSE, lw')
      BY <2>4 DEF Key
    <3> QED
      BY <2>2, <2>3, <3>1
  <2>5. ASSUME NEW new \in SUBSET Buttons, NEW moved \in BOOLEAN,
               NEW at \in alive \cup {NoClient}, NEW how \in Outcomes,
               Mouse(new, moved, at, how)
        PROVE  GivenIsStatus'
    <3> DEFINE t == Still(lw.time, moved)
    <3>1. \/ \E w \in Unassigned : Gives(TRUE, w)
          \/ lw' = [lw EXCEPT !.time = t, !.old_lwe = NoKey] /\ given' = given
          \/ Gives(FALSE, lw')
      BY <2>5 DEF Mouse
    <3> HIDE DEF t
    <3>2. CASE \E w \in Unassigned : Gives(TRUE, w)
      BY <3>2 DEF Gives, GivenIsStatus
    <3>3. CASE lw' = [lw EXCEPT !.time = t, !.old_lwe = NoKey] /\ given' = given
      <4>1. lw'.shift = lw.shift /\ lw'.btn = lw.btn
        BY <2>1, <3>3 DEF LwType
      <4> QED
        BY <2>3, <3>3, <4>1
    <3> QED
      BY <2>2, <3>1, <3>2, <3>3
  <2>6. CASE Timeout
    BY <2>2, <2>3, <2>6 DEF Timeout
  <2>7. CASE Tick
    <3> DEFINE tm == [b \in Reported |-> IF lw.time[b] \in 0 .. DblClick
                                         THEN lw.time[b] + 1 ELSE lw.time[b]]
    <3>1. lw' = [lw EXCEPT !.time = tm] /\ given' = given
      BY <2>7 DEF Tick
    <3> HIDE DEF tm
    <3>2. lw'.shift = lw.shift /\ lw'.btn = lw.btn
      BY <2>1, <3>1 DEF LwType
    <3> QED
      BY <2>3, <3>1, <3>2
  <2>8. ASSUME \/ \E c \in Clients : Connect(c) \/ StartDrag(c) \/ CancelDrag(c)
               \/ \E c \in Clients, stop \in HookFlags : RegisterMouseHook(c, stop)
               \/ \E at \in alive \cup {NoClient} : ZOrderOp(at)
               \/ \E c \in Clients, at \in Clients \cup {NoClient} : Die(c, at)
               \/ UNCHANGED vars
        PROVE  UNCHANGED <<lw, given>>
    BY <2>8 DEF Connect, StartDrag, CancelDrag, RegisterMouseHook, ZOrderOp, Die, vars
  <2> QED
    BY <2>3, <2>4, <2>5, <2>6, <2>7, <2>8 DEF Next
<1> QED
  BY <1>1, <1>2, TypeCorrect, PTL DEF Spec

-----------------------------------------------------------------------------
(* The keyboard.                                                           *)

\* The keyboard has not both the right control key and a key that switches
\* consoles with it, so that keyboard_update clears no key that is held.
NoConsoleSwitch == SCANCODE_RIGHTCONTROL \notin Keys \/ SCANCODE_F1_F6 \cap Keys = {}

\* The input engine, GetLWEvent and the keyboard agree on the keys held, and
\* the key that the keyboard repeats is the last one GetLWEvent saw go down.
KeysAgree ==
  /\ kbd.state = kbd.held /\ lw.oldkeystate = kbd.held
  /\ kbd.rep # NoKey => kbd.rep \in kbd.held /\ lw.olddownkey = kbd.rep

KeysInv == KeysAgree /\ Modifiers(lw) /\ RepeatsHeldKey

\* The buttons of a status that has been put together from w.
ButtonsFrom(w, btn) ==
  /\ btn \subseteq w.btn \cup w.oldbutton
  /\ "L" \in w.oldbutton => "L" \in btn
  /\ "R" \in w.oldbutton => "R" \in btn \/ "L" \in w.oldbutton

\* What reporting a key does to the rest of lw.
LEMMA StatusedFields ==
  ASSUME NEW w \in LwType, NEW k \in Keys, NEW make \in BOOLEAN
  PROVE  LET s == Statused(w, k, make)
         IN  /\ s.oldbutton = w.oldbutton /\ s.time = w.time
             /\ s.olddownkey = w.olddownkey
             /\ s.shift \cap ShiftKeys =
                  ((w.shift \cap ShiftKeys) \ (IF make THEN {} ELSE {k}))
                    \cup (IF make THEN {k} \cap ShiftKeys ELSE {})
             /\ ButtonsFrom(w, s.btn)
<1> DEFINE lk == IF k \in LockKeys THEN Toggled(w, k, make) ELSE w
<1>1. /\ lk \in LwType
      /\ lk.oldbutton = w.oldbutton /\ lk.time = w.time /\ lk.olddownkey = w.olddownkey
      /\ lk.btn = w.btn \/ lk.btn = {}
  <2> DEFINE on == IF k \in w.locks THEN w.locks \ {k} ELSE w.locks \cup {k}
             w1 == IF make /\ k \notin w.pressed
                   THEN [w EXCEPT !.locks = on, !.leds = on, !.btn = {}] ELSE w
             pr == IF make THEN w1.pressed \cup {k} ELSE w1.pressed \ {k}
  <2>1. CASE k \in LockKeys
    <3>1. lk = [w1 EXCEPT !.pressed = pr]
      BY <2>1 DEF Toggled
    <3>2. on \in SUBSET LockKeys
      BY <2>1 DEF LwType
    <3> HIDE DEF on, lk
    <3>3. /\ w1 \in LwType
          /\ w1.oldbutton = w.oldbutton /\ w1.time = w.time /\ w1.olddownkey = w.olddownkey
          /\ w1.btn = w.btn \/ w1.btn = {}
      BY <3>2 DEF LwType
    <3> HIDE DEF w1
    <3>4. pr \in SUBSET LockKeys
      BY <2>1, <3>3 DEF LwType
    <3> HIDE DEF pr
    <3> QED
      BY <3>1, <3>3, <3>4 DEF LwType
  <2>2. CASE k \notin LockKeys
    BY <2>2
  <2> QED
    BY <2>1, <2>2
<1> HIDE DEF lk
<1> DEFINE on == (w.shift \cap ShiftKeys) \ (IF make THEN {} ELSE {k})
           md == IF make THEN {k} \cap ShiftKeys ELSE {}
           kb == KeyButtons(lk)
<1>2. Statused(w, k, make) = [lk EXCEPT !.shift = on \cup md \cup lk.locks, !.btn = kb]
  BY DEF Statused, lk
<1>3. lk.locks \cap ShiftKeys = {} /\ on \subseteq ShiftKeys /\ md \subseteq ShiftKeys
  BY <1>1 DEF LwType, LockKeys, ShiftKeys
<1>4. ButtonsFrom(w, kb)
  BY <1>1 DEF KeyButtons, ButtonsFrom
<1>5. (on \cup md \cup lk.locks) \cap ShiftKeys = on \cup md
  BY <1>3
<1> HIDE DEF on, md, kb
<1>6. /\ Statused(w, k, make).oldbutton = lk.oldbutton
      /\ Statused(w, k, make).time = lk.time
      /\ Statused(w, k, make).olddownkey = lk.olddownkey
      /\ Statused(w, k, make).shift = on \cup md \cup lk.locks
      /\ Statused(w, k, make).btn = kb
  BY <1>1, <1>2 DEF LwType
<1> QED
  BY <1>1, <1>4, <1>5, <1>6 DEF on, md

\* The same for Keyed.
LEMMA KeyedFields ==
  ASSUME NEW w \in LwType, NEW k \in Keys, NEW new \in SUBSET Keys
  PROVE  LET r == Keyed(w, k, new)
         IN  /\ r.oldbutton = w.oldbutton /\ r.time = w.time
             /\ r.oldkeystate = new
             /\ r.olddownkey = IF k \in new THEN k ELSE w.olddownkey
             /\ r.old_lwe = IF k \in new THEN k ELSE NoKey
             /\ r.shift \cap ShiftKeys =
                  IF k \in new THEN (w.shift \cap ShiftKeys) \cup ({k} \cap ShiftKeys)
                  ELSE (w.shift \cap ShiftKeys) \ {k}
             /\ ButtonsFrom(w, r.btn)
<1> DEFINE make == k \in new
           s == Statused(w, k, make)
<1>1. make \in BOOLEAN
  OBVIOUS
<1>2. Keyed(w, k, new) =
        [s EXCEPT !.oldkeystate = new,
                  !.olddownkey = IF k \in new THEN k ELSE @,
                  !.old_lwe = IF k \in new THEN k ELSE NoKey]
  BY DEF Keyed
<1>3. make <=> k \in new
  OBVIOUS
<1> HIDE DEF make
<1>4. /\ s \in LwType
      /\ s.oldbutton = w.oldbutton /\ s.time = w.time
      /\ s.olddownkey = w.olddownkey
      /\ s.shift \cap ShiftKeys =
           ((w.shift \cap ShiftKeys) \ (IF make THEN {} ELSE {k}))
             \cup (IF make THEN {k} \cap ShiftKeys ELSE {})
      /\ ButtonsFrom(w, s.btn)
  <2> HIDE DEF s
  <2>1. s = Statused(w, k, make)
    BY DEF s
  <2>2. s \in LwType
    BY <1>1, <2>1, StatusedType
  <2>3. LET r == Statused(w, k, make)
        IN  /\ r.oldbutton = w.oldbutton /\ r.time = w.time
            /\ r.olddownkey = w.olddownkey
            /\ r.shift \cap ShiftKeys =
                 ((w.shift \cap ShiftKeys) \ (IF make THEN {} ELSE {k}))
                   \cup (IF make THEN {k} \cap ShiftKeys ELSE {})
            /\ ButtonsFrom(w, r.btn)
    BY <1>1, StatusedFields
  <2> QED
    BY <2>1, <2>2, <2>3
<1> HIDE DEF s
<1>5. /\ Keyed(w, k, new).oldbutton = s.oldbutton
      /\ Keyed(w, k, new).time = s.time
      /\ Keyed(w, k, new).oldkeystate = new
      /\ Keyed(w, k, new).olddownkey = IF k \in new THEN k ELSE s.olddownkey
      /\ Keyed(w, k, new).old_lwe = IF k \in new THEN k ELSE NoKey
      /\ Keyed(w, k, new).shift = s.shift
      /\ Keyed(w, k, new).btn = s.btn
  BY <1>2, <1>4 DEF LwType
<1>6. s.shift \cap ShiftKeys =
        IF k \in new THEN (w.shift \cap ShiftKeys) \cup ({k} \cap ShiftKeys)
        ELSE (w.shift \cap ShiftKeys) \ {k}
  BY <1>3, <1>4
<1> QED
  BY <1>4, <1>5, <1>6

\* One byte of the keyboard keeps the three views of the keys in agreement.
LEMMA KeysStep ==
  ASSUME NoConsoleSwitch, TypeOK, KeysInv,
         NEW k \in Keys, NEW press \in BOOLEAN, Key(k, press)
  PROVE  KeysInv'
<1> DEFINE new == IF press THEN kbd.held \cup {k} ELSE kbd.held \ {k}
<1>1. /\ kbd \in KbdType /\ lw \in LwType
      /\ kbd.state = kbd.held /\ lw.oldkeystate = kbd.held
      /\ kbd.rep # NoKey => kbd.rep \in kbd.held /\ lw.olddownkey = kbd.rep
      /\ lw.shift \cap ShiftKeys = kbd.held \cap ShiftKeys
      /\ lw.old_lwe # NoKey => lw.old_lwe \in kbd.held
  BY TypeParts DEF KeysInv, KeysAgree, Modifiers, RepeatsHeldKey
<1>2. k \in Nat /\ k # NoKey
  BY KeysAssumption DEF NoKey
<1>3. ~Switches(k, press)
  BY <1>1 DEF Switches, NoConsoleSwitch, KbdType
<1>4. Updated(k, press) = new /\ new \in SUBSET Keys
  BY <1>1, <1>3 DEF Updated, KbdType
<1>5. IF press THEN k \notin kbd.held \/ k = kbd.rep ELSE k \in kbd.held
  BY DEF Key
<1>6. kbd' = [held |-> new,
              rep |-> IF press THEN k ELSE IF kbd.rep = k THEN NoKey ELSE kbd.rep,
              state |-> new]
  BY <1>4 DEF Key
<1>7. /\ kbd'.held = new /\ kbd'.state = new
      /\ kbd'.rep = IF press THEN k ELSE IF kbd.rep = k THEN NoKey ELSE kbd.rep
  BY <1>6
<1>8. CASE press /\ k \in kbd.held
  <2>1. k = kbd.rep /\ new = kbd.held /\ lw.olddownkey = k
    BY <1>1, <1>2, <1>5, <1>8
  <2>2. Changed(lw.oldkeystate, new) = {}
    BY <1>1, <2>1 DEF Changed
  <2>3. lw' = Unchanged(lw, new)
    BY <1>2, <1>3, <1>4, <2>1, <2>2 DEF Key
  <2>4. /\ lw'.oldkeystate = new /\ lw'.old_lwe = k
        /\ lw'.olddownkey = k /\ lw'.shift = lw.shift
    BY <1>1, <2>1, <2>3 DEF Unchanged, LwType
  <2> QED
    BY <1>1, <1>7, <1>8, <2>1, <2>4
       DEF KeysInv, KeysAgree, Modifiers, RepeatsHeldKey
<1>9. CASE ~(press /\ k \in kbd.held)
  <2>1. Changed(lw.oldkeystate, new) = {k}
    BY <1>1, <1>5, <1>9 DEF Changed
  <2>2. Least({k}) = k
    BY <1>2, LeastIn
  <2>3. lw' = Keyed(lw, k, new)
    BY <1>3, <1>4, <2>1, <2>2 DEF Key
  <2>4. /\ lw'.oldkeystate = new
        /\ lw'.olddownkey = IF k \in new THEN k ELSE lw.olddownkey
        /\ lw'.old_lwe = IF k \in new THEN k ELSE NoKey
        /\ lw'.shift \cap ShiftKeys =
             IF k \in new THEN (lw.shift \cap ShiftKeys) \cup ({k} \cap ShiftKeys)
             ELSE (lw.shift \cap ShiftKeys) \ {k}
    BY <1>1, <1>4, <2>3, KeyedFields
  <2>5. CASE press
    <3>1. k \in new /\ kbd'.rep = k
      BY <1>7, <2>5
    <3> QED
      BY <1>1, <1>7, <2>4, <2>5, <3>1
         DEF KeysInv, KeysAgree, Modifiers, RepeatsHeldKey
  <2>6. CASE ~press
    <3>1. k \notin new /\ kbd'.rep = IF kbd.rep = k THEN NoKey ELSE kbd.rep
      BY <1>7, <2>6
    <3>2. lw'.olddownkey = lw.olddownkey /\ lw'.old_lwe = NoKey
      BY <2>4, <3>1
    <3>3. lw'.shift \cap ShiftKeys = new \cap ShiftKeys
      BY <1>1, <2>4, <2>6, <3>1
    <3> QED
      BY <1>1, <1>7, <2>4, <2>6, <3>1, <3>2, <3>3
         DEF KeysInv, KeysAgree, Modifiers, RepeatsHeldKey
  <2> QED
    BY <2>5, <2>6
<1> QED
  BY <1>8, <1>9

\* Nothing but a key changes what GetLWEvent keeps of the keyboard; the event to
\* repeat is at most forgotten.
LEMMA OtherKeepsKeys ==
  ASSUME TypeOK, [Next]_vars,
         ~ \E k \in Keys, press \in BOOLEAN : Key(k, press)
  PROVE  /\ kbd' = kbd
         /\ lw'.oldkeystate = lw.oldkeystate /\ lw'.olddownkey = lw.olddownkey
         /\ lw'.shift = lw.shift /\ lw'.old_lwe \in {lw.old_lwe, NoKey}
<1>1. lw \in LwType
  BY TypeParts
<1>2. ASSUME NEW new \in SUBSET Buttons, NEW moved \in BOOLEAN,
             NEW at \in alive \cup {NoClient}, NEW how \in Outcomes,
             Mouse(new, moved, at, how)
      PROVE  /\ kbd' = kbd
             /\ \/ \E t : lw' = [lw EXCEPT !.time = t]
                \/ \E t : lw' = [lw EXCEPT !.time = t, !.old_lwe = NoKey]
                \/ \E t : lw' = Buttoned(lw, new, t)
  BY <1>2, Zenon DEF Mouse
<1>3. CASE Tick
  <2>1. kbd' = kbd /\ \E t : lw' = [lw EXCEPT !.time = t]
    BY <1>3, Zenon DEF Tick
  <2> QED
    BY <1>1, <2>1 DEF LwType
<1>4. CASE UNCHANGED <<kbd, lw>>
  BY <1>4
<1>5. ASSUME \/ Timeout
             \/ \E c \in Clients : Connect(c) \/ StartDrag(c) \/ CancelDrag(c)
             \/ \E c \in Clients, stop \in HookFlags : RegisterMouseHook(c, stop)
             \/ \E at \in alive \cup {NoClient} : ZOrderOp(at)
             \/ \E c \in Clients, at \in Clients \cup {NoClient} : Die(c, at)
             \/ UNCHANGED vars
      PROVE  UNCHANGED <<kbd, lw>>
  BY <1>5 DEF Timeout, Connect, StartDrag, CancelDrag, RegisterMouseHook, ZOrderOp, Die, vars
<1>6. ASSUME NEW new \in SUBSET Buttons, NEW moved \in BOOLEAN,
             NEW at \in alive \cup {NoClient}, NEW how \in Outcomes,
             Mouse(new, moved, at, how)
      PROVE  /\ kbd' = kbd
             /\ lw'.oldkeystate = lw.oldkeystate /\ lw'.olddownkey = lw.olddownkey
             /\ lw'.shift = lw.shift /\ lw'.old_lwe \in {lw.old_lwe, NoKey}
  <2>1. CASE \E t : lw' = [lw EXCEPT !.time = t]
    BY <1>1, <1>2, <1>6, <2>1 DEF LwType
  <2>2. CASE \E t : lw' = [lw EXCEPT !.time = t, !.old_lwe = NoKey]
    BY <1>1, <1>2, <1>6, <2>2 DEF LwType
  <2>3. CASE \E t : lw' = Buttoned(lw, new, t)
    BY <1>1, <1>2, <1>6, <2>3 DEF LwType, Buttoned
  <2> QED
    BY <1>2, <1>6, <2>1, <2>2, <2>3
<1> QED
  BY <1>3, <1>4, <1>5, <1>6 DEF Next

\* The inductive invariant of the keyboard.
LEMMA KeysAlways ==
  ASSUME NoConsoleSwitch
  PROVE  Spec => []KeysInv
<1>1. Init => KeysInv
  BY DEF Init, KeysInv, KeysAgree, Modifiers, RepeatsHeldKey
<1>2. TypeOK /\ KeysInv /\ [Next]_vars => KeysInv'
  <2> SUFFICES ASSUME TypeOK, KeysInv, [Next]_vars PROVE KeysInv'
    OBVIOUS
  <2>1. CASE \E k \in Keys, press \in BOOLEAN : Key(k, press)
    BY <2>1, KeysStep
  <2>2. CASE ~ \E k \in Keys, press \in BOOLEAN : Key(k, press)
    <3>1. /\ kbd' = kbd
          /\ lw'.oldkeystate = lw.oldkeystate /\ lw'.olddownkey = lw.olddownkey
          /\ lw'.shift = lw.shift /\ lw'.old_lwe \in {lw.old_lwe, NoKey}
      BY <2>2, OtherKeepsKeys
    <3> QED
      BY <3>1 DEF KeysInv, KeysAgree, Modifiers, RepeatsHeldKey
  <2> QED
    BY <2>1, <2>2
<1> QED
  BY <1>1, <1>2, TypeCorrect, PTL DEF Spec

\* The status GetShiftKeyStatus returns and that of the last event, pure motions
\* excepted, say of every control, shift and alt key whether it is held, on a
\* keyboard without keys that switch consoles.
THEOREM ModifiersCorrect ==
  ASSUME NoConsoleSwitch
  PROVE  Spec => []ModifiersFollowKeys
<1>1. KeysInv /\ GivenIsStatus => ModifiersFollowKeys
  BY DEF KeysInv, GivenIsStatus, ModifiersFollowKeys, Modifiers
<1> QED
  BY <1>1, KeysAlways, GivenAlways, PTL

\* A timeout repeats no key that has been released, on such a keyboard.
THEOREM RepeatsCorrect ==
  ASSUME NoConsoleSwitch
  PROVE  Spec => []RepeatsHeldKey
<1>1. KeysInv => RepeatsHeldKey
  BY DEF KeysInv
<1> QED
  BY <1>1, KeysAlways, PTL

-----------------------------------------------------------------------------
(* The buttons.                                                            *)

ButtonsInv == PressedButtons(lw) /\ ClickCountsOnce

\* A key leaves the buttons and the times of clicks as they were; status may
\* lose the right button when the left one is down.
LEMMA KeyKeepsButtons ==
  ASSUME TypeOK, NEW k \in Keys, NEW press \in BOOLEAN, Key(k, press)
  PROVE  /\ lw'.oldbutton = lw.oldbutton /\ lw'.time = lw.time
         /\ lw'.btn = lw.btn \/ ButtonsFrom(lw, lw'.btn)
         /\ clicks' = clicks
<1> DEFINE new == Updated(k, press)
           ch == Changed(lw.oldkeystate, new)
<1>1. kbd \in KbdType /\ lw \in LwType
  BY TypeParts
<1>2. new \in SUBSET Keys /\ ch \in SUBSET Keys
  BY <1>1 DEF KbdType, LwType, Updated, Changed
<1>3. \/ lw' = lw
      \/ lw' = Unchanged(lw, new)
      \/ ch # {} /\ lw' = Keyed(lw, Least(ch), new)
  BY Zenon DEF Key
<1>4. clicks' = clicks
  BY DEF Key
<1> HIDE DEF new, ch
<1>5. CASE lw' = Unchanged(lw, new)
  BY <1>1, <1>4, <1>5 DEF Unchanged, LwType
<1>6. CASE ch # {} /\ lw' = Keyed(lw, Least(ch), new)
  <2>1. Least(ch) \in Keys
    <3>1. ch \in SUBSET Nat
      BY <1>2, KeysAssumption
    <3> QED
      BY <1>2, <1>6, <3>1, LeastIn
  <2> QED
    BY <1>1, <1>2, <1>4, <1>6, <2>1, KeyedFields
<1> QED
  BY <1>3, <1>4, <1>5, <1>6

\* An update of the mouse keeps status true, and a time that is set belongs to
\* a press reported as such.
LEMMA MouseKeepsButtons ==
  ASSUME TypeOK, ButtonsInv, NEW new \in SUBSET Buttons, NEW moved \in BOOLEAN,
         NEW at \in alive \cup {NoClient}, NEW how \in Outcomes,
         Mouse(new, moved, at, how)
  PROVE  ButtonsInv'
<1> DEFINE b == FirstOf(lw.oldbutton, new)
           t == Still(lw.time, moved)
           down == b \in new
           dbl == down /\ IsDblClick(t[b])
           seen == [x \in Reported |-> IF moved THEN "old" ELSE clicks[x]]
           t1 == IF down THEN [t EXCEPT ![b] = Stamped(@)] ELSE t
<1>1. /\ lw \in LwType /\ clicks \in [Reported -> {"old", "down", "dblclk"}]
      /\ lw.btn \subseteq lw.oldbutton
      /\ "L" \in lw.oldbutton => "L" \in lw.btn
      /\ "R" \in lw.oldbutton \ lw.btn => "L" \in lw.oldbutton
      /\ \A x \in Reported : lw.time[x] # Unset => clicks[x] = "down"
  BY TypeParts DEF ButtonsInv, PressedButtons, ClickCountsOnce
<1>2. t \in [Reported -> Unset .. DblClick + 1]
  BY <1>1, BoundsAssumption DEF LwType, Still, Unset
<1>3. seen \in [Reported -> {"old", "down", "dblclk"}]
  BY <1>1
<1>4. \A x \in Reported : t[x] # Unset => seen[x] = "down"
  BY <1>1 DEF Still
<1>5. b # NoButton => b \in Reported
  BY DEF FirstOf, Reported
<1> HIDE DEF b, t, seen, t1, dbl
<1>6. CASE lw' = [lw EXCEPT !.time = t] /\ clicks' = seen
  BY <1>1, <1>4, <1>6 DEF ButtonsInv, PressedButtons, ClickCountsOnce, LwType
<1>7. CASE lw' = [lw EXCEPT !.time = t, !.old_lwe = NoKey] /\ clicks' = seen
  BY <1>1, <1>4, <1>7 DEF ButtonsInv, PressedButtons, ClickCountsOnce, LwType
<1>8. CASE /\ b # NoButton
           /\ lw' = Buttoned(lw, new, t1)
           /\ clicks' = IF down THEN [seen EXCEPT ![b] = IF dbl THEN "dblclk" ELSE "down"]
                        ELSE seen
  <2>1. lw'.oldbutton = new /\ lw'.btn = new \cap Reported /\ lw'.time = t1
    BY <1>1, <1>8 DEF Buttoned, LwType
  <2>2. PressedButtons(lw)'
    BY <2>1 DEF PressedButtons, Reported
  <2>3. ASSUME NEW x \in Reported, t1[x] # Unset PROVE clicks'[x] = "down"
    <3>1. CASE down /\ x = b
      <4>1. t1[x] = Stamped(t[x])
        BY <1>2, <1>5, <1>8, <3>1 DEF t1
      <4>2. t[x] = Unset
        BY <2>3, <4>1 DEF Stamped
      <4>3. ~dbl
        BY <3>1, <4>2 DEF dbl, IsDblClick
      <4> QED
        BY <1>3, <1>8, <3>1, <4>3
    <3>2. CASE ~(down /\ x = b)
      <4>1. t1[x] = t[x]
        BY <1>2, <1>5, <1>8, <3>2 DEF t1
      <4>2. clicks'[x] = seen[x]
        BY <1>3, <1>5, <1>8, <3>2
      <4> QED
        BY <1>4, <2>3, <4>1, <4>2
    <3> QED
      BY <3>1, <3>2
  <2> QED
    BY <2>1, <2>2, <2>3 DEF ButtonsInv, ClickCountsOnce
<1> QED
  BY <1>6, <1>7, <1>8 DEF Mouse, b, t, seen, t1, dbl

\* The inductive invariant of the buttons.
LEMMA ButtonsAlways == Spec => []ButtonsInv
<1>1. Init => ButtonsInv
  BY DEF Init, ButtonsInv, PressedButtons, ClickCountsOnce
<1>2. TypeOK /\ ButtonsInv /\ [Next]_vars => ButtonsInv'
  <2> SUFFICES ASSUME TypeOK, ButtonsInv, [Next]_vars PROVE ButtonsInv'
    OBVIOUS
  <2>1. lw \in LwType /\ clicks \in [Reported -> {"old", "down", "dblclk"}]
    BY TypeParts
  <2>2. ASSUME NEW k \in Keys, NEW press \in BOOLEAN, Key(k, press)
        PROVE  ButtonsInv'
    <3>1. /\ lw'.oldbutton = lw.oldbutton /\ lw'.time = lw.time
          /\ lw'.btn = lw.btn \/ ButtonsFrom(lw, lw'.btn)
          /\ clicks' = clicks
      BY <2>2, KeyKeepsButtons
    <3> QED
      BY <3>1 DEF ButtonsInv, PressedButtons, ClickCountsOnce, ButtonsFrom
  <2>3. ASSUME NEW new \in SUBSET Buttons, NEW moved \in BOOLEAN,
               NEW at \in alive \cup {NoClient}, NEW how \in Outcomes,
               Mouse(new, moved, at, how)
        PROVE  ButtonsInv'
    BY <2>3, MouseKeepsButtons
  <2>4. CASE Tick
    <3> DEFINE tm == [b \in Reported |-> IF lw.time[b] \in 0 .. DblClick
                                         THEN lw.time[b] + 1 ELSE lw.time[b]]
    <3>1. lw' = [lw EXCEPT !.time = tm] /\ clicks' = clicks
      BY <2>4 DEF Tick
    <3>2. \A b \in Reported : tm[b] # Unset => lw.time[b] # Unset
      BY <2>1, BoundsAssumption DEF LwType, Unset
    <3> HIDE DEF tm
    <3>3. lw'.oldbutton = lw.oldbutton /\ lw'.btn = lw.btn /\ lw'.time = tm
      BY <2>1, <3>1 DEF LwType
    <3> QED
      BY <3>1, <3>2, <3>3 DEF ButtonsInv, PressedButtons, ClickCountsOnce
  <2>5. CASE UNCHANGED <<lw, clicks>>
    BY <2>5 DEF ButtonsInv, PressedButtons, ClickCountsOnce
  <2>6. ASSUME \/ Timeout
               \/ \E c \in Clients : Connect(c) \/ StartDrag(c) \/ CancelDrag(c)
               \/ \E c \in Clients, stop \in HookFlags : RegisterMouseHook(c, stop)
               \/ \E at \in alive \cup {NoClient} : ZOrderOp(at)
               \/ \E c \in Clients, at \in Clients \cup {NoClient} : Die(c, at)
               \/ UNCHANGED vars
        PROVE  UNCHANGED <<lw, clicks>>
    BY <2>6 DEF Timeout, Connect, StartDrag, CancelDrag, RegisterMouseHook, ZOrderOp, Die, vars
  <2> QED
    BY <2>2, <2>3, <2>4, <2>5, <2>6 DEF Next
<1> QED
  BY <1>1, <1>2, TypeCorrect, PTL DEF Spec

\* The buttons in the status GetShiftKeyStatus returns and in that of the last
\* event, pure motions excepted, are those that are down, but for the right one
\* next to the left, whatever several buttons, hooks and clients do.
THEOREM ButtonsCorrect == Spec => []ButtonsTrue
<1>1. ButtonsInv /\ GivenIsStatus => ButtonsTrue
  BY DEF ButtonsInv, GivenIsStatus, ButtonsTrue, PressedButtons
<1> QED
  BY <1>1, ButtonsAlways, GivenAlways, PTL

\* No press of a button counts for two double clicks.
THEOREM ClicksCorrect == Spec => []ClickCountsOnce
<1>1. ButtonsInv => ClickCountsOnce
  BY DEF ButtonsInv
<1> QED
  BY <1>1, ButtonsAlways, PTL

-----------------------------------------------------------------------------
(* The capture.                                                            *)

\* One button changes in an update, and no mouse hook stops messages.
PlainMouse == ~Chords /\ TRUE \notin HookFlags

\* Every message to a client arrives, and an entry of the client table serves
\* one connection.
PlainClients == Outcomes \subseteq {"sent"} /\ MaxConnects = 1

EndsInv == CaptureEnds /\ ~route.stop

\* A client that has never been connected is not the receiver, and one that is
\* owed a release is connected.
ToldInv ==
  /\ CaptureTold
  /\ owed \in alive \cup {NoClient}
  /\ \A c \in Clients : uses[c] = 0 => c \notin alive /\ route.down_client # c

\* With one button per update, the new set of buttons is the old one with the
\* button reported added or removed.
LEMMA OneButton ==
  ASSUME PlainMouse, TypeOK, NEW new \in SUBSET Buttons,
         Chords \/ Cardinality(Changed(lw.oldbutton, new)) <= 1,
         FirstOf(lw.oldbutton, new) # NoButton
  PROVE  LET b == FirstOf(lw.oldbutton, new)
         IN  /\ b \in Reported /\ (b \in new <=> b \notin lw.oldbutton)
             /\ \A x \in Reported \ {b} : x \in new <=> x \in lw.oldbutton
<1> DEFINE b == FirstOf(lw.oldbutton, new)
           ch == Changed(lw.oldbutton, new)
<1>1. lw.oldbutton \in SUBSET Buttons
  BY TypeParts DEF LwType
<1>2. ch \subseteq {"L", "R", "M"}
  BY <1>1, ButtonsAssumption DEF Changed
<1>3. IsFiniteSet(ch)
  <2>1. IsFiniteSet({"L"}) /\ IsFiniteSet({"R"}) /\ IsFiniteSet({"M"})
    BY FS_Singleton
  <2>2. IsFiniteSet({"L"} \cup {"R"})
    BY <2>1, FS_Union
  <2>3. IsFiniteSet({"L"} \cup {"R"} \cup {"M"})
    BY <2>1, <2>2, FS_Union
  <2>4. ch \subseteq {"L"} \cup {"R"} \cup {"M"}
    BY <1>2
  <2> QED
    BY <2>3, <2>4, FS_Subset
<1>4. b \in Reported /\ b \in ch /\ (b \in new <=> b \notin lw.oldbutton)
  BY DEF FirstOf, Reported, Changed
<1>5. ASSUME NEW x \in ch, x # b PROVE FALSE
  <2>1. {x, b} \subseteq ch
    BY <1>4, <1>5
  <2>2. Cardinality({x, b}) = 2
    <3>1. {x, b} = {x} \cup {b}
      OBVIOUS
    <3>2. IsFiniteSet({x}) /\ Cardinality({x}) = 1 /\ b \notin {x}
      BY <1>5, FS_Singleton
    <3> QED
      BY <3>1, <3>2, FS_AddElement
  <2>3. Cardinality({x, b}) <= Cardinality(ch) /\ Cardinality(ch) \in Nat
    BY <1>3, <2>1, FS_Subset, FS_CardinalityType
  <2>4. Cardinality(ch) <= 1
    BY DEF PlainMouse
  <2> QED
    BY <2>2, <2>3, <2>4
<1>6. \A x \in Reported \ {b} : x \in new <=> x \in lw.oldbutton
  BY <1>5 DEF Changed
<1> QED
  BY <1>4, <1>6

\* What an update of the mouse does to the receiver and to who is owed.
LEMMA MouseRoutes ==
  ASSUME PlainMouse, TypeOK, EndsInv, NEW new \in SUBSET Buttons, NEW moved \in BOOLEAN,
         NEW at \in alive \cup {NoClient}, NEW how \in Outcomes,
         Mouse(new, moved, at, how)
  PROVE  /\ EndsInv'
         /\ PlainClients /\ ToldInv => ToldInv'
<1> DEFINE b == FirstOf(lw.oldbutton, new)
           t == Still(lw.time, moved)
           down == b \in new
           dbl == down /\ IsDblClick(t[b])
           t1 == IF down THEN [t EXCEPT ![b] = Stamped(@)] ELSE t
<1>1. /\ lw \in LwType /\ route \in RouteType
      /\ alive \subseteq Clients /\ owed \in Clients \cup {NoClient}
      /\ route.down_client # NoClient => route.down_by \in lw.oldbutton
      /\ route.stop = FALSE
  BY TypeParts DEF EndsInv, CaptureEnds, RouteType
<1>2. UNCHANGED <<alive, uses>>
  BY DEF Mouse
<1>3. CASE /\ \/ \E tm : lw' = [lw EXCEPT !.time = tm]
              \/ \E tm : lw' = [lw EXCEPT !.time = tm, !.old_lwe = NoKey]
           /\ MoveEvent \/ UNCHANGED <<route, owed>>
  <2>1. lw'.oldbutton = lw.oldbutton
    BY <1>1, <1>3 DEF LwType
  <2>2. \/ UNCHANGED <<route, owed>>
        \/ /\ route'.down_client = NoClient /\ owed' = NoClient
           /\ route'.stop = route.stop
    BY <1>1, <1>3 DEF MoveEvent, RouteType
  <2>3. EndsInv'
    BY <1>1, <2>1, <2>2 DEF EndsInv, CaptureEnds
  <2>4. ToldInv => ToldInv'
    BY <1>2, <2>2, ClientsAssumption DEF ToldInv, CaptureTold, NoClient
  <2> QED
    BY <2>3, <2>4
<1>4. CASE /\ b # NoButton
           /\ Chords \/ Cardinality(Changed(lw.oldbutton, new)) <= 1
           /\ lw' = Buttoned(lw, new, t1)
           /\ ButtonEvent(b, new, at, how, dbl)
  <2>1. /\ b \in Reported /\ (down <=> b \notin lw.oldbutton)
        /\ \A x \in Reported \ {b} : x \in new <=> x \in lw.oldbutton
    BY <1>4, OneButton
  <2>2. lw'.oldbutton = new
    BY <1>1, <1>4 DEF Buttoned, LwType
  <2> HIDE DEF t1, dbl, b
  <2>3. CASE route.drag # NoClient
    <3>1. route' = [Dropped(route) EXCEPT !.down_client = NoClient] /\ owed' = NoClient
      BY <1>4, <2>3 DEF ButtonEvent
    <3>2. route'.down_client = NoClient /\ route'.stop = FALSE
      BY <1>1, <3>1 DEF Dropped, RouteType
    <3> QED
      BY <1>2, <3>1, <3>2, ClientsAssumption
         DEF EndsInv, CaptureEnds, ToldInv, CaptureTold, NoClient
  <2>4. CASE /\ route.drag = NoClient
             /\ down /\ ~dbl /\ route.down_client = NoClient /\ at # NoClient
    <3>1. route' = [route EXCEPT !.down_client = at, !.down_by = b]
      BY <1>4, <2>4 DEF ButtonEvent, Captured
    <3>2. route'.down_client = at /\ route'.down_by = b /\ route'.stop = FALSE
      BY <1>1, <3>1 DEF RouteType
    <3>3. EndsInv'
      BY <2>2, <2>4, <3>2 DEF EndsInv, CaptureEnds
    <3>4. ASSUME PlainClients, ToldInv PROVE ToldInv'
      <4>1. at \in alive /\ at \in Clients /\ how = "sent"
        BY <1>1, <2>4, <3>4 DEF PlainClients
      <4>2. Captured(route, b, at).down_client = at
        BY <1>1, <2>4 DEF Captured, RouteType
      <4>3. owed' = at
        BY <1>1, <1>4, <2>4, <4>1, <4>2 DEF ButtonEvent, Target
      <4> QED
        BY <1>2, <3>2, <3>4, <4>1, <4>3, ClientsAssumption DEF ToldInv, CaptureTold, NoClient
    <3> QED
      BY <3>3, <3>4
  <2>5. CASE /\ route.drag = NoClient
             /\ down /\ ~(~dbl /\ route.down_client = NoClient /\ at # NoClient)
    <3>1. route' = route /\ owed' = owed
      <4>1. (IF down /\ ~dbl THEN Captured(route, b, at) ELSE route) = route
        BY <2>5 DEF Captured
      <4> QED
        BY <1>4, <2>5, <4>1 DEF ButtonEvent
    <3>2. route.down_client # NoClient => route.down_by \in new
      BY <1>1, <2>1, <2>5 DEF RouteType
    <3> QED
      BY <1>1, <1>2, <2>2, <3>1, <3>2 DEF EndsInv, CaptureEnds, ToldInv, CaptureTold
  <2>6. CASE route.drag = NoClient /\ ~down /\ route.down_by # b
    <3>1. route' = route /\ owed' = owed
      BY <1>1, <1>4, <2>6 DEF ButtonEvent, Released
    <3>2. route.down_client # NoClient => route.down_by \in new
      BY <1>1, <2>1, <2>6 DEF RouteType
    <3> QED
      BY <1>1, <1>2, <2>2, <3>1, <3>2 DEF EndsInv, CaptureEnds, ToldInv, CaptureTold
  <2>7. CASE route.drag = NoClient /\ ~down /\ route.down_by = b
    <3>1. /\ route' = [route EXCEPT !.down_client = NoClient]
          /\ owed' = IF how = "sent" /\ Target(route, at) \in alive /\ Target(route, at) = owed
                     THEN NoClient ELSE owed
      BY <1>1, <1>4, <2>7 DEF ButtonEvent, Released
    <3>2. route'.down_client = NoClient /\ route'.stop = FALSE
      BY <1>1, <3>1 DEF RouteType
    <3>3. ASSUME PlainClients, ToldInv PROVE owed' = NoClient
      <4>1. CASE owed = NoClient
        BY <3>1, <4>1
      <4>2. CASE owed # NoClient
        <5>1. owed = route.down_client /\ owed \in alive /\ how = "sent"
          BY <3>3, <4>2 DEF ToldInv, CaptureTold, PlainClients
        <5>2. Target(route, at) = owed
          BY <4>2, <5>1 DEF Target
        <5> QED
          BY <3>1, <5>1, <5>2
      <4> QED
        BY <4>1, <4>2
    <3> QED
      BY <1>1, <1>2, <3>2, <3>3, ClientsAssumption
         DEF EndsInv, CaptureEnds, ToldInv, CaptureTold, NoClient
  <2> QED
    BY <2>3, <2>4, <2>5, <2>6, <2>7
<1> QED
  <2>1. \/ lw' = [lw EXCEPT !.time = t] /\ MoveEvent
        \/ lw' = [lw EXCEPT !.time = t, !.old_lwe = NoKey] /\ UNCHANGED <<route, owed>>
        \/ /\ b # NoButton
           /\ Chords \/ Cardinality(Changed(lw.oldbutton, new)) <= 1
           /\ lw' = Buttoned(lw, new, t1)
           /\ ButtonEvent(b, new, at, how, dbl)
    BY Zenon DEF Mouse
  <2> HIDE DEF t, b, t1, dbl
  <2> QED
    BY <1>3, <1>4, <2>1

\* The step of both capture invariants.
LEMMA CaptureStep ==
  ASSUME PlainMouse, TypeOK, EndsInv, [Next]_vars
  PROVE  /\ EndsInv'
         /\ PlainClients /\ ToldInv => ToldInv'
<1>1. /\ lw \in LwType /\ route \in RouteType
      /\ under \in alive \cup {NoClient} /\ alive \subseteq Clients
      /\ uses \in [Clients -> 0 .. MaxConnects]
      /\ owed \in Clients \cup {NoClient}
  BY TypeParts
<1>2. /\ Dropped(route).down_client = route.down_client
      /\ Dropped(route).down_by = route.down_by /\ Dropped(route).stop = route.stop
  BY <1>1 DEF Dropped, RouteType
<1>3. ASSUME /\ route'.down_client = route.down_client
             /\ route'.down_by = route.down_by /\ route'.stop = route.stop
             /\ lw'.oldbutton = lw.oldbutton
      PROVE  EndsInv'
  BY <1>3 DEF EndsInv, CaptureEnds
<1>4. ASSUME /\ route'.down_client = route.down_client
             /\ UNCHANGED <<owed, alive, uses>>
      PROVE  ToldInv => ToldInv'
  BY <1>4 DEF ToldInv, CaptureTold
<1>5. ASSUME NEW k \in Keys, NEW press \in BOOLEAN, Key(k, press)
      PROVE  EndsInv' /\ (ToldInv => ToldInv')
  <2>1. lw'.oldbutton = lw.oldbutton
    BY <1>5, KeyKeepsButtons
  <2>2. route' = route \/ route' = Dropped(route)
    BY <1>5 DEF Key
  <2>3. UNCHANGED <<owed, alive, uses>>
    BY <1>5 DEF Key, world
  <2> QED
    BY <1>2, <1>3, <1>4, <2>1, <2>2, <2>3
<1>6. ASSUME NEW new \in SUBSET Buttons, NEW moved \in BOOLEAN,
             NEW at \in alive \cup {NoClient}, NEW how \in Outcomes,
             Mouse(new, moved, at, how)
      PROVE  EndsInv' /\ (PlainClients /\ ToldInv => ToldInv')
  BY <1>6, MouseRoutes
<1>7. CASE Timeout
  BY <1>2, <1>3, <1>4, <1>7 DEF Timeout, world
<1>8. CASE Tick
  <2>1. lw'.oldbutton = lw.oldbutton
    BY <1>1, <1>8 DEF Tick, LwType
  <2> QED
    BY <1>3, <1>4, <1>8, <2>1 DEF Tick, world
<1>9. ASSUME NEW c \in Clients, Connect(c)
      PROVE  EndsInv' /\ (PlainClients /\ ToldInv => ToldInv')
  <2>1. EndsInv'
    BY <1>3, <1>9 DEF Connect
  <2>2. ASSUME PlainClients, ToldInv PROVE ToldInv'
    <3>1. uses[c] = 0
      BY <1>1, <1>9, <2>2 DEF Connect, PlainClients
    <3>2. route.down_client # c /\ c # NoClient
      BY <2>2, <3>1, ClientsAssumption DEF ToldInv, NoClient
    <3>3. /\ alive' = alive \cup {c} /\ UNCHANGED <<route, owed>>
          /\ uses'[c] # 0 /\ \A d \in Clients \ {c} : uses'[d] = uses[d]
      BY <1>1, <1>9, <3>1 DEF Connect
    <3> QED
      BY <2>2, <3>2, <3>3 DEF ToldInv, CaptureTold
  <2> QED
    BY <2>1, <2>2
<1>10. ASSUME NEW c \in Clients, StartDrag(c) \/ CancelDrag(c)
       PROVE  EndsInv' /\ (ToldInv => ToldInv')
  <2>1. /\ route'.down_client = route.down_client
        /\ route'.down_by = route.down_by /\ route'.stop = route.stop
    BY <1>1, <1>2, <1>10 DEF StartDrag, CancelDrag, RouteType
  <2> QED
    BY <1>3, <1>4, <1>10, <2>1 DEF StartDrag, CancelDrag, world
<1>11. ASSUME NEW c \in Clients, NEW stop \in HookFlags, RegisterMouseHook(c, stop)
       PROVE  EndsInv' /\ (ToldInv => ToldInv')
  <2>1. stop = FALSE
    BY BoundsAssumption DEF PlainMouse
  <2>2. /\ route'.down_client = route.down_client
        /\ route'.down_by = route.down_by /\ route'.stop = FALSE
    BY <1>1, <1>11, <2>1 DEF RegisterMouseHook, RouteType, EndsInv
  <2>3. UNCHANGED <<lw, owed, alive, uses>>
    BY <1>11 DEF RegisterMouseHook, world
  <2>4. EndsInv'
    BY <2>2, <2>3 DEF EndsInv, CaptureEnds
  <2> QED
    BY <1>4, <2>2, <2>3, <2>4
<1>12. ASSUME NEW at \in alive \cup {NoClient}, ZOrderOp(at)
       PROVE  EndsInv' /\ (ToldInv => ToldInv')
  BY <1>2, <1>3, <1>4, <1>12 DEF ZOrderOp
<1>13. ASSUME NEW c \in Clients, NEW at \in Clients \cup {NoClient}, Die(c, at)
       PROVE  EndsInv' /\ (ToldInv => ToldInv')
  <2>1. /\ alive' = alive \ {c} /\ route' = Dropped(route)
        /\ owed' = IF owed = c THEN NoClient ELSE owed
        /\ UNCHANGED <<lw, uses>>
    BY <1>13 DEF Die
  <2>2. EndsInv'
    BY <1>2, <1>3, <2>1
  <2> QED
    BY <1>2, <2>1, <2>2 DEF ToldInv, CaptureTold
<1>14. CASE UNCHANGED vars
  BY <1>3, <1>4, <1>14 DEF vars, world
<1> QED
  BY <1>5, <1>6, <1>7, <1>8, <1>9, <1>10, <1>11, <1>12, <1>13, <1>14 DEF Next

\* A client receives the mouse messages of others no longer than the button is
\* down that made it the receiver: for a mouse that changes one button at a time,
\* without a hook that stops the release.
THEOREM CaptureEndsCorrect ==
  ASSUME PlainMouse
  PROVE  Spec => []CaptureEnds
<1>1. Init => EndsInv
  BY DEF Init, EndsInv, CaptureEnds
<1>2. TypeOK /\ EndsInv /\ [Next]_vars => EndsInv'
  BY CaptureStep
<1>3. EndsInv => CaptureEnds
  BY DEF EndsInv
<1> QED
  BY <1>1, <1>2, <1>3, TypeCorrect, PTL DEF Spec

\* The receiver has been told of the press and is told of the release, when also
\* every message arrives and no entry of the client table is used again.
THEOREM CaptureToldCorrect ==
  ASSUME PlainMouse, PlainClients
  PROVE  Spec => []CaptureTold
<1>1. Init => EndsInv /\ ToldInv
  BY ClientsAssumption DEF Init, EndsInv, CaptureEnds, ToldInv, CaptureTold, NoClient
<1>2. TypeOK /\ EndsInv /\ ToldInv /\ [Next]_vars => EndsInv' /\ ToldInv'
  BY CaptureStep
<1>3. ToldInv => CaptureTold
  BY DEF ToldInv
<1> QED
  BY <1>1, <1>2, <1>3, TypeCorrect, PTL DEF Spec
=============================================================================
