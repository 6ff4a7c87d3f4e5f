----------------------------- MODULE TimerProofs -----------------------------
(* Two threads update the masks and counts of the timers without a lock in *)
(* common; the table, the masks and the search stay sound for any number   *)
(* of threads, timers and periods, as long as no callback gives its timer  *)
(* up by returning FALSE.                                                  *)
EXTENDS Timer, LeastNumber, TLAPS

Keeps == Returns \subseteq {TRUE}

Busy(s) == dsk.slot = s /\ dsk.at \in {"stamp", "load", "store"}

\* The counts, with the slot the desktop thread is at.
CountInv ==
  /\ \A s \in Slots : Set(s) =>
       IF Busy(s) THEN timerstr[s].count = timerstr[s].speed
                  ELSE timerstr[s].count < timerstr[s].speed
  /\ dsk.at \in {"stamp", "load", "store"} => Set(dsk.slot)

\* The masks, with the values of them that are about to be stored.
MaskInv ==
  /\ BitsAreTimers
  /\ dsk.at = "store" =>
       /\ TimerMask[timerstr[dsk.slot].hWnd] \subseteq dsk.val
       /\ \A s \in dsk.val : Set(s) /\ timerstr[s].hWnd = timerstr[dsk.slot].hWnd
  /\ \A g \in Guis : svc[g].at = "store" => svc[g].val \subseteq TimerMask[g]

\* How often a slot has been passed over, with how far the search is from it.
PassInv ==
  /\ \A g \in Guis : \A s \in TimerMask[g] : passed[s] + Later(g, s) < NrTimers
  /\ \A s \in Slots : (\A g \in Guis : s \notin TimerMask[g]) => passed[s] = 0

TimerInv == TypeOK /\ CountInv /\ OneTimerPerId /\ MaskInv /\ PassInv

-----------------------------------------------------------------------------
(* The arithmetic of the search.                                           *)

LEMMA ModNr ==
  ASSUME NEW x \in 0 .. 2 * NrTimers - 1
  PROVE  x % NrTimers = IF x < NrTimers THEN x ELSE x - NrTimers
  BY TimerConstants, SMTT(30)


\* How far the search of g, which starts at f, is from the slot s.
LEMMA LaterIs ==
  ASSUME NEW f \in Slots, NEW s \in Slots
  PROVE  (s - f + NrTimers) % NrTimers = IF f <= s THEN s - f ELSE s - f + NrTimers
<1>1. /\ NrTimers \in Nat \ {0} /\ s - f + NrTimers \in 0 .. 2 * NrTimers - 1
      /\ s \in Int /\ f \in Int
  BY TimerConstants DEF Slots
<1>2. (s - f + NrTimers) % NrTimers =
        IF s - f + NrTimers < NrTimers THEN s - f + NrTimers ELSE s - f + NrTimers - NrTimers
  BY <1>1, ModNr
<1> QED
  BY <1>1, <1>2

LEMMA NextStart ==
  ASSUME NEW f \in Slots
  PROVE  /\ (f + 1) % NrTimers = IF f + 1 = NrTimers THEN 0 ELSE f + 1
         /\ (f + 1) % NrTimers \in Slots
<1> DEFINE x == f + 1
<1>1. NrTimers \in Nat \ {0} /\ x \in 0 .. 2 * NrTimers - 1 /\ x \in 1 .. NrTimers
  BY TimerConstants DEF Slots
<1>2. x % NrTimers = IF x < NrTimers THEN x ELSE x - NrTimers
  <2> HIDE DEF x
  <2> QED
    BY <1>1, ModNr
<1> QED
  BY <1>1, <1>2 DEF Slots

LEMMA LaterProps ==
  ASSUME TypeOK, NEW g \in Guis
  PROVE  /\ \A s \in Slots : Later(g, s) \in Slots
         /\ \A s, r \in Slots : Later(g, s) = Later(g, r) => s = r
         /\ \A s \in Slots : Later(g, s) # 0 =>
              (s - ((FirstTimerSlot[g] + 1) % NrTimers) + NrTimers) % NrTimers = Later(g, s) - 1
<1> DEFINE f == FirstTimerSlot[g]
<1>1. f \in Slots /\ NrTimers \in Nat \ {0}
  BY TimerConstants DEF TypeOK
<1>2. \A s \in Slots : Later(g, s) = IF f <= s THEN s - f ELSE s - f + NrTimers
  BY <1>1, LaterIs DEF Later
<1> DEFINE n == (f + 1) % NrTimers
<1>3. n \in Slots /\ n = IF f + 1 = NrTimers THEN 0 ELSE f + 1
  BY <1>1, NextStart
<1>4. \A s \in Slots : (s - n + NrTimers) % NrTimers = IF n <= s THEN s - n ELSE s - n + NrTimers
  BY <1>3, LaterIs
<1>5. \A s \in Slots : Later(g, s) \in Slots
  BY <1>1, <1>2 DEF Slots
<1>6. \A s, r \in Slots : Later(g, s) = Later(g, r) => s = r
  BY <1>1, <1>2 DEF Slots
<1> HIDE DEF n
<1>7. ASSUME NEW s \in Slots, Later(g, s) # 0
      PROVE  (s - n + NrTimers) % NrTimers = Later(g, s) - 1
  <2>1. (s - n + NrTimers) % NrTimers = IF n <= s THEN s - n ELSE s - n + NrTimers
    BY <1>4
  <2>2. Later(g, s) = IF f <= s THEN s - f ELSE s - f + NrTimers
    BY <1>2
  <2>3. (IF n <= s THEN s - n ELSE s - n + NrTimers)
          = (IF f <= s THEN s - f ELSE s - f + NrTimers) - 1
    BY <1>1, <1>3, <1>7, <2>2 DEF Slots
  <2> QED
    BY <2>1, <2>2, <2>3
<1> QED
  BY <1>5, <1>6, <1>7 DEF n

\* The search finds the expired slot it comes to first.
LEMMA ExpiredIn ==
  ASSUME TypeOK, NEW g \in Guis, TimerMask[g] # {}
  PROVE  /\ Expired(g) \in TimerMask[g]
         /\ \A r \in TimerMask[g] : Later(g, Expired(g)) <= Later(g, r)
<1> DEFINE S == {Later(g, s) : s \in TimerMask[g]}
<1>1. TimerMask[g] \subseteq Slots
  BY DEF TypeOK
<1>2. S \in SUBSET Nat /\ S # {}
  <2>1. \A s \in Slots : Later(g, s) \in Nat
    BY LaterProps, TimerConstants DEF Slots
  <2> QED
    BY <1>1, <2>1
<1>3. PICK x \in S : \A y \in S : x <= y
  BY <1>2, LeastExists
<1>4. PICK s \in TimerMask[g] : x = Later(g, s)
  BY <1>3
<1>5. \A r \in TimerMask[g] : Later(g, s) <= Later(g, r)
  BY <1>3, <1>4
<1> QED
  BY <1>5 DEF Expired

LEMMA Facts ==
  ASSUME TypeOK
  PROVE  /\ \A t \in Timer : t # None
         /\ \A s \in Slots : Set(s) => timerstr[s] \in Timer
         /\ dsk.slot \in Slots /\ \A g \in Guis : svc[g].slot \in Slots
         /\ 0 \in Slots
<1>1. \A t \in Timer : t # None
  BY TimerConstants DEF Timer, None
<1> QED
  BY <1>1, TimerConstants DEF TypeOK, Set, Slots

-----------------------------------------------------------------------------
(* Type correctness and counts.                                            *)

LEMMA NextSlotType ==
  ASSUME TypeOK
  PROVE  /\ NextSlot \in [at : {"idle", "slot"}, slot : Slots, val : SUBSET Slots]
  BY Facts, TimerConstants DEF NextSlot, Slots

LEMMA InitInv == Init => TimerInv
<1> SUFFICES ASSUME Init PROVE TimerInv
  OBVIOUS
<1> USE TimerConstants DEF Init
<1>1. TypeOK
  BY DEF TypeOK, Idle, Slots
<1>2. CountInv /\ OneTimerPerId
  BY DEF CountInv, OneTimerPerId, Set, Slots
<1>3. MaskInv
  BY DEF MaskInv, BitsAreTimers, Idle
<1>4. PassInv
  BY DEF PassInv
<1> QED
  BY <1>1, <1>2, <1>3, <1>4 DEF TimerInv


\* A step that changes one timer and lets every slot hold what it held.
Kept(x) ==
  /\ timerstr' \in [Slots -> Timer \cup {None}]
  /\ timerstr[x] \in Timer /\ timerstr'[x] \in Timer
  /\ timerstr'[x].hWnd = timerstr[x].hWnd /\ timerstr'[x].id = timerstr[x].id
  /\ \A s \in Slots \ {x} : timerstr'[s] = timerstr[s]

LEMMA KeptFacts ==
  ASSUME TypeOK, NEW x \in Slots, Kept(x)
  PROVE  /\ \A s \in Slots : /\ Set(s)' <=> Set(s)
                             /\ Set(s) => /\ timerstr'[s].hWnd = timerstr[s].hWnd
                                          /\ timerstr'[s].id = timerstr[s].id
         /\ OneTimerPerId => OneTimerPerId'
<1>1. \A s \in Slots : /\ Set(s)' <=> Set(s)
                       /\ Set(s) => /\ timerstr'[s].hWnd = timerstr[s].hWnd
                                    /\ timerstr'[s].id = timerstr[s].id
  BY Facts DEF Kept, Set
<1>2. OneTimerPerId => OneTimerPerId'
  BY <1>1 DEF OneTimerPerId
<1> QED
  BY <1>1, <1>2

LEMMA CountChanged ==
  ASSUME TypeOK, NEW x \in Slots, Set(x), NEW c \in Nat,
         timerstr' = [timerstr EXCEPT ![x].count = c]
  PROVE  Kept(x) /\ timerstr'[x].count = c /\ timerstr'[x].speed = timerstr[x].speed
<1>1. timerstr \in [Slots -> Timer \cup {None}] /\ timerstr[x] \in Timer
  BY Facts DEF TypeOK
<1>2. timerstr'[x] = [timerstr[x] EXCEPT !.count = c]
  BY <1>1
<1>3. /\ timerstr'[x] \in Timer /\ timerstr'[x].count = c
      /\ timerstr'[x].speed = timerstr[x].speed
      /\ timerstr'[x].hWnd = timerstr[x].hWnd /\ timerstr'[x].id = timerstr[x].id
  BY <1>1, <1>2 DEF Timer
<1>4. \A s \in Slots \ {x} : timerstr'[s] = timerstr[s]
  BY <1>1
<1>5. timerstr' \in [Slots -> Timer \cup {None}]
  BY <1>1, <1>3, <1>4
<1> QED
  BY <1>1, <1>3, <1>4, <1>5 DEF Kept

LEMMA TickChanged ==
  ASSUME TypeOK, NEW x \in Slots, Set(x), NEW b \in BOOLEAN,
         timerstr' = [timerstr EXCEPT ![x].tick = b]
  PROVE  Kept(x) /\ timerstr'[x].count = timerstr[x].count
                 /\ timerstr'[x].speed = timerstr[x].speed
<1>1. timerstr \in [Slots -> Timer \cup {None}] /\ timerstr[x] \in Timer
  BY Facts DEF TypeOK
<1>2. timerstr'[x] = [timerstr[x] EXCEPT !.tick = b]
  BY <1>1
<1>3. /\ timerstr'[x] \in Timer /\ timerstr'[x].count = timerstr[x].count
      /\ timerstr'[x].speed = timerstr[x].speed
      /\ timerstr'[x].hWnd = timerstr[x].hWnd /\ timerstr'[x].id = timerstr[x].id
  BY <1>1, <1>2 DEF Timer
<1>4. \A s \in Slots \ {x} : timerstr'[s] = timerstr[s]
  BY <1>1
<1>5. timerstr' \in [Slots -> Timer \cup {None}]
  BY <1>1, <1>3, <1>4
<1> QED
  BY <1>1, <1>3, <1>4, <1>5 DEF Kept

\* A step that leaves the masks and the searches alone.
LEMMA PassKept ==
  ASSUME PassInv, UNCHANGED <<TimerMask, FirstTimerSlot, passed>>
  PROVE  PassInv'
  BY DEF PassInv, Later

\* A step that takes bits out of masks and recounts.
LEMMA PassShrunk ==
  ASSUME TypeOK, PassInv, UNCHANGED FirstTimerSlot, Recount,
         \A g \in Guis : TimerMask'[g] \subseteq TimerMask[g]
  PROVE  PassInv' /\ passed' \in [Slots -> Nat]
<1>1. passed' = [s \in Slots |-> IF \E g \in Guis : s \in TimerMask'[g] THEN passed[s] ELSE 0]
  BY DEF Recount
<1>2. \A g : \A s : Later(g, s)' = Later(g, s)
  BY DEF Later
<1>3. passed \in [Slots -> Nat] /\ \A g \in Guis : TimerMask[g] \subseteq Slots
  BY DEF TypeOK
<1>4. ASSUME NEW g \in Guis, NEW s \in TimerMask'[g]
      PROVE  passed'[s] + Later(g, s)' < NrTimers
  <2>1. s \in TimerMask[g] /\ s \in Slots
    BY <1>3, <1>4
  <2>2. passed'[s] = passed[s]
    BY <1>1, <1>4, <2>1
  <2> QED
    BY <1>2, <2>1, <2>2 DEF PassInv
<1>5. \A s \in Slots : (\A g \in Guis : s \notin TimerMask'[g]) => passed'[s] = 0
  BY <1>1
<1>6. passed' \in [Slots -> Nat]
  BY <1>1, <1>3
<1> QED
  BY <1>4, <1>5, <1>6 DEF PassInv

\* What MaskInv asks of a step that changes no mask and no loaded value.
LEMMA MaskKept ==
  ASSUME TypeOK, CountInv, MaskInv, UNCHANGED TimerMask,
         \A s \in Slots : Set(s) => Set(s)' /\ timerstr'[s].hWnd = timerstr[s].hWnd,
         dsk'.at = "store" => dsk.at = "store" /\ dsk'.slot = dsk.slot /\ dsk'.val = dsk.val,
         \A g \in Guis :
           svc'[g].at \in {"zero", "load", "store"} =>
             /\ svc[g].at \in {"zero", "load", "store"} /\ svc'[g].slot = svc[g].slot
             /\ svc'[g].at = "store" => svc[g].at = "store" /\ svc'[g].val = svc[g].val
  PROVE  MaskInv'
<1>1. BitsAreTimers'
  BY DEF MaskInv, BitsAreTimers
<1>2. ASSUME dsk'.at = "store"
      PROVE  /\ TimerMask'[timerstr'[dsk'.slot].hWnd] \subseteq dsk'.val
             /\ \A s \in dsk'.val : Set(s)'
                  /\ timerstr'[s].hWnd = timerstr'[dsk'.slot].hWnd
  <2>1. /\ dsk.at = "store" /\ dsk'.slot = dsk.slot /\ dsk'.val = dsk.val
        /\ dsk.slot \in Slots /\ dsk.val \subseteq Slots /\ Set(dsk.slot)
    BY <1>2 DEF TypeOK, CountInv
  <2>2. timerstr'[dsk.slot].hWnd = timerstr[dsk.slot].hWnd
    BY <2>1
  <2>3. /\ TimerMask[timerstr[dsk.slot].hWnd] \subseteq dsk.val
        /\ \A s \in dsk.val : Set(s) /\ timerstr[s].hWnd = timerstr[dsk.slot].hWnd
    BY <2>1 DEF MaskInv
  <2> QED
    BY <2>1, <2>2, <2>3
<1>3. \A g \in Guis : svc'[g].at = "store" => svc'[g].val \subseteq TimerMask'[g]
  BY DEF MaskInv
<1> QED
  BY <1>1, <1>2, <1>3, Zenon DEF MaskInv


-----------------------------------------------------------------------------
(* The desktop thread.                                                     *)

LEMMA StartStep == ASSUME TimerInv, DispatchTimerMessage PROVE TimerInv'
<1>1. /\ dsk.at = "idle" /\ dsk' = [dsk EXCEPT !.at = "slot"]
      /\ UNCHANGED <<timerstr, TimerMask, FirstTimerSlot, svc, passed>>
  BY DEF DispatchTimerMessage, TimerLockFree
<1>2. TypeOK /\ CountInv /\ OneTimerPerId /\ MaskInv /\ PassInv
  BY DEF TimerInv
<1>3. dsk' \in [at : {"slot"}, slot : Slots, val : SUBSET Slots]
  BY <1>1, <1>2 DEF TypeOK
<1>4. TypeOK'
  BY <1>1, <1>2, <1>3 DEF TypeOK
<1>5. CountInv' /\ OneTimerPerId'
  BY <1>1, <1>2, <1>3 DEF CountInv, OneTimerPerId, Set, Busy
<1>6. MaskInv'
  BY <1>1, <1>2, <1>3, MaskKept DEF Set
<1>7. PassInv'
  BY <1>1, <1>2, PassKept
<1> QED
  BY <1>4, <1>5, <1>6, <1>7 DEF TimerInv

LEMMA CountStep == ASSUME TimerInv, CountSlot PROVE TimerInv'
<1> DEFINE x == dsk.slot
<1>1. dsk.at = "slot" /\ UNCHANGED <<TimerMask, FirstTimerSlot, svc, passed>>
  BY DEF CountSlot
<1>2. TypeOK /\ CountInv /\ OneTimerPerId /\ MaskInv /\ PassInv /\ x \in Slots
  BY Facts DEF TimerInv
<1>3. NextSlot \in [at : {"idle", "slot"}, slot : Slots, val : SUBSET Slots]
  BY <1>2, NextSlotType
<1>4. PassInv'
  BY <1>1, <1>2, PassKept
<1>5. CASE ~Set(x)
  <2>1. dsk' = NextSlot /\ timerstr' = timerstr
    BY <1>5 DEF CountSlot
  <2>2. TypeOK'
    BY <1>1, <1>2, <1>3, <2>1 DEF TypeOK
  <2>3. CountInv' /\ OneTimerPerId'
    BY <1>1, <1>2, <1>3, <2>1 DEF CountInv, OneTimerPerId, Set, Busy
  <2>4. MaskInv'
    BY <1>1, <1>2, <1>3, <2>1, MaskKept DEF Set
  <2> QED
    BY <1>4, <2>2, <2>3, <2>4 DEF TimerInv
<1>6. CASE Set(x)
  <2> DEFINE c == timerstr[x].count + 1
             sp == timerstr[x].speed
  <2>1. /\ timerstr' = [timerstr EXCEPT ![x].count = c]
        /\ dsk' = IF c < sp THEN NextSlot
                  ELSE [dsk EXCEPT !.at = IF timerstr[x].tick THEN "load" ELSE "stamp"]
    BY <1>6 DEF CountSlot
  <2>2. timerstr[x] \in Timer
    BY <1>2, <1>6, Facts
  <2>3. c \in Nat /\ sp \in Nat \ {0} /\ timerstr[x].tick \in BOOLEAN /\ c <= sp
    <3>1. timerstr[x].count < sp
      BY <1>1, <1>2, <1>6 DEF CountInv, Busy
    <3>2. /\ timerstr[x].count \in Nat /\ sp \in Nat \ {0}
          /\ timerstr[x].tick \in BOOLEAN
      BY <2>2, TimerConstants DEF Timer
    <3> QED
      BY <3>1, <3>2
  <2>4. Kept(x) /\ timerstr'[x].count = c /\ timerstr'[x].speed = sp
    BY <1>2, <1>6, <2>1, <2>3, CountChanged
  <2>5. /\ \A s \in Slots : /\ Set(s)' <=> Set(s)
                            /\ Set(s) => /\ timerstr'[s].hWnd = timerstr[s].hWnd
                                         /\ timerstr'[s].id = timerstr[s].id
        /\ OneTimerPerId'
    BY <1>2, <2>4, KeptFacts
  <2>6. /\ dsk' \in [at : {"idle", "slot", "load", "stamp"}, slot : Slots, val : SUBSET Slots]
        /\ c < sp => dsk'.at \in {"idle", "slot"}
        /\ ~(c < sp) => dsk'.at \in {"load", "stamp"} /\ dsk'.slot = x
    <3>1. dsk \in [at : {"idle", "slot", "stamp", "load", "store"}, slot : Slots,
                   val : SUBSET Slots]
      BY <1>2 DEF TypeOK
    <3>2. CASE c < sp
      BY <1>3, <2>1, <3>2
    <3>3. CASE ~(c < sp)
      BY <2>1, <2>3, <3>1, <3>3
    <3> QED
      BY <3>2, <3>3
  <2>7. TypeOK'
    BY <1>1, <1>2, <2>4, <2>6 DEF TypeOK, Kept
  <2>8. CountInv'
    <3>1. ASSUME NEW s \in Slots, Set(s)'
          PROVE  IF Busy(s)' THEN timerstr'[s].count = timerstr'[s].speed
                             ELSE timerstr'[s].count < timerstr'[s].speed
      <4>1. CASE s = x
        BY <2>3, <2>4, <2>6, <4>1 DEF Busy
      <4>2. CASE s # x
        <5>1. ~Busy(s)' /\ ~Busy(s)
          BY <1>1, <2>6, <4>2 DEF Busy
        <5>2. timerstr'[s] = timerstr[s] /\ Set(s)
          BY <2>4, <2>5, <3>1, <4>2 DEF Kept
        <5> QED
          BY <1>2, <5>1, <5>2 DEF CountInv
      <4> QED
        BY <4>1, <4>2
    <3>2. dsk'.at \in {"stamp", "load", "store"} => Set(dsk.slot)' /\ dsk'.slot = dsk.slot
      BY <1>2, <1>6, <2>5, <2>6
    <3>3. dsk'.at \in {"stamp", "load", "store"} => timerstr'[dsk'.slot] # None
      BY <3>2 DEF Set
    <3> QED
      BY <3>1, <3>3 DEF CountInv, Set
  <2>9. MaskInv'
    BY <1>1, <1>2, <2>5, <2>6, MaskKept
  <2> QED
    BY <1>4, <2>5, <2>7, <2>8, <2>9 DEF TimerInv
<1> QED
  BY <1>5, <1>6

LEMMA StampStep == ASSUME TimerInv, StampTick PROVE TimerInv'
<1> DEFINE x == dsk.slot
<1>1. /\ dsk.at = "stamp" /\ timerstr' = [timerstr EXCEPT ![x].tick = TRUE]
      /\ dsk' = [dsk EXCEPT !.at = "load"]
      /\ UNCHANGED <<TimerMask, FirstTimerSlot, svc, passed>>
  BY DEF StampTick
<1>2. /\ TypeOK /\ CountInv /\ OneTimerPerId /\ MaskInv /\ PassInv
      /\ x \in Slots /\ Set(x)
  BY <1>1, Facts DEF TimerInv, CountInv
<1>3. /\ Kept(x) /\ timerstr'[x].count = timerstr[x].count
      /\ timerstr'[x].speed = timerstr[x].speed
  BY <1>1, <1>2, TickChanged
<1>4. /\ \A s \in Slots : /\ Set(s)' <=> Set(s)
                          /\ Set(s) => /\ timerstr'[s].hWnd = timerstr[s].hWnd
                                       /\ timerstr'[s].id = timerstr[s].id
      /\ OneTimerPerId'
  BY <1>2, <1>3, KeptFacts
<1>5. dsk' \in [at : {"load"}, slot : {x}, val : SUBSET Slots]
  BY <1>1, <1>2 DEF TypeOK
<1>6. TypeOK'
  BY <1>1, <1>2, <1>3, <1>5 DEF TypeOK, Kept
<1>7. CountInv'
  <2>1. \A s \in Slots : Set(s)' => /\ timerstr'[s].count = timerstr[s].count
                                    /\ timerstr'[s].speed = timerstr[s].speed
    BY <1>3 DEF Kept
  <2>2. \A s : Busy(s)' <=> Busy(s)
    BY <1>1, <1>5 DEF Busy
  <2>3. Set(dsk.slot)' /\ dsk'.slot = dsk.slot
    BY <1>2, <1>4, <1>5
  <2>4. timerstr'[dsk'.slot] # None
    BY <2>3 DEF Set
  <2>5. \A s \in Slots : Set(s)' => IF Busy(s)' THEN timerstr'[s].count = timerstr'[s].speed
                                    ELSE timerstr'[s].count < timerstr'[s].speed
    BY <1>2, <1>4, <2>1, <2>2 DEF CountInv
  <2> QED
    BY <2>4, <2>5 DEF CountInv, Set
<1>8. MaskInv'
  BY <1>1, <1>2, <1>4, <1>5, MaskKept
<1>9. PassInv'
  BY <1>1, <1>2, PassKept
<1> QED
  BY <1>4, <1>6, <1>7, <1>8, <1>9 DEF TimerInv

LEMMA LoadStep == ASSUME TimerInv, LoadMask PROVE TimerInv'
<1> DEFINE x == dsk.slot
           h == timerstr[x].hWnd
<1>1. /\ dsk.at = "load" /\ dsk' = [dsk EXCEPT !.at = "store", !.val = TimerMask[h]]
      /\ UNCHANGED <<timerstr, TimerMask, FirstTimerSlot, svc, passed>>
  BY DEF LoadMask
<1>2. /\ TypeOK /\ CountInv /\ OneTimerPerId /\ MaskInv /\ PassInv
      /\ x \in Slots /\ Set(x) /\ timerstr[x] \in Timer
  BY <1>1, Facts DEF TimerInv, CountInv
<1>3. h \in Guis /\ TimerMask[h] \subseteq Slots
  BY <1>2 DEF TypeOK, Timer
<1>4. /\ dsk' \in [at : {"store"}, slot : {x}, val : SUBSET Slots]
      /\ dsk'.val = TimerMask[h]
  BY <1>1, <1>2, <1>3 DEF TypeOK
<1>5. TypeOK'
  BY <1>1, <1>2, <1>4 DEF TypeOK
<1>6. CountInv' /\ OneTimerPerId'
  <2>1. \A s : Busy(s)' <=> Busy(s)
    BY <1>1, <1>4 DEF Busy
  <2>2. \A s : Set(s)' <=> Set(s)
    BY <1>1 DEF Set
  <2>3. timerstr'[dsk'.slot] # None
    BY <1>1, <1>2, <1>4 DEF Set
  <2>4. CountInv'
    BY <1>1, <1>2, <1>4, <2>1, <2>2, <2>3 DEF CountInv, Set
  <2>5. OneTimerPerId'
    BY <1>1, <1>2, <2>2 DEF OneTimerPerId
  <2> QED
    BY <2>4, <2>5
<1>7. MaskInv'
  <2>1. BitsAreTimers'
    BY <1>1, <1>2 DEF MaskInv, BitsAreTimers, Set
  <2>2. \A s \in TimerMask[h] : Set(s) /\ timerstr[s].hWnd = h
    BY <1>2, <1>3 DEF MaskInv, BitsAreTimers
  <2>3. /\ TimerMask'[timerstr'[dsk'.slot].hWnd] \subseteq dsk'.val
        /\ \A s \in dsk'.val : Set(s)'
             /\ timerstr'[s].hWnd = timerstr'[dsk'.slot].hWnd
    BY <1>1, <1>4, <2>2 DEF Set
  <2>4. \A g \in Guis : svc'[g].at = "store" => svc'[g].val \subseteq TimerMask'[g]
    BY <1>1, <1>2 DEF MaskInv
  <2> QED
    BY <2>1, <2>3, <2>4, Zenon DEF MaskInv
<1>8. PassInv'
  BY <1>1, <1>2, PassKept
<1> QED
  BY <1>5, <1>6, <1>7, <1>8 DEF TimerInv

LEMMA StoreStep == ASSUME TimerInv, StoreMask PROVE TimerInv'
<1> DEFINE x == dsk.slot
           h == timerstr[x].hWnd
           c == timerstr[x].count - timerstr[x].speed
<1>1. /\ dsk.at = "store" /\ dsk' = NextSlot
      /\ TimerMask' = [TimerMask EXCEPT ![h] = dsk.val \cup {x}]
      /\ timerstr' = [timerstr EXCEPT ![x].count = c]
      /\ UNCHANGED <<FirstTimerSlot, svc, passed>>
  BY DEF StoreMask
<1>2. /\ TypeOK /\ CountInv /\ OneTimerPerId /\ MaskInv /\ PassInv
      /\ x \in Slots /\ Set(x) /\ timerstr[x] \in Timer
  BY <1>1, Facts DEF TimerInv, CountInv
<1>3. /\ h \in Guis /\ dsk.val \subseteq Slots /\ TimerMask \in [Guis -> SUBSET Slots]
      /\ TimerMask[h] \subseteq dsk.val
      /\ \A s \in dsk.val : Set(s) /\ timerstr[s].hWnd = h
  BY <1>1, <1>2 DEF TypeOK, Timer, MaskInv
<1>4. c = 0 /\ timerstr[x].speed > 0
  <2>1. timerstr[x].count = timerstr[x].speed
    BY <1>1, <1>2 DEF CountInv, Busy
  <2> QED
    BY <1>2, <2>1, TimerConstants DEF Timer
<1>5. Kept(x) /\ timerstr'[x].count = 0 /\ timerstr'[x].speed = timerstr[x].speed
  <2>1. timerstr' = [timerstr EXCEPT ![x].count = 0]
    BY <1>1, <1>4
  <2> QED
    BY <1>2, <2>1, CountChanged
<1>6. /\ \A s \in Slots : /\ Set(s)' <=> Set(s)
                          /\ Set(s) => /\ timerstr'[s].hWnd = timerstr[s].hWnd
                                       /\ timerstr'[s].id = timerstr[s].id
      /\ OneTimerPerId'
  BY <1>2, <1>5, KeptFacts
<1>7. dsk' \in [at : {"idle", "slot"}, slot : Slots, val : SUBSET Slots]
  BY <1>1, <1>2, NextSlotType
<1>8. /\ TimerMask' \in [Guis -> SUBSET Slots] /\ TimerMask'[h] = dsk.val \cup {x}
      /\ \A g \in Guis \ {h} : TimerMask'[g] = TimerMask[g]
      /\ \A g \in Guis : TimerMask[g] \subseteq TimerMask'[g]
  BY <1>1, <1>2, <1>3
<1>9. TypeOK'
  BY <1>1, <1>2, <1>5, <1>7, <1>8 DEF TypeOK, Kept
<1>10. CountInv'
  <2>1. ASSUME NEW s \in Slots, Set(s)' PROVE timerstr'[s].count < timerstr'[s].speed
    <3>1. CASE s = x
      BY <1>4, <1>5, <3>1
    <3>2. CASE s # x
      <4>1. timerstr'[s] = timerstr[s] /\ Set(s) /\ ~Busy(s)
        BY <1>5, <1>6, <2>1, <3>2 DEF Kept, Busy
      <4> QED
        BY <1>2, <4>1 DEF CountInv
    <3> QED
      BY <3>1, <3>2
  <2> QED
    BY <1>7, <2>1 DEF CountInv, Busy
<1>11. MaskInv'
  <2>1. ASSUME NEW g \in Guis, NEW s \in Slots
        PROVE  /\ s \in TimerMask'[g] => Set(s)' /\ timerstr'[s].hWnd = g
               /\ svc'[g].at \in {"zero", "load", "store"} /\ svc'[g].slot = s =>
                    Set(s)' /\ timerstr'[s].hWnd = g
    <3>1. s \in TimerMask'[g] => Set(s) /\ timerstr[s].hWnd = g
      BY <1>2, <1>3, <1>8 DEF MaskInv, BitsAreTimers
    <3> QED
      BY <1>1, <1>2, <1>6, <3>1 DEF MaskInv, BitsAreTimers
  <2>2. \A g \in Guis : svc'[g].at = "store" => svc'[g].val \subseteq TimerMask'[g]
    BY <1>1, <1>2, <1>8 DEF MaskInv
  <2>3. dsk'.at # "store"
    BY <1>7
  <2>4. BitsAreTimers'
    BY <2>1, Zenon DEF BitsAreTimers
  <2> QED
    BY <2>2, <2>3, <2>4 DEF MaskInv
<1>12. PassInv'
  <2>1. \A g, s : Later(g, s)' = Later(g, s)
    BY <1>1 DEF Later
  <2>2. ASSUME NEW g \in Guis, NEW s \in TimerMask'[g]
        PROVE  passed'[s] + Later(g, s)' < NrTimers
    <3>1. s \in Slots
      BY <1>8
    <3>2. CASE s \in TimerMask[g]
      BY <1>1, <1>2, <2>1, <3>2 DEF PassInv
    <3>3. CASE s \notin TimerMask[g]
      <4>1. g = h /\ Set(s) /\ timerstr[s].hWnd = h
        BY <1>2, <1>3, <1>8, <2>2, <3>3
      <4>2. \A k \in Guis : s \notin TimerMask[k]
        BY <1>2, <3>1, <3>3, <4>1 DEF MaskInv, BitsAreTimers
      <4>3. passed[s] = 0 /\ Later(g, s) \in Slots
        BY <1>2, <3>1, <4>2, LaterProps DEF PassInv
      <4> QED
        BY <1>1, <2>1, <4>3, TimerConstants DEF Slots
    <3> QED
      BY <3>2, <3>3
  <2>3. \A s \in Slots : (\A g \in Guis : s \notin TimerMask'[g]) => passed'[s] = 0
    BY <1>1, <1>2, <1>8 DEF PassInv
  <2> QED
    BY <2>2, <2>3 DEF PassInv
<1> QED
  BY <1>6, <1>9, <1>10, <1>11, <1>12 DEF TimerInv


-----------------------------------------------------------------------------
(* The timer calls of a GUI thread.                                        *)

LEMMA SetStep ==
  ASSUME TimerInv, NEW g \in Guis, NEW id \in Ids, NEW sp \in Speeds, NEW p \in Procs,
         SetTimerEx(g, id, sp, p)
  PROVE  TimerInv'
<1>1. PICK x \in Slots :
        /\ ~Set(x)
        /\ timerstr' = [timerstr EXCEPT ![x] =
             [hWnd |-> g, id |-> id, speed |-> sp, count |-> 0, tick |-> FALSE, proc |-> p]]
  BY DEF SetTimerEx
<1>2. /\ dsk.at = "idle" /\ \A s \in Slots : ~Is(s, g, id)
      /\ UNCHANGED <<TimerMask, FirstTimerSlot, dsk, svc, passed>>
  BY DEF SetTimerEx, InCode, TimerLockFree
<1>3. TypeOK /\ CountInv /\ OneTimerPerId /\ MaskInv /\ PassInv
  BY DEF TimerInv
<1> DEFINE t == [hWnd |-> g, id |-> id, speed |-> sp, count |-> 0, tick |-> FALSE, proc |-> p]
<1>4. /\ t \in Timer /\ t.hWnd = g /\ t.id = id /\ t.count = 0 /\ t.speed = sp
      /\ sp \in Nat \ {0} /\ t # None
  <2>1. t \in Timer
    BY TimerConstants DEF Timer
  <2>2. t # None
    BY <1>3, <2>1, Facts
  <2> QED
    BY <2>1, <2>2, TimerConstants
<1>5. timerstr' = [timerstr EXCEPT ![x] = t]
  BY <1>1
<1> HIDE DEF t
<1>6. /\ timerstr' \in [Slots -> Timer \cup {None}] /\ timerstr'[x] = t
      /\ \A s \in Slots \ {x} : timerstr'[s] = timerstr[s]
  BY <1>3, <1>4, <1>5 DEF TypeOK
<1>7. TypeOK'
  BY <1>2, <1>3, <1>6 DEF TypeOK
<1>8. CountInv'
  <2>1. \A s : ~Busy(s) /\ ~Busy(s)'
    BY <1>2 DEF Busy
  <2>2. ASSUME NEW s \in Slots, timerstr'[s] # None
        PROVE  timerstr'[s].count < timerstr'[s].speed
    <3>1. CASE s = x
      BY <1>4, <1>6, <3>1
    <3>2. CASE s # x
      BY <1>3, <1>6, <2>1, <2>2, <3>2 DEF CountInv, Set
    <3> QED
      BY <3>1, <3>2
  <2> QED
    BY <1>2, <2>1, <2>2 DEF CountInv, Set
<1>9. OneTimerPerId'
  <2> SUFFICES ASSUME NEW s \in Slots, NEW r \in Slots, timerstr'[s] # None,
                      timerstr'[r] # None, timerstr'[s].hWnd = timerstr'[r].hWnd,
                      timerstr'[s].id = timerstr'[r].id, s # r
               PROVE  FALSE
    BY DEF OneTimerPerId, Set
  <2>1. \A u \in Slots \ {x} : timerstr'[u] # None => ~(timerstr'[u].hWnd = g /\ timerstr'[u].id = id)
    BY <1>2, <1>6 DEF Is, Set
  <2>2. CASE s = x \/ r = x
    BY <1>4, <1>6, <2>1, <2>2
  <2>3. CASE s # x /\ r # x
    BY <1>3, <1>6, <2>3 DEF OneTimerPerId, Set
  <2> QED
    BY <2>2, <2>3
<1>10. MaskInv'
  <2>1. \A s \in Slots : Set(s) => timerstr'[s] = timerstr[s]
    BY <1>1, <1>6
  <2> QED
    BY <1>2, <1>3, <2>1, MaskKept DEF Set
<1>11. PassInv'
  BY <1>2, <1>3, PassKept
<1> QED
  BY <1>7, <1>8, <1>9, <1>10, <1>11 DEF TimerInv

LEMMA KillStep ==
  ASSUME TimerInv, NEW g \in Guis, NEW id, KillTimer(g, id)
  PROVE  TimerInv'
<1>1. PICK K : K = Killed(g, id)
  OBVIOUS
<1>2. /\ dsk.at = "idle" /\ svc[g].at \in {"run", "callback"}
      /\ TimerMask' = [TimerMask EXCEPT ![g] = @ \ K]
      /\ timerstr' = [s \in Slots |-> IF s \in K THEN None ELSE timerstr[s]]
      /\ svc' = [svc EXCEPT ![g].freed =
                   svc[g].at = "callback" /\ (@ \/ svc[g].slot \in K)]
      /\ Recount /\ UNCHANGED <<FirstTimerSlot, dsk>>
  BY <1>1 DEF KillTimer, InCode, TimerLockFree
<1>3. /\ TypeOK /\ CountInv /\ OneTimerPerId /\ MaskInv /\ PassInv
      /\ K \subseteq Slots /\ \A s \in K : timerstr[s].hWnd = g
  BY <1>1 DEF TimerInv, Killed
<1>4. /\ TimerMask' \in [Guis -> SUBSET Slots] /\ TimerMask'[g] = TimerMask[g] \ K
      /\ \A k \in Guis \ {g} : TimerMask'[k] = TimerMask[k]
  BY <1>2, <1>3 DEF TypeOK
<1>5. /\ timerstr' \in [Slots -> Timer \cup {None}]
      /\ \A s \in K : timerstr'[s] = None
      /\ \A s \in Slots \ K : timerstr'[s] = timerstr[s]
  BY <1>2, <1>3 DEF TypeOK
<1>6. PassInv' /\ passed' \in [Slots -> Nat]
  BY <1>2, <1>3, <1>4, PassShrunk
<1>7. /\ svc' \in [Guis -> [at : {"run", "zero", "load", "store", "callback"},
                            slot : Slots, tick : BOOLEAN, val : SUBSET Slots,
                            freed : BOOLEAN]]
      /\ \A k \in Guis : /\ svc'[k].at = svc[k].at /\ svc'[k].slot = svc[k].slot
                         /\ svc'[k].val = svc[k].val
  <2> DEFINE b == svc[g].at = "callback" /\ (svc[g].freed \/ svc[g].slot \in K)
  <2>1. b \in BOOLEAN
    OBVIOUS
  <2>2. svc' = [svc EXCEPT ![g].freed = b]
    BY <1>2
  <2> HIDE DEF b
  <2>3. svc'[g] = [svc[g] EXCEPT !.freed = b] /\ \A k \in Guis \ {g} : svc'[k] = svc[k]
    BY <1>3, <2>2 DEF TypeOK
  <2>4. svc[g] \in [at : {"run", "zero", "load", "store", "callback"}, slot : Slots,
                    tick : BOOLEAN, val : SUBSET Slots, freed : BOOLEAN]
    BY <1>3 DEF TypeOK
  <2>5. /\ svc'[g] \in [at : {"run", "zero", "load", "store", "callback"}, slot : Slots,
                        tick : BOOLEAN, val : SUBSET Slots, freed : BOOLEAN]
        /\ svc'[g].at = svc[g].at /\ svc'[g].slot = svc[g].slot /\ svc'[g].val = svc[g].val
    BY <2>1, <2>3, <2>4
  <2> QED
    BY <1>3, <2>2, <2>3, <2>5 DEF TypeOK
<1>8. TypeOK'
  BY <1>2, <1>3, <1>4, <1>5, <1>6, <1>7 DEF TypeOK
<1>9. \A s \in Slots : timerstr'[s] # None => timerstr'[s] = timerstr[s] /\ timerstr[s] # None
  BY <1>3, <1>5
<1>10. CountInv'
  <2>1. \A s : ~Busy(s) /\ ~Busy(s)'
    BY <1>2 DEF Busy
  <2>2. \A s \in Slots : timerstr'[s] # None => timerstr'[s].count < timerstr'[s].speed
    BY <1>3, <1>9, <2>1 DEF CountInv, Set
  <2> QED
    BY <1>2, <2>1, <2>2 DEF CountInv, Set
<1>11. OneTimerPerId'
  BY <1>3, <1>9 DEF OneTimerPerId, Set
<1>12. MaskInv'
  <2>1. ASSUME NEW k \in Guis, NEW s \in Slots
        PROVE  /\ s \in TimerMask'[k] => timerstr'[s] # None /\ timerstr'[s].hWnd = k
               /\ svc'[k].at \in {"zero", "load", "store"} /\ svc'[k].slot = s =>
                    timerstr'[s] # None /\ timerstr'[s].hWnd = k
    <3>1. ASSUME s \in TimerMask'[k] PROVE s \in TimerMask[k] /\ s \notin K
      <4>1. CASE k = g
        BY <1>4, <3>1, <4>1
      <4>2. CASE k # g
        <5>1. s \in TimerMask[k]
          BY <1>4, <3>1, <4>2
        <5>2. timerstr[s].hWnd = k
          BY <1>3, <5>1 DEF MaskInv, BitsAreTimers
        <5> QED
          BY <1>3, <4>2, <5>1, <5>2
      <4> QED
        BY <4>1, <4>2
    <3>2. ASSUME svc'[k].at \in {"zero", "load", "store"}, svc'[k].slot = s
          PROVE  s \notin K /\ Set(s) /\ timerstr[s].hWnd = k
      <4>1. Set(s) /\ timerstr[s].hWnd = k
        BY <1>3, <1>7, <3>2 DEF MaskInv, BitsAreTimers
      <4>2. k # g
        BY <1>2, <1>7, <3>2
      <4> QED
        BY <1>3, <4>1, <4>2
    <3> QED
      BY <1>3, <1>5, <3>1, <3>2 DEF MaskInv, BitsAreTimers, Set
  <2>2. BitsAreTimers'
    BY <2>1, Zenon DEF BitsAreTimers, Set
  <2>3. ASSUME NEW k \in Guis, svc'[k].at = "store"
        PROVE  svc'[k].val \subseteq TimerMask'[k]
    <3>1. k # g
      BY <1>2, <1>7, <2>3
    <3> QED
      BY <1>3, <1>4, <1>7, <2>3, <3>1 DEF MaskInv
  <2> QED
    BY <1>2, <2>2, <2>3 DEF MaskInv
<1> QED
  BY <1>6, <1>8, <1>10, <1>11, <1>12 DEF TimerInv

LEMMA ResetStep ==
  ASSUME TimerInv, NEW g \in Guis, NEW id \in Ids, NEW sp \in Speeds, NEW p \in Procs,
         ResetTimerEx(g, id, sp, p)
  PROVE  TimerInv'
<1>1. PICK x \in Slots :
        /\ Is(x, g, id)
        /\ TimerMask' = [TimerMask EXCEPT ![g] = @ \ {x}]
        /\ timerstr' = [timerstr EXCEPT ![x].speed = sp, ![x].count = 0,
                                        ![x].proc = p, ![x].tick = FALSE]
  BY DEF ResetTimerEx
<1>2. /\ dsk.at = "idle" /\ svc[g].at \in {"run", "callback"}
      /\ Recount /\ UNCHANGED <<FirstTimerSlot, dsk, svc>>
  BY DEF ResetTimerEx, InCode, TimerLockFree
<1>3. /\ TypeOK /\ CountInv /\ OneTimerPerId /\ MaskInv /\ PassInv
      /\ Set(x) /\ timerstr[x] \in Timer
  BY <1>1, Facts DEF TimerInv, Is
<1>4. /\ TimerMask' \in [Guis -> SUBSET Slots] /\ TimerMask'[g] = TimerMask[g] \ {x}
      /\ \A k \in Guis \ {g} : TimerMask'[k] = TimerMask[k]
  BY <1>1, <1>3 DEF TypeOK
<1>5. /\ Kept(x) /\ timerstr'[x].count = 0 /\ timerstr'[x].speed = sp
  <2>1. timerstr \in [Slots -> Timer \cup {None}]
    BY <1>3 DEF TypeOK
  <2>2. timerstr'[x] = [timerstr[x] EXCEPT !.speed = sp, !.count = 0, !.proc = p, !.tick = FALSE]
    BY <1>1, <2>1
  <2>3. p \in BOOLEAN
    BY TimerConstants
  <2>4. /\ timerstr'[x] \in Timer /\ timerstr'[x].count = 0 /\ timerstr'[x].speed = sp
        /\ timerstr'[x].hWnd = timerstr[x].hWnd /\ timerstr'[x].id = timerstr[x].id
    <3> DEFINE t == timerstr[x]
    <3>1. t \in [hWnd : Guis, id : Ids, speed : Speeds, count : Nat, tick : BOOLEAN,
                 proc : BOOLEAN]
      BY <1>3 DEF Timer
    <3> HIDE DEF t
    <3>2. PICK u : u = [t EXCEPT !.speed = sp, !.count = 0, !.proc = p, !.tick = FALSE]
      OBVIOUS
    <3>3. /\ u \in [hWnd : Guis, id : Ids, speed : Speeds, count : Nat, tick : BOOLEAN,
                     proc : BOOLEAN]
          /\ u.count = 0 /\ u.speed = sp /\ u.hWnd = t.hWnd /\ u.id = t.id
      BY <2>3, <3>1, <3>2
    <3> QED
      BY <2>2, <3>2, <3>3 DEF Timer, t
  <2>5. \A s \in Slots \ {x} : timerstr'[s] = timerstr[s]
    BY <1>1, <2>1
  <2>6. timerstr' \in [Slots -> Timer \cup {None}]
    BY <1>1, <2>1, <2>4, <2>5
  <2> QED
    BY <1>3, <2>4, <2>5, <2>6 DEF Kept
<1>6. /\ \A s \in Slots : /\ Set(s)' <=> Set(s)
                          /\ Set(s) => /\ timerstr'[s].hWnd = timerstr[s].hWnd
                                       /\ timerstr'[s].id = timerstr[s].id
      /\ OneTimerPerId'
  BY <1>3, <1>5, KeptFacts
<1>7. PassInv' /\ passed' \in [Slots -> Nat]
  BY <1>2, <1>3, <1>4, PassShrunk
<1>8. TypeOK'
  BY <1>2, <1>3, <1>4, <1>5, <1>7 DEF TypeOK, Kept
<1>9. CountInv'
  <2>1. \A s : ~Busy(s) /\ ~Busy(s)'
    BY <1>2 DEF Busy
  <2>2. ASSUME NEW s \in Slots, Set(s)' PROVE timerstr'[s].count < timerstr'[s].speed
    <3>1. CASE s = x
      BY <1>5, <3>1, TimerConstants
    <3>2. CASE s # x
      BY <1>3, <1>5, <1>6, <2>1, <2>2, <3>2 DEF CountInv, Kept
    <3> QED
      BY <3>1, <3>2
  <2> QED
    BY <1>2, <2>1, <2>2 DEF CountInv
<1>10. MaskInv'
  <2>1. \A k \in Guis : TimerMask'[k] \subseteq TimerMask[k]
    BY <1>4
  <2>2. BitsAreTimers'
    BY <1>2, <1>3, <1>6, <2>1 DEF MaskInv, BitsAreTimers
  <2>3. \A k \in Guis : svc'[k].at = "store" => svc'[k].val \subseteq TimerMask'[k]
    BY <1>2, <1>3, <1>4 DEF MaskInv
  <2> QED
    BY <1>2, <2>2, <2>3 DEF MaskInv
<1> QED
  BY <1>6, <1>7, <1>8, <1>9, <1>10 DEF TimerInv


-----------------------------------------------------------------------------
(* PeekMessageEx of a GUI thread.                                          *)

SvcType == [at : {"run", "zero", "load", "store", "callback"}, slot : Slots,
            tick : BOOLEAN, val : SUBSET Slots, freed : BOOLEAN]

\* A step that changes only what one thread is at.
LEMMA SvcStep ==
  ASSUME TimerInv, NEW g \in Guis, NEW v \in SvcType, svc' = [svc EXCEPT ![g] = v],
         UNCHANGED <<timerstr, TimerMask, dsk>>,
         v.at \in {"zero", "load", "store"} =>
           Set(v.slot) /\ timerstr[v.slot].hWnd = g,
         v.at = "store" => v.val \subseteq TimerMask[g],
         FirstTimerSlot' \in [Guis -> Slots], passed' \in [Slots -> Nat], PassInv'
  PROVE  TimerInv'
<1>1. TypeOK /\ CountInv /\ OneTimerPerId /\ MaskInv
  BY DEF TimerInv
<1>2. /\ svc' \in [Guis -> SvcType] /\ svc'[g] = v
      /\ \A k \in Guis \ {g} : svc'[k] = svc[k]
  BY <1>1 DEF TypeOK, SvcType
<1>3. TypeOK'
  BY <1>1, <1>2 DEF TypeOK, SvcType
<1>4. CountInv' /\ OneTimerPerId'
  BY <1>1 DEF CountInv, OneTimerPerId, Set, Busy
<1>5. BitsAreTimers'
  <2>1. ASSUME NEW k \in Guis, NEW s \in Slots
        PROVE  /\ s \in TimerMask'[k] => Set(s)' /\ timerstr'[s].hWnd = k
               /\ svc'[k].at \in {"zero", "load", "store"} /\ svc'[k].slot = s =>
                    Set(s)' /\ timerstr'[s].hWnd = k
    <3>1. k # g => svc'[k] = svc[k]
      BY <1>2
    <3>2. k = g => svc'[k] = v
      BY <1>2
    <3> QED
      BY <1>1, <3>1, <3>2 DEF MaskInv, BitsAreTimers, Set
  <2> QED
    BY <2>1, Zenon DEF BitsAreTimers
<1>6. MaskInv'
  <2>1. \A k \in Guis : svc'[k].at = "store" => svc'[k].val \subseteq TimerMask'[k]
    BY <1>1, <1>2 DEF MaskInv
  <2>2. dsk'.at = "store" =>
          /\ TimerMask'[timerstr'[dsk'.slot].hWnd] \subseteq dsk'.val
          /\ \A s \in dsk'.val : Set(s)' /\ timerstr'[s].hWnd = timerstr'[dsk'.slot].hWnd
    BY <1>1 DEF MaskInv, Set
  <2> QED
    BY <1>5, <2>1, <2>2, Zenon DEF MaskInv
<1> QED
  BY <1>3, <1>4, <1>6 DEF TimerInv

LEMMA IdleType == ASSUME TypeOK PROVE Idle \in SvcType /\ Idle.at = "run"
  BY Facts DEF Idle, SvcType

LEMMA FindStep ==
  ASSUME TimerInv, NEW g \in Guis, FindExpired(g)
  PROVE  TimerInv'
<1>1. PICK s : s = Expired(g)
  OBVIOUS
<1>2. /\ svc[g].at = "run" /\ TimerMask[g] # {} /\ Rotate(g)
      /\ svc' = IF Set(s) THEN [svc EXCEPT ![g] = [Idle EXCEPT !.at = "zero", !.slot = s,
                                                     !.tick = timerstr[s].tick]]
                ELSE svc
      /\ passed' = [r \in Slots |-> IF r = s THEN 0
                                    ELSE IF r \in TimerMask[g] THEN passed[r] + 1
                                    ELSE passed[r]]
      /\ UNCHANGED <<timerstr, TimerMask, dsk>>
  BY <1>1, Zenon DEF FindExpired
<1>3. TypeOK /\ MaskInv /\ PassInv
  BY DEF TimerInv
<1>4. s \in TimerMask[g] /\ \A r \in TimerMask[g] : Later(g, s) <= Later(g, r)
  BY <1>1, <1>2, <1>3, ExpiredIn
<1>5. s \in Slots /\ Set(s) /\ timerstr[s].hWnd = g /\ timerstr[s] \in Timer
  <2>1. s \in Slots
    BY <1>3, <1>4 DEF TypeOK
  <2>2. Set(s) /\ timerstr[s].hWnd = g
    BY <1>3, <1>4, <2>1 DEF MaskInv, BitsAreTimers
  <2> QED
    BY <1>3, <2>1, <2>2, Facts
<1> DEFINE v == [Idle EXCEPT !.at = "zero", !.slot = s, !.tick = timerstr[s].tick]
<1>6. v \in SvcType /\ v.at = "zero" /\ v.slot = s
  <2>1. timerstr[s].tick \in BOOLEAN
    BY <1>5 DEF Timer
  <2> QED
    BY <1>5, <2>1 DEF Idle, SvcType
<1>7. svc' = [svc EXCEPT ![g] = v]
  BY <1>2, <1>5
<1> HIDE DEF v
<1>8. /\ FirstTimerSlot' \in [Guis -> Slots]
      /\ FirstTimerSlot'[g] = (FirstTimerSlot[g] + 1) % NrTimers
      /\ \A k \in Guis \ {g} : FirstTimerSlot'[k] = FirstTimerSlot[k]
  <2>1. FirstTimerSlot \in [Guis -> Slots]
    BY <1>3 DEF TypeOK
  <2>2. PICK n : n = (FirstTimerSlot[g] + 1) % NrTimers
    OBVIOUS
  <2>3. n \in Slots
    BY <2>1, <2>2, NextStart
  <2>4. FirstTimerSlot' = [FirstTimerSlot EXCEPT ![g] = n]
    BY <1>2, <2>2 DEF Rotate
  <2>5. /\ FirstTimerSlot' \in [Guis -> Slots] /\ FirstTimerSlot'[g] = n
        /\ \A k \in Guis \ {g} : FirstTimerSlot'[k] = FirstTimerSlot[k]
    BY <2>1, <2>3, <2>4
  <2> QED
    BY <2>2, <2>5
<1>9. passed' \in [Slots -> Nat]
  BY <1>2, <1>3 DEF TypeOK
<1>10. PassInv'
  <2>1. \A k \in Guis \ {g} : \A r : Later(k, r)' = Later(k, r)
    BY <1>8 DEF Later
  <2>2. ASSUME NEW r \in TimerMask[g], r # s
        PROVE  Later(g, r)' = Later(g, r) - 1
    <3>1. /\ r \in Slots /\ Later(g, r) \in Slots /\ Later(g, s) \in Slots
          /\ Later(g, r) # Later(g, s)
      BY <1>3, <1>5, <2>2, LaterProps DEF TypeOK
    <3>2. Later(g, r) # 0
      BY <1>4, <3>1, TimerConstants DEF Slots
    <3>3. (r - ((FirstTimerSlot[g] + 1) % NrTimers) + NrTimers) % NrTimers = Later(g, r) - 1
      BY <1>3, <3>1, <3>2, LaterProps
    <3>4. Later(g, r)' = (r - FirstTimerSlot'[g] + NrTimers) % NrTimers
      BY DEF Later
    <3> QED
      BY <1>8, <3>3, <3>4
  <2>3. (s - FirstTimerSlot'[g] + NrTimers) % NrTimers \in Slots
    <3>1. FirstTimerSlot'[g] \in Slots /\ NrTimers \in Nat \ {0}
      BY <1>8, TimerConstants
    <3>2. (s - FirstTimerSlot'[g] + NrTimers) % NrTimers =
            IF FirstTimerSlot'[g] <= s THEN s - FirstTimerSlot'[g]
                                       ELSE s - FirstTimerSlot'[g] + NrTimers
      BY <1>5, <3>1, LaterIs
    <3> QED
      BY <1>5, <3>1, <3>2 DEF Slots
  <2>4. ASSUME NEW k \in Guis, NEW r \in TimerMask'[k]
        PROVE  passed'[r] + Later(k, r)' < NrTimers
    <3>1. r \in TimerMask[k] /\ r \in Slots /\ passed[r] \in Nat /\ Later(k, r) \in Slots
      BY <1>2, <1>3, <2>4, LaterProps DEF TypeOK
    <3>2. passed[r] + Later(k, r) < NrTimers
      BY <1>3, <3>1 DEF PassInv
    <3>3. CASE k = g /\ r = s
      <4>1. passed'[r] = 0 /\ Later(k, r)' \in Slots
        BY <1>2, <1>5, <2>3, <3>3 DEF Later
      <4> QED
        BY <4>1, TimerConstants DEF Slots
    <3>4. CASE k = g /\ r # s
      <4>1. passed'[r] = passed[r] + 1 /\ Later(k, r)' = Later(k, r) - 1
        BY <1>2, <2>2, <3>1, <3>4
      <4> QED
        BY <3>1, <3>2, <4>1, TimerConstants DEF Slots
    <3>5. CASE k # g
      <4>1. r \notin TimerMask[g] /\ r # s
        BY <1>3, <1>5, <3>1, <3>5 DEF MaskInv, BitsAreTimers
      <4>2. passed'[r] = passed[r] /\ Later(k, r)' = Later(k, r)
        BY <1>2, <2>1, <3>1, <3>5, <4>1
      <4> QED
        BY <3>2, <4>2
    <3> QED
      BY <3>3, <3>4, <3>5
  <2>5. ASSUME NEW r \in Slots, \A k \in Guis : r \notin TimerMask'[k]
        PROVE  passed'[r] = 0
    <3>1. r \notin TimerMask[g] /\ passed[r] = 0
      BY <1>2, <1>3, <2>5 DEF PassInv
    <3> QED
      BY <1>2, <3>1
  <2> QED
    BY <2>4, <2>5 DEF PassInv
<1> QED
  BY <1>2, <1>5, <1>6, <1>7, <1>8, <1>9, <1>10, SvcStep

LEMMA OwnStep ==
  ASSUME TimerInv, NEW g \in Guis, LoadOwnMask(g)
  PROVE  TimerInv'
<1>1. TypeOK /\ MaskInv /\ PassInv
  BY DEF TimerInv
<1> DEFINE v == [svc[g] EXCEPT !.at = "store", !.val = TimerMask[g]]
<1>2. /\ svc[g].at = "load" /\ svc' = [svc EXCEPT ![g] = v]
      /\ UNCHANGED <<timerstr, TimerMask, FirstTimerSlot, dsk, passed>>
  BY <1>1 DEF LoadOwnMask
<1>3. svc[g] \in SvcType /\ TimerMask[g] \in SUBSET Slots
  BY <1>1 DEF TypeOK, SvcType
<1>4. v \in SvcType /\ v.slot = svc[g].slot /\ v.val = TimerMask[g]
  BY <1>3 DEF SvcType
<1>5. Set(v.slot) /\ timerstr[v.slot].hWnd = g
  BY <1>1, <1>2, <1>3, <1>4 DEF MaskInv, BitsAreTimers, SvcType
<1> HIDE DEF v
<1>6. FirstTimerSlot' \in [Guis -> Slots] /\ passed' \in [Slots -> Nat] /\ PassInv'
  BY <1>1, <1>2, PassKept DEF TypeOK
<1> QED
  BY <1>2, <1>4, <1>5, <1>6, SvcStep

LEMMA ZeroStep ==
  ASSUME TimerInv, NEW g \in Guis, ZeroTick(g)
  PROVE  TimerInv'
<1>1. TypeOK /\ CountInv /\ OneTimerPerId /\ MaskInv /\ PassInv
  BY DEF TimerInv
<1>2. PICK x : x = svc[g].slot
  OBVIOUS
<1>3. /\ svc[g].at = "zero" /\ timerstr' = [timerstr EXCEPT ![x].tick = FALSE]
      /\ svc' = [svc EXCEPT ![g].at = "load"]
      /\ UNCHANGED <<TimerMask, FirstTimerSlot, dsk, passed>>
  BY <1>2 DEF ZeroTick
<1>4. x \in Slots /\ Set(x) /\ timerstr[x].hWnd = g
  BY <1>1, <1>2, <1>3, Facts DEF MaskInv, BitsAreTimers
<1>5. /\ Kept(x) /\ timerstr'[x].count = timerstr[x].count
      /\ timerstr'[x].speed = timerstr[x].speed
  BY <1>1, <1>3, <1>4, TickChanged
<1>6. /\ \A s \in Slots : /\ Set(s)' <=> Set(s)
                          /\ Set(s) => /\ timerstr'[s].hWnd = timerstr[s].hWnd
                                       /\ timerstr'[s].id = timerstr[s].id
      /\ OneTimerPerId'
  BY <1>1, <1>4, <1>5, KeptFacts
<1>7. /\ svc' \in [Guis -> SvcType] /\ svc'[g].at = "load" /\ svc'[g].slot = svc[g].slot
      /\ \A k \in Guis \ {g} : svc'[k] = svc[k]
  BY <1>1, <1>3 DEF TypeOK, SvcType
<1>8. TypeOK'
  BY <1>1, <1>3, <1>5, <1>7 DEF TypeOK, Kept, SvcType
<1>9. CountInv'
  <2>1. \A s \in Slots : Set(s)' => /\ timerstr'[s].count = timerstr[s].count
                                    /\ timerstr'[s].speed = timerstr[s].speed
    BY <1>5 DEF Kept
  <2>2. \A s : Busy(s)' <=> Busy(s)
    BY <1>3 DEF Busy
  <2>3. dsk'.at \in {"stamp", "load", "store"} => timerstr'[dsk'.slot] # None
    BY <1>1, <1>3, <1>6, Facts DEF CountInv, Set
  <2>4. \A s \in Slots : Set(s)' => IF Busy(s)' THEN timerstr'[s].count = timerstr'[s].speed
                                    ELSE timerstr'[s].count < timerstr'[s].speed
    BY <1>1, <1>6, <2>1, <2>2 DEF CountInv
  <2> QED
    BY <2>3, <2>4 DEF CountInv, Set
<1>10. MaskInv'
  <2>1. ASSUME NEW k \in Guis, svc'[k].at \in {"zero", "load", "store"}
        PROVE  /\ svc[k].at \in {"zero", "load", "store"} /\ svc'[k].slot = svc[k].slot
               /\ svc'[k].at = "store" => svc[k].at = "store" /\ svc'[k].val = svc[k].val
    <3>1. CASE k = g
      BY <1>3, <1>7, <3>1
    <3>2. CASE k # g
      BY <1>7, <2>1, <3>2
    <3> QED
      BY <3>1, <3>2
  <2> QED
    BY <1>1, <1>3, <1>6, <2>1, MaskKept
<1>11. PassInv'
  BY <1>1, <1>3, PassKept
<1> QED
  BY <1>6, <1>8, <1>9, <1>10, <1>11 DEF TimerInv

LEMMA OwnStoreStep ==
  ASSUME TimerInv, NEW g \in Guis, StoreOwnMask(g)
  PROVE  TimerInv'
<1>1. TypeOK /\ CountInv /\ OneTimerPerId /\ MaskInv /\ PassInv
  BY DEF TimerInv
<1>2. PICK m : m = svc[g].val \ {svc[g].slot}
  OBVIOUS
<1>3. /\ svc[g].at = "store" /\ TimerMask' = [TimerMask EXCEPT ![g] = m] /\ Recount
      /\ \E v \in {Idle, [Idle EXCEPT !.at = "callback", !.slot = svc[g].slot]} :
           svc' = [svc EXCEPT ![g] = v]
      /\ UNCHANGED <<timerstr, FirstTimerSlot, dsk>>
  BY <1>2 DEF StoreOwnMask
<1>4. m \subseteq TimerMask[g] /\ m \in SUBSET Slots
  BY <1>1, <1>2, <1>3 DEF MaskInv, TypeOK
<1>5. /\ TimerMask' \in [Guis -> SUBSET Slots] /\ TimerMask'[g] = m
      /\ \A k \in Guis \ {g} : TimerMask'[k] = TimerMask[k]
      /\ \A k \in Guis : TimerMask'[k] \subseteq TimerMask[k]
  BY <1>1, <1>3, <1>4 DEF TypeOK
<1>6. /\ svc' \in [Guis -> SvcType] /\ svc'[g].at \in {"run", "callback"}
      /\ \A k \in Guis \ {g} : svc'[k] = svc[k]
  <2>1. PICK v \in {Idle, [Idle EXCEPT !.at = "callback", !.slot = svc[g].slot]} :
          svc' = [svc EXCEPT ![g] = v]
    BY <1>3
  <2>2. svc[g].slot \in Slots
    BY <1>1 DEF TypeOK, SvcType
  <2>3. v = Idle \/ v = [Idle EXCEPT !.at = "callback", !.slot = svc[g].slot]
    BY <2>1
  <2>4. v \in SvcType /\ v.at \in {"run", "callback"}
    <3>1. PICK w : w = Idle
      OBVIOUS
    <3>2. w \in SvcType /\ w.at = "run"
      BY <1>1, <3>1, IdleType
    <3>3. CASE v = Idle
      BY <3>1, <3>2, <3>3
    <3>4. CASE v = [w EXCEPT !.at = "callback", !.slot = svc[g].slot]
      BY <2>2, <3>2, <3>4 DEF SvcType
    <3> QED
      BY <2>3, <3>1, <3>3, <3>4
  <2> QED
    BY <1>1, <2>1, <2>4 DEF TypeOK, SvcType
<1>7. PassInv' /\ passed' \in [Slots -> Nat]
  BY <1>1, <1>3, <1>5, PassShrunk
<1>8. TypeOK'
  BY <1>1, <1>3, <1>5, <1>6, <1>7 DEF TypeOK, SvcType
<1>9. CountInv' /\ OneTimerPerId'
  BY <1>1, <1>3 DEF CountInv, OneTimerPerId, Set, Busy
<1>10. MaskInv'
  <2>1. ASSUME NEW k \in Guis, NEW s \in Slots
        PROVE  /\ s \in TimerMask'[k] => Set(s)' /\ timerstr'[s].hWnd = k
               /\ svc'[k].at \in {"zero", "load", "store"} /\ svc'[k].slot = s =>
                    Set(s)' /\ timerstr'[s].hWnd = k
    <3>1. /\ s \in TimerMask'[k] => s \in TimerMask[k]
          /\ svc'[k].at \in {"zero", "load", "store"} => k # g /\ svc'[k] = svc[k]
      BY <1>5, <1>6
    <3> QED
      BY <1>1, <1>3, <3>1 DEF MaskInv, BitsAreTimers, Set
  <2>2. BitsAreTimers'
    BY <2>1, Zenon DEF BitsAreTimers
  <2>3. ASSUME NEW k \in Guis, svc'[k].at = "store"
        PROVE  svc'[k].val \subseteq TimerMask'[k]
    <3>1. k # g /\ svc'[k] = svc[k]
      BY <1>6, <2>3
    <3> QED
      BY <1>1, <1>5, <2>3, <3>1 DEF MaskInv
  <2>4. dsk'.at = "store" =>
          /\ TimerMask'[timerstr'[dsk'.slot].hWnd] \subseteq dsk'.val
          /\ \A s \in dsk'.val : Set(s)' /\ timerstr'[s].hWnd = timerstr'[dsk'.slot].hWnd
    <3> SUFFICES ASSUME dsk.at = "store"
                 PROVE  /\ TimerMask'[timerstr[dsk.slot].hWnd] \subseteq dsk.val
                        /\ \A s \in dsk.val : Set(s)
                             /\ timerstr[s].hWnd = timerstr[dsk.slot].hWnd
      BY <1>3 DEF Set
    <3>1. timerstr[dsk.slot].hWnd \in Guis
      BY <1>1, Facts DEF CountInv, Timer
    <3> QED
      BY <1>1, <1>5, <3>1 DEF MaskInv
  <2> QED
    BY <2>2, <2>3, <2>4, Zenon DEF MaskInv
<1> QED
  BY <1>7, <1>8, <1>9, <1>10 DEF TimerInv

LEMMA ReturnStep ==
  ASSUME Keeps, TimerInv, NEW g \in Guis, NEW ret \in Returns, CallbackReturns(g, ret)
  PROVE  TimerInv'
<1>1. TypeOK /\ PassInv
  BY DEF TimerInv
<1>2. ret = TRUE
  BY DEF Keeps
<1>3. /\ svc' = [svc EXCEPT ![g] = Idle]
      /\ UNCHANGED <<timerstr, TimerMask, FirstTimerSlot, dsk, passed>>
  BY <1>2 DEF CallbackReturns
<1>4. Idle \in SvcType /\ Idle.at = "run"
  BY <1>1, IdleType
<1>5. FirstTimerSlot' \in [Guis -> Slots] /\ passed' \in [Slots -> Nat] /\ PassInv'
  BY <1>1, <1>3, PassKept DEF TypeOK
<1> QED
  BY <1>3, <1>4, <1>5, SvcStep

LEMMA TimerAlways == ASSUME Keeps PROVE Spec => []TimerInv
<1>1. TimerInv /\ [Next]_vars => TimerInv'
  <2> SUFFICES ASSUME TimerInv, [Next]_vars PROVE TimerInv'
    OBVIOUS
  <2>1. CASE Desktop
    BY <2>1, StartStep, CountStep, StampStep, LoadStep, StoreStep DEF Desktop
  <2>2. ASSUME NEW g \in Guis, Gui(g) PROVE TimerInv'
    <3>1. CASE \E id \in Ids, sp \in Speeds, p \in Procs :
                 SetTimerEx(g, id, sp, p) \/ ResetTimerEx(g, id, sp, p)
      BY <3>1, SetStep, ResetStep
    <3>2. CASE \E id \in Ids \cup {0} : KillTimer(g, id)
      BY <3>2, KillStep
    <3>3. CASE FindExpired(g) \/ ZeroTick(g) \/ LoadOwnMask(g) \/ StoreOwnMask(g)
      BY <3>3, FindStep, ZeroStep, OwnStep, OwnStoreStep
    <3>4. CASE \E ret \in Returns : CallbackReturns(g, ret)
      BY <3>4, ReturnStep
    <3> QED
      BY <2>2, <3>1, <3>2, <3>3, <3>4 DEF Gui
  <2>3. CASE UNCHANGED vars
    <3>1. TypeOK /\ CountInv /\ OneTimerPerId /\ MaskInv /\ PassInv
      BY DEF TimerInv
    <3>2. UNCHANGED <<timerstr, TimerMask, FirstTimerSlot, dsk, svc, passed>>
      BY <2>3 DEF vars
    <3>3. TypeOK' /\ CountInv' /\ OneTimerPerId'
      BY <3>1, <3>2 DEF TypeOK, CountInv, OneTimerPerId, Set, Busy
    <3>4. MaskInv'
      BY <3>1, <3>2, MaskKept DEF Set
    <3>5. PassInv'
      BY <3>1, <3>2, PassKept
    <3> QED
      BY <3>3, <3>4, <3>5 DEF TimerInv
  <2> QED
    BY <2>1, <2>2, <2>3 DEF Next
<1> QED
  BY <1>1, InitInv, PTL DEF Spec

\* The table, the masks and both threads' places in them keep their types.
THEOREM TypeCorrect == ASSUME Keeps PROVE Spec => []TypeOK
  BY TimerAlways, PTL DEF TimerInv

\* SetTimerEx finds a timer of the same window and id wherever it lies, also
\* after others were killed and their slots used again.
THEOREM OneTimerCorrect == ASSUME Keeps PROVE Spec => []OneTimerPerId
  BY TimerAlways, PTL DEF TimerInv

\* SetMsgQueueTimerFlag and PeekMessageEx, each a load and a store of TimerMask
\* with no lock in common, and KillTimer leave no bit that is not a timer of
\* the queue's own.
THEOREM BitsCorrect == ASSUME Keeps PROVE Spec => []BitsAreTimers
<1>1. TimerInv => BitsAreTimers
  BY DEF TimerInv, MaskInv
<1> QED
  BY <1>1, TimerAlways, PTL

\* DispatchTimerMessage takes a whole period off a count as often as the count
\* reaches it.
THEOREM CountsCorrect == ASSUME Keeps PROVE Spec => []CountsBelowSpeed
<1>1. TimerInv => CountsBelowSpeed
  <2> SUFFICES ASSUME TimerInv, NEW s \in Slots, Set(s)
               PROVE  timerstr[s].count <
                        timerstr[s].speed
                          + IF dsk.slot = s /\ dsk.at \in {"stamp", "load", "store"}
                              THEN 1 ELSE 0
    BY DEF CountsBelowSpeed
  <2>1. timerstr[s].count \in Nat /\ timerstr[s].speed \in Nat
    BY Facts, TimerConstants DEF TimerInv, Timer
  <2> QED
    BY <2>1 DEF TimerInv, CountInv, Busy
<1> QED
  BY <1>1, TimerAlways, PTL

\* The search of PeekMessageEx, one slot further every time, passes no expired
\* timer over as often as there are slots.
THEOREM NoStarvationCorrect == ASSUME Keeps PROVE Spec => []NoStarvation
<1>1. TimerInv => NoStarvation
  <2> SUFFICES ASSUME TimerInv, NEW s \in Slots PROVE passed[s] < NrTimers
    BY DEF NoStarvation
  <2>1. passed[s] \in Nat /\ NrTimers \in Nat \ {0}
    BY TimerConstants DEF TimerInv, TypeOK
  <2>2. CASE \E g \in Guis : s \in TimerMask[g]
    <3>1. PICK g \in Guis : s \in TimerMask[g]
      BY <2>2
    <3>2. passed[s] + Later(g, s) < NrTimers /\ Later(g, s) \in Slots
      BY <3>1, LaterProps DEF TimerInv, PassInv
    <3> QED
      BY <2>1, <3>2 DEF Slots
  <2>3. CASE \A g \in Guis : s \notin TimerMask[g]
    BY <2>1, <2>3 DEF TimerInv, PassInv
  <2> QED
    BY <2>2, <2>3
<1> QED
  BY <1>1, TimerAlways, PTL
=============================================================================
