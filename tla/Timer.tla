------------------------------- MODULE Timer --------------------------------
(***************************************************************************)
(* The timers of timer.c in MiniGUI-Threads and how PeekMessageEx          *)
(* (message.c) serves them.                                                *)
(*                                                                         *)
(* timerstr is a table of slots shared by all threads under TIMER_LOCK.    *)
(* The desktop thread walks it once per tick (DispatchTimerMessage) and    *)
(* sets the slot's bit in the TimerMask of the queue the timer belongs to. *)
(* The GUI thread that owns the queue finds the bit in PeekMessageEx, with *)
(* its queue locked and TIMER_LOCK not taken, and posts MSG_TIMER or calls *)
(* the timer's callback.  TimerMask and tick_count thus have two writers   *)
(* with no lock in common, and every access to them is a step of its own.  *)
(*                                                                         *)
(* A thread sets, resets and kills its own timers only, as window.h asks;  *)
(* a window is identified with its thread.                                 *)
(***************************************************************************)
EXTENDS Integers

CONSTANTS
  Guis,      \* the GUI threads that use timers
  Ids,       \* timer identifiers, positive
  Speeds,    \* periods, in ticks
  NrTimers,  \* DEF_NR_TIMERS
  Procs,     \* whether timers have callbacks: a subset of BOOLEAN
  Returns    \* what the callbacks return: a subset of BOOLEAN

ASSUME TimerConstants ==
  /\ NrTimers \in Nat \ {0}
  /\ Ids \subseteq Nat \ {0}
  /\ Speeds \subseteq Nat \ {0}
  /\ Procs \subseteq BOOLEAN /\ Returns \subseteq BOOLEAN

Slots == 0 .. NrTimers - 1

\* tick says whether tick_count is not 0.
Timer == [hWnd : Guis, id : Ids, speed : Speeds, count : Nat, tick : BOOLEAN,
          proc : BOOLEAN]
None  == [id |-> 0]      \* a NULL entry of timerstr

VARIABLES
  timerstr,          \* the table
  TimerMask,         \* the bits of each thread's queue
  FirstTimerSlot,    \* where each thread starts looking
  dsk,               \* the desktop thread inside DispatchTimerMessage
  svc,               \* each GUI thread inside PeekMessageEx
  passed             \* how often each slot has been passed over while its bit
                     \* was set (history)

vars == <<timerstr, TimerMask, FirstTimerSlot, dsk, svc, passed>>

Idle == [at |-> "run", slot |-> 0, tick |-> FALSE, val |-> {}, freed |-> FALSE]

Init ==
  /\ timerstr = [s \in Slots |-> None]
  /\ TimerMask = [g \in Guis |-> {}]
  /\ FirstTimerSlot = [g \in Guis |-> 0]
  /\ dsk = [at |-> "idle", slot |-> 0, val |-> {}]
  /\ svc = [g \in Guis |-> Idle]
  /\ passed = [s \in Slots |-> 0]

\* A slot whose bit has been cleared starts to count anew.
Recount == passed' = [s \in Slots |->
                        IF \E g \in Guis : s \in TimerMask'[g] THEN passed[s] ELSE 0]

Set(s)       == timerstr[s] # None
Is(s, g, id) == Set(s) /\ timerstr[s].hWnd = g /\ timerstr[s].id = id
-----------------------------------------------------------------------------
(* DispatchTimerMessage (1), in the desktop thread, holds TIMER_LOCK from  *)
(* its first slot to its last.                                             *)

TimerLockFree == dsk.at = "idle"

\* Fault: one slot too many is visited.
NextSlotPastEnd == IF dsk.slot = NrTimers
                     THEN [at |-> "idle", slot |-> 0, val |-> {}]
                     ELSE [at |-> "slot", slot |-> dsk.slot + 1, val |-> {}]

NextSlot == IF dsk.slot + 1 = NrTimers
              THEN [at |-> "idle", slot |-> 0, val |-> {}]
              ELSE [at |-> "slot", slot |-> dsk.slot + 1, val |-> {}]

DispatchTimerMessage ==
  /\ TimerLockFree
  /\ dsk' = [dsk EXCEPT !.at = "slot"]
  /\ UNCHANGED <<timerstr, TimerMask, FirstTimerSlot, svc, passed>>

\* count += 1; an expired timer's tick_count is looked at.
CountSlot ==
  /\ dsk.at = "slot"
  /\ IF ~Set(dsk.slot)
       THEN dsk' = NextSlot /\ UNCHANGED timerstr
       ELSE LET t == timerstr[dsk.slot] IN
              /\ timerstr' = [timerstr EXCEPT ![dsk.slot].count = @ + 1]
              /\ dsk' = IF t.count + 1 < t.speed THEN NextSlot
                        ELSE [dsk EXCEPT !.at = IF t.tick THEN "load"
                                                          ELSE "stamp"]
  /\ UNCHANGED <<TimerMask, FirstTimerSlot, svc, passed>>

\* tick_count = __mg_timer_counter.
StampTick ==
  /\ dsk.at = "stamp"
  /\ timerstr' = [timerstr EXCEPT ![dsk.slot].tick = TRUE]
  /\ dsk' = [dsk EXCEPT !.at = "load"]
  /\ UNCHANGED <<TimerMask, FirstTimerSlot, svc, passed>>

\* SetMsgQueueTimerFlag: TimerMask |= bit, a load and a store.
LoadMask ==
  /\ dsk.at = "load"
  /\ dsk' = [dsk EXCEPT !.at = "store",
                        !.val = TimerMask[timerstr[dsk.slot].hWnd]]
  /\ UNCHANGED <<timerstr, TimerMask, FirstTimerSlot, svc, passed>>

\* Fault: the whole period is not taken off the count.
StoreMaskKeepsCount ==
  /\ dsk.at = "store"
  /\ TimerMask' = [TimerMask EXCEPT ![timerstr[dsk.slot].hWnd] =
                     dsk.val \cup {dsk.slot}]
  /\ dsk' = NextSlot
  /\ UNCHANGED <<timerstr, FirstTimerSlot, svc, passed>>

\* The store, and count -= speed.
StoreMask ==
  /\ dsk.at = "store"
  /\ TimerMask' = [TimerMask EXCEPT ![timerstr[dsk.slot].hWnd] =
                     dsk.val \cup {dsk.slot}]
  /\ timerstr' = [timerstr EXCEPT ![dsk.slot].count =
                    @ - timerstr[dsk.slot].speed]
  /\ dsk' = NextSlot
  /\ UNCHANGED <<FirstTimerSlot, svc, passed>>
-----------------------------------------------------------------------------
(* The timer calls of a GUI thread, from its program or from a callback.   *)

InCode(g) == svc[g].at \in {"run", "callback"} /\ TimerLockFree

\* Fault: the first slot is taken without looking for the same timer.
SetTimerExBlind(g, id, speed, proc) ==
  /\ InCode(g)
  /\ \E s \in Slots :
       /\ ~Set(s) /\ \A r \in Slots : ~Set(r) => s <= r
       /\ timerstr' = [timerstr EXCEPT ![s] =
            [hWnd |-> g, id |-> id, speed |-> speed, count |-> 0,
             tick |-> FALSE, proc |-> proc]]
  /\ UNCHANGED <<TimerMask, FirstTimerSlot, dsk, svc, passed>>

\* The first free slot, unless the window has a timer of that id.
SetTimerEx(g, id, speed, proc) ==
  /\ InCode(g)
  /\ \A s \in Slots : ~Is(s, g, id)
  /\ \E s \in Slots :
       /\ ~Set(s) /\ \A r \in Slots : ~Set(r) => s <= r
       /\ timerstr' = [timerstr EXCEPT ![s] =
            [hWnd |-> g, id |-> id, speed |-> speed, count |-> 0,
             tick |-> FALSE, proc |-> proc]]
  /\ UNCHANGED <<TimerMask, FirstTimerSlot, dsk, svc, passed>>

\* The slots KillTimer (g, id) frees; id 0 stands for all of the window's.
Killed(g, id) ==
  {s \in Slots : Set(s) /\ timerstr[s].hWnd = g
                   /\ (id = 0 \/ timerstr[s].id = id)}

\* Fault: the bit of a killed timer stays in the mask.
KillTimerKeepsBit(g, id) ==
  /\ InCode(g) /\ Killed(g, id) # {}
  /\ timerstr' = [s \in Slots |-> IF s \in Killed(g, id) THEN None
                                                         ELSE timerstr[s]]
  /\ UNCHANGED <<TimerMask, FirstTimerSlot, dsk, svc, passed>>

\* A callback may kill the timer it was called for: "freed".
KillTimer(g, id) ==
  /\ InCode(g) /\ Killed(g, id) # {}
  /\ TimerMask' = [TimerMask EXCEPT ![g] = @ \ Killed(g, id)]
  /\ timerstr' = [s \in Slots |-> IF s \in Killed(g, id) THEN None
                                                         ELSE timerstr[s]]
  /\ svc' = [svc EXCEPT ![g].freed =
               svc[g].at = "callback"
                 /\ (@ \/ svc[g].slot \in Killed(g, id))]
  /\ Recount
  /\ UNCHANGED <<FirstTimerSlot, dsk>>

\* proc is kept (0xFFFFFFFF) or replaced.
ResetTimerEx(g, id, speed, proc) ==
  /\ InCode(g)
  /\ \E s \in Slots :
       /\ Is(s, g, id)
       /\ TimerMask' = [TimerMask EXCEPT ![g] = @ \ {s}]
       /\ timerstr' = [timerstr EXCEPT ![s].speed = speed, ![s].count = 0,
                                       ![s].proc = proc, ![s].tick = FALSE]
  /\ Recount
  /\ UNCHANGED <<FirstTimerSlot, dsk, svc>>
-----------------------------------------------------------------------------
(* PeekMessageEx of thread g, at its timers, with its queue locked.        *)

Later(g, s) == (s - FirstTimerSlot[g] + NrTimers) % NrTimers
Expired(g)  == CHOOSE s \in TimerMask[g] :
                 \A r \in TimerMask[g] : Later(g, s) <= Later(g, r)

\* Fault: the search always starts at slot 0.
RotateNever(g) == UNCHANGED FirstTimerSlot

Rotate(g) == FirstTimerSlot' = [FirstTimerSlot EXCEPT
                                  ![g] = (@ + 1) % NrTimers]

\* The first expired slot is found and its timer and tick_count are read; a
\* slot whose timer is gone is left as it is.
FindExpired(g) ==
  /\ svc[g].at = "run" /\ TimerMask[g] # {}
  /\ Rotate(g)
  /\ LET s == Expired(g) IN
       /\ svc' = IF Set(s)
                   THEN [svc EXCEPT ![g] = [Idle EXCEPT !.at = "zero", !.slot = s,
                                              !.tick = timerstr[s].tick]]
                   ELSE svc
       /\ passed' = [r \in Slots |-> IF r = s THEN 0
                                     ELSE IF r \in TimerMask[g] THEN passed[r] + 1
                                     ELSE passed[r]]
  /\ UNCHANGED <<timerstr, TimerMask, dsk>>

\* timer->tick_count = 0.
ZeroTick(g) ==
  /\ svc[g].at = "zero"
  /\ timerstr' = [timerstr EXCEPT ![svc[g].slot].tick = FALSE]
  /\ svc' = [svc EXCEPT ![g].at = "load"]
  /\ UNCHANGED <<TimerMask, FirstTimerSlot, dsk, passed>>

\* TimerMask &= ~bit, a load and a store.
LoadOwnMask(g) ==
  /\ svc[g].at = "load"
  /\ svc' = [svc EXCEPT ![g].at = "store", ![g].val = TimerMask[g]]
  /\ UNCHANGED <<timerstr, TimerMask, FirstTimerSlot, dsk, passed>>

\* After the store MSG_TIMER is returned or the callback is called.
StoreOwnMask(g) ==
  /\ svc[g].at = "store"
  /\ TimerMask' = [TimerMask EXCEPT ![g] = svc[g].val \ {svc[g].slot}]
  /\ svc' = [svc EXCEPT ![g] =
               IF timerstr[svc[g].slot].proc
                 THEN [Idle EXCEPT !.at = "callback", !.slot = svc[g].slot]
                 ELSE Idle]
  /\ Recount
  /\ UNCHANGED <<timerstr, FirstTimerSlot, dsk>>

\* The callback returns FALSE: __mg_remove_timer frees the timer and leaves
\* the mask alone.  If the callback has killed the timer, the test
\* timerstr[slot] == timer compares a freed pointer, and a timer set anew in
\* the slot may have the same address.
CallbackReturns(g, ret) ==
  /\ svc[g].at = "callback"
  /\ LET s == svc[g].slot IN
       IF ret
         THEN UNCHANGED timerstr
         ELSE /\ TimerLockFree
              /\ \/ timerstr' = [timerstr EXCEPT ![s] = None]
                 \/ svc[g].freed /\ UNCHANGED timerstr
  /\ svc' = [svc EXCEPT ![g] = Idle]
  /\ UNCHANGED <<TimerMask, FirstTimerSlot, dsk, passed>>

Desktop == DispatchTimerMessage \/ CountSlot \/ StampTick \/ LoadMask \/ StoreMask

Gui(g) ==
  \/ \E id \in Ids, sp \in Speeds, p \in Procs :
       SetTimerEx(g, id, sp, p) \/ ResetTimerEx(g, id, sp, p)
  \/ \E id \in Ids \cup {0} : KillTimer(g, id)
  \/ FindExpired(g) \/ ZeroTick(g) \/ LoadOwnMask(g) \/ StoreOwnMask(g)
  \/ \E ret \in Returns : CallbackReturns(g, ret)

Next == Desktop \/ \E g \in Guis : Gui(g)

Spec == Init /\ [][Next]_vars
-----------------------------------------------------------------------------
\* Type invariant of the table, the masks and the threads.
TypeOK ==
  /\ timerstr \in [Slots -> Timer \cup {None}]
  /\ TimerMask \in [Guis -> SUBSET Slots]
  /\ FirstTimerSlot \in [Guis -> Slots]
  /\ dsk \in [at : {"idle", "slot", "stamp", "load", "store"}, slot : Slots,
              val : SUBSET Slots]
  /\ svc \in [Guis -> [at : {"run", "zero", "load", "store", "callback"},
                       slot : Slots, tick : BOOLEAN, val : SUBSET Slots,
                       freed : BOOLEAN]]
  /\ passed \in [Slots -> Nat]

\* Between ticks no count has reached its period: an expiry is counted off
\* once and none is skipped, through every set, reset and reuse of a slot.
CountsBelowSpeed ==
  \A s \in Slots : Set(s) =>
    timerstr[s].count <
      timerstr[s].speed + IF dsk.slot = s /\ dsk.at \in {"stamp", "load", "store"}
                            THEN 1 ELSE 0

\* A window has at most one timer of an identifier.
OneTimerPerId ==
  \A s, r \in Slots :
    Set(s) /\ Set(r) /\ timerstr[s].hWnd = timerstr[r].hWnd
      /\ timerstr[s].id = timerstr[r].id => s = r

\* A bit in a queue's mask, also one in a value loaded from it, belongs to a
\* timer of that queue: no tick reaches the wrong thread, or a slot that has
\* been freed or given to another thread.
BitsAreTimers ==
  \A g \in Guis : \A s \in Slots :
    /\ s \in TimerMask[g] => Set(s) /\ timerstr[s].hWnd = g
    /\ svc[g].at \in {"zero", "load", "store"} /\ svc[g].slot = s =>
         Set(s) /\ timerstr[s].hWnd = g

\* The search that starts one slot further every time serves every expired
\* timer: none is passed over NrTimers times while its bit is set.
NoStarvation == \A s \in Slots : passed[s] < NrTimers
-----------------------------------------------------------------------------
(* Claims of the documentation and of comments that the code does not      *)
(* meet; README.md says on which instances TLC refutes them.               *)

\* A timer that has expired and has not been served has its bit in the mask,
\* unless one of the two threads is between its accesses.
ExpiryKept ==
  \A s \in Slots :
    Set(s) /\ timerstr[s].tick =>
      \/ s \in TimerMask[timerstr[s].hWnd]
      \/ dsk.slot = s /\ dsk.at \in {"load", "store"}

\* The tick count passed on with a timer is that of its expiry, never 0.
TickIsExpiry == \A g \in Guis : svc[g].at # "run" /\ svc[g].at # "callback" =>
                  svc[g].tick
=============================================================================
