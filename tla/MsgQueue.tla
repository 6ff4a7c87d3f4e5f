------------------------------ MODULE MsgQueue ------------------------------
(***************************************************************************)
(* The message queue of one MiniGUI-Threads GUI thread (message.c, with    *)
(* struct _MSGQUEUE, POST_MSGQ and the timer flags of internals.h).        *)
(*                                                                         *)
(* The owner is the GUI thread: it runs application code ("run"), calls    *)
(* GetMessage and its relatives, and dispatches what they return.  The     *)
(* other Threads post, notify, send synchronously, invalidate, tick timers *)
(* and post quits.                                                         *)
(*                                                                         *)
(* A section between LOCK_MSGQ and UNLOCK_MSGQ is one step.  What the code *)
(* does outside the lock is cut at every shared access: the window check   *)
(* of GetMsgQueue, the sem_getvalue and the sem_post of POST_MSGQ, and the *)
(* load and the store of the unlocked read-modify-writes of dwState,       *)
(* loop_depth and TimerMask (the section "Unlocked words" below).          *)
(*                                                                         *)
(* What the owner sends goes to the queue of another thread, which is not  *)
(* part of the state: it answers when it likes.  What such a send does to  *)
(* the owner's own queue while it waits is here.                           *)
(***************************************************************************)
EXTENDS Integers, Sequences, FiniteSets

CONSTANTS
  Threads,     \* the threads other than the owner
  Owner,       \* the thread the queue belongs to
  Nil,         \* NULL
  Wnds,        \* the windows of the owner's thread
  HWND_INVALID,
  Posts,       \* the messages the other threads post
  OwnPosts,    \* the messages the owner posts to itself
  Notifies,    \* the messages sent with SendNotifyMessage
  Syncs,       \* the messages sent with SendSyncMessage
  Paints,      \* the windows other threads invalidate
  Ticks,       \* the timer slots the desktop thread finds expired
  Quitters,    \* the threads that call PostQuitMessage
  BufLen,      \* msg_que->len
  NrTimers,    \* DEF_NR_TIMERS
  TimerWnd,    \* the window of the timer in each slot
  ProcSlots,   \* the slots whose timer has a callback
  Desktop,     \* TRUE for the queue of the desktop thread
  OwnCalls,    \* what application code on the owner's thread may call
  ProcCalls,   \* what the timer callbacks may call
  Filters,     \* the message filters of PeekMessage and PeekPostMessage
  MaxNotify,   \* bound on the length of the notification list
  MaxQuit,     \* bound on loop_depth
  MaxDepth     \* bound on the nesting of message handlers

Slots  == 0 .. NrTimers - 1
Cells  == 0 .. BufLen - 1
Flags  == {"SYNC", "NOTIFY", "POST", "QUIT", "PAINT"}
Actors == Threads \cup {Owner}

\* The messages QueueMessage compares with what is already queued.
MoveMsgs   == {"MSG_MOUSEMOVE", "MSG_NCMOUSEMOVE", "MSG_DT_MOUSEMOVE"}
LatestMsgs == {"MSG_TIMEOUT", "MSG_IDLE", "MSG_CARETBLINK"}

\* A MSG.  Msg(k, w) is a message whose parameters do not matter.
Msg(k, w)   == [message |-> k, hwnd |-> w, wParam |-> 0, lParam |-> 0]
NoMsg       == Msg("MSG_NULL", Nil)
TimerMsg(s) == [Msg("MSG_TIMER", TimerWnd[s]) EXCEPT !.wParam = s]
Canceled(m) == [m EXCEPT !.hwnd = HWND_INVALID]
Sent        == Posts \cup OwnPosts \cup Notifies \cup Syncs
Kinds       == {m.message : m \in Sent} \cup {"MSG_PAINT", "MSG_TIMER"}

\* Everything a MSG can hold.
Plain ==
  Sent \cup {NoMsg} \cup {TimerMsg(s) : s \in Slots}
    \cup {Msg(k, w) : k \in {"MSG_PAINT", "MSG_QUIT", "MSG_TIMER"}, w \in Wnds}
Message == Plain \cup {Canceled(m) : m \in Plain}

ASSUME ThreadsAssumption ==
  /\ IsFiniteSet(Threads)
  /\ Owner \notin Threads
  /\ Nil \notin Actors \cup Wnds
ASSUME SizesAssumption ==
  /\ BufLen \in Nat \ {0}
  /\ NrTimers \in Nat \ {0}
  /\ {MaxNotify, MaxQuit, MaxDepth} \subseteq Nat
ASSUME InputsAssumption ==
  /\ HWND_INVALID \notin Wnds
  /\ Paints \subseteq Wnds
  /\ Ticks \cup ProcSlots \subseteq Slots
  /\ Quitters \subseteq Actors
  /\ TimerWnd \in [Slots -> Wnds]
  /\ Desktop \in BOOLEAN
  /\ \A m \in Sent : /\ DOMAIN m = {"message", "hwnd", "wParam", "lParam"}
                     /\ m.hwnd \in Wnds
  /\ Filters \subseteq SUBSET Kinds

VARIABLES
  msg, readpos, writepos,    \* the ring of posted messages
  notify,                    \* the notification list, first to last
  pFirst, pLast, pNext,      \* the list of SYNCMSGs; a node is its sender
  dwState,                   \* the QS_ flags that are set
  TimerMask, FirstTimerSlot,
  loop_depth,
  wait,                      \* the value of the semaphore the owner sleeps on
  inv,                       \* the windows with a non-empty invalid region
  alive,                     \* the windows whose DataType is TYPE_HWND
  pc,                        \* where each of the Threads is
  req,                       \* the message of each thread's current call
  reply,                     \* the value of each sender's own semaphore
  rmw,                       \* each actor's unlocked read-modify-write
  opc,                       \* where the owner is
  peek,                      \* the arguments of the owner's PeekMessageEx
  stack,                     \* the messages the owner is handling
  victim                     \* the window ThrowAwayMessages is called for

ring    == <<msg, readpos, writepos>>
sync    == <<pFirst, pLast, pNext>>
timers  == <<TimerMask, FirstTimerSlot>>
content == <<ring, notify, sync, timers, inv>>
others  == <<pc, req, reply>>
owner   == <<opc, peek, stack, victim>>
vars    == <<content, dwState, loop_depth, wait, alive, others, rmw, owner>>

NoRmw == [word |-> "none", val |-> {}]
All   == [want |-> Kinds, bWait |-> TRUE, remove |-> TRUE]   \* GetMessage

\* InitMsgQueue.
Init ==
  /\ msg = [i \in Cells |-> NoMsg] /\ readpos = 0 /\ writepos = 0
  /\ notify = <<>>
  /\ pFirst = Nil /\ pLast = Nil /\ pNext = [t \in Threads |-> Nil]
  /\ dwState = {}
  /\ TimerMask = {} /\ FirstTimerSlot = 0
  /\ loop_depth = 0
  /\ wait = 0
  /\ inv = {}
  /\ alive = Wnds
  /\ pc = [t \in Threads |-> "idle"]
  /\ req = [t \in Threads |-> NoMsg]
  /\ reply = [t \in Threads |-> 0]
  /\ rmw = [a \in Actors |-> NoRmw]
  /\ opc = "run" /\ peek = All /\ stack = <<>> /\ victim = Nil
-----------------------------------------------------------------------------
(* Unlocked words.  PostQuitMessage updates loop_depth and dwState, the    *)
(* owner's SendSyncMessage clears QS_SYNCMSG in dwState, and               *)
(* SetMsgQueueTimerFlag updates TimerMask, without LOCK_MSGQ: a load and a *)
(* store with any step of the other threads between them.  A store that    *)
(* falls between the load and the store of a locked section on the same    *)
(* word is overwritten by it: the section marks it "lost" and the store,   *)
(* when its turn comes, changes nothing.                                   *)

Load(a, w, v) == rmw' = [rmw EXCEPT ![a] = [word |-> w, val |-> v]]
Loaded(a)     == rmw[a].word # "none"
Stored(a)     == rmw' = [rmw EXCEPT ![a] = NoRmw]
Kept(a)       == rmw[a].word # "lost"

\* A locked section updates the words ws.
Overtakes(ws) ==
  \E S \in SUBSET {a \in Actors : rmw[a].word \in ws} :
    rmw' = [a \in Actors |->
              IF a \in S THEN [word |-> "lost", val |-> {}] ELSE rmw[a]]

\* dwState |= fs inside the lock.
SetState(fs) == dwState' = dwState \cup fs /\ Overtakes({"dwState"})

\* dwState &= ~fs inside the lock, by a section that also updates the words
\* ws; dwState is written only when it has one of the flags.
ClearState(fs, ws) ==
  /\ dwState' = dwState \ fs
  /\ Overtakes(ws \cup IF fs \cap dwState = {} THEN {} ELSE {"dwState"})
-----------------------------------------------------------------------------
(* QueueMessage: the ring between readpos and writepos.                    *)

Dist(i) == (i - readpos + BufLen) % BufLen
Used    == (writepos - readpos + BufLen) % BufLen
Live    == {i \in Cells : Dist(i) < Used}
Full    == (writepos + 1) % BufLen = readpos

\* Fault: mouse moves are compared by message only.
SameCoarse(m) ==
  {i \in Live : m.message \in MoveMsgs \cup LatestMsgs
                  /\ msg[i].message = m.message}

\* The queued messages that m duplicates.
Same(m) ==
  {i \in Live :
     /\ msg[i].message = m.message /\ msg[i].hwnd = m.hwnd
     /\ \/ m.message \in MoveMsgs /\ msg[i].wParam = m.wParam
        \/ m.message \in LatestMsgs}

\* The duplicate m replaces: the last mouse move, the first of the others.
Replaced(m) ==
  {i \in Same(m) : \A j \in Same(m) :
     IF m.message \in MoveMsgs THEN Dist(j) <= Dist(i) ELSE Dist(i) <= Dist(j)}

\* Fault: a duplicate is appended like any other message.
EnqueueTwice(m) ==
  /\ ~Full
  /\ msg' = [msg EXCEPT ![writepos] = m]
  /\ writepos' = (writepos + 1) % BufLen
  /\ UNCHANGED readpos
  /\ SetState({"POST"})

\* The locked part of QueueMessage when it returns TRUE.
Enqueue(m) ==
  /\ \/ \E i \in Replaced(m) :
          /\ msg' = [msg EXCEPT ![i] = m]
          /\ UNCHANGED <<readpos, writepos>>
     \/ /\ Same(m) = {} /\ ~Full
        /\ msg' = [msg EXCEPT ![writepos] = m]
        /\ writepos' = (writepos + 1) % BufLen
        /\ UNCHANGED readpos
  /\ SetState({"POST"})

Rejects(m) == Same(m) = {} /\ Full

-----------------------------------------------------------------------------
(* The other threads.                                                      *)

Goto(t, p) == pc' = [pc EXCEPT ![t] = p]

\* Back to the caller: the call's message, on its stack, is gone.
Leave(t) == Goto(t, "idle") /\ req' = [req EXCEPT ![t] = NoMsg]

\* The part of a call before the lock: GetMsgQueue accepts the window.
Begin(t, p, m) ==
  /\ pc[t] = "idle"
  /\ Goto(t, p) /\ req' = [req EXCEPT ![t] = m]
  /\ UNCHANGED <<content, dwState, loop_depth, wait, alive, reply, rmw, owner>>

PostMessage(t) ==
  \E m \in Posts : m.hwnd \in alive /\ Begin(t, "queue", m)
SendNotifyMessage(t) ==
  \E m \in Notifies : m.hwnd \in alive /\ Begin(t, "notify", m)
SendSyncMessage(t) ==
  \E m \in Syncs : m.hwnd \in alive /\ Begin(t, "sync", m)
InvalidateRect(t) ==
  \E w \in Paints \cap alive : Begin(t, "inval", Msg("MSG_PAINT", w))
\* PostQuitMessage accepts a window that is being deleted, too.
PostQuitMessage(t) ==
  t \in Quitters /\ \E w \in Wnds : Begin(t, "quit", Msg("MSG_QUIT", w))
\* DispatchTimerMessage, which holds TIMER_LOCK, found the timer of slot s
\* expired.
TimerExpires(t) ==
  /\ \A u \in Threads : pc[u] # "tick"
  /\ \E s \in Ticks : TimerWnd[s] \in alive /\ Begin(t, "tick", TimerMsg(s))

\* Fault: the owner is not signalled.
QueueMessageNoSignal(t) ==
  /\ pc[t] = "queue"
  /\ \/ Enqueue(req[t]) /\ Leave(t)
     \/ Rejects(req[t]) /\ Leave(t) /\ UNCHANGED <<ring, dwState, rmw>>
  /\ UNCHANGED <<notify, sync, timers, inv, loop_depth, wait, alive, reply,
                 owner>>

QueueMessage(t) ==
  /\ pc[t] = "queue"
  /\ \/ Enqueue(req[t]) /\ Goto(t, "sig") /\ UNCHANGED req
     \/ Rejects(req[t]) /\ Leave(t) /\ UNCHANGED <<ring, dwState, rmw>>
  /\ UNCHANGED <<notify, sync, timers, inv, loop_depth, wait, alive, reply,
                 owner>>

AppendNotify(m) == notify' = Append(notify, m) /\ SetState({"NOTIFY"})

QueueNotify(t) ==
  /\ pc[t] = "notify"
  /\ Len(notify) < MaxNotify
  /\ AppendNotify(req[t])
  /\ Goto(t, "sig")
  /\ UNCHANGED <<ring, sync, timers, inv, loop_depth, wait, alive, req, reply,
                 owner>>

\* Fault: the tail pointer does not follow a message put behind another.
QueueSyncOldTail(t) ==
  /\ pc[t] = "sync"
  /\ IF pFirst = Nil
       THEN /\ pFirst' = t /\ pLast' = t
            /\ pNext' = [pNext EXCEPT ![t] = Nil]
       ELSE /\ pNext' = [pNext EXCEPT ![t] = Nil, ![pLast] = t]
            /\ UNCHANGED <<pFirst, pLast>>
  /\ SetState({"SYNC"})
  /\ Goto(t, "ssig")
  /\ UNCHANGED <<ring, notify, timers, inv, loop_depth, wait, alive, req,
                 reply, owner>>

\* The locked part of SendSyncMessage by a thread with no queue of its own:
\* the SYNCMSG on the sender's stack goes to the end of the list.
QueueSync(t) ==
  /\ pc[t] = "sync"
  /\ IF pFirst = Nil
       THEN /\ pFirst' = t
            /\ pNext' = [pNext EXCEPT ![t] = Nil]
       ELSE /\ pNext' = [pNext EXCEPT ![t] = Nil, ![pLast] = t]
            /\ UNCHANGED pFirst
  /\ pLast' = t
  /\ SetState({"SYNC"})
  /\ Goto(t, "ssig")
  /\ UNCHANGED <<ring, notify, timers, inv, loop_depth, wait, alive, req,
                 reply, owner>>

\* InvalidateRect adds to the region under the region's own lock, unless the
\* rectangle misses the client area or BeginPaint has frozen the region ...
AddInvalid(t) ==
  /\ pc[t] = "inval"
  /\ inv' \in {inv, inv \cup {req[t].hwnd}}
  /\ Goto(t, "getq")
  /\ UNCHANGED <<ring, notify, sync, timers, dwState, loop_depth, wait, alive,
                 req, reply, rmw, owner>>

\* ... and then posts MSG_PAINT, which looks the window up again ...
PostPaint(t) ==
  /\ pc[t] = "getq"
  /\ IF req[t].hwnd \in alive THEN Goto(t, "paint") /\ UNCHANGED req
                              ELSE Leave(t)
  /\ UNCHANGED <<content, dwState, loop_depth, wait, alive, reply, rmw, owner>>

\* Fault: the owner is not signalled.
QueuePaintQuietly(t) ==
  /\ pc[t] = "paint"
  /\ SetState({"PAINT"})
  /\ Leave(t)
  /\ UNCHANGED <<content, loop_depth, wait, alive, reply, owner>>

\* ... and sets QS_PAINT under the lock.
QueuePaint(t) ==
  /\ pc[t] = "paint"
  /\ SetState({"PAINT"})
  /\ Goto(t, "sig")
  /\ UNCHANGED <<content, loop_depth, wait, alive, req, reply, owner>>

\* PostQuitMessage, by actor a: loop_depth ++, then dwState |= QS_QUIT.
LoadDepth(a) ==
  /\ ~Loaded(a) /\ loop_depth < MaxQuit
  /\ Load(a, "loop_depth", {loop_depth})
  /\ UNCHANGED <<loop_depth, dwState>>
StoreDepth(a) ==
  /\ Loaded(a) /\ Stored(a)
  /\ IF Kept(a) THEN loop_depth' = 1 + CHOOSE n \in rmw[a].val : TRUE
                ELSE UNCHANGED loop_depth
  /\ UNCHANGED dwState
LoadState(a) ==
  /\ ~Loaded(a)
  /\ Load(a, "dwState", dwState)
  /\ UNCHANGED <<loop_depth, dwState>>
StoreState(a) ==
  /\ Loaded(a) /\ Stored(a)
  /\ IF Kept(a) THEN dwState' = rmw[a].val \cup {"QUIT"}
                ELSE UNCHANGED dwState
  /\ UNCHANGED loop_depth

Quit(t) ==
  /\ \/ pc[t] = "quit"  /\ LoadDepth(t) /\ UNCHANGED pc
     \/ pc[t] = "quit"  /\ StoreDepth(t) /\ Goto(t, "quit2")
     \/ pc[t] = "quit2" /\ LoadState(t) /\ UNCHANGED pc
     \/ pc[t] = "quit2" /\ StoreState(t) /\ Goto(t, "sig")
  /\ UNCHANGED <<content, wait, alive, req, reply, owner>>

\* SetMsgQueueTimerFlag; for the desktop's queue AlertDesktopTimerEvent,
\* which stores 1 whatever the mask is.
SetTimerFlag(t) ==
  /\ pc[t] = "tick"
  /\ \/ /\ ~Desktop /\ ~Loaded(t)
        /\ Load(t, "TimerMask", TimerMask)
        /\ UNCHANGED <<TimerMask, pc>>
     \/ /\ ~Desktop /\ Loaded(t) /\ Stored(t)
        /\ TimerMask' = IF Kept(t) THEN rmw[t].val \cup {req[t].wParam}
                                   ELSE TimerMask
        /\ Goto(t, "sig")
     \/ /\ Desktop
        /\ TimerMask' = {0}
        /\ Goto(t, "sig") /\ UNCHANGED rmw
  /\ UNCHANGED <<ring, notify, sync, FirstTimerSlot, inv, dwState, loop_depth,
                 wait, alive, req, reply, owner>>

\* A sender goes on to wait for its answer, the others return.
Signalled(t) ==
  IF pc[t] \in {"ssig", "spost"} THEN Goto(t, "reply") /\ UNCHANGED req
                                 ELSE Leave(t)

\* Fault: POST_MSGQ posts without looking at the value.
GetValueIgnored(t) ==
  /\ pc[t] \in {"sig", "ssig"}
  /\ Goto(t, IF pc[t] = "sig" THEN "post" ELSE "spost")
  /\ UNCHANGED <<content, dwState, loop_depth, wait, alive, req, reply, rmw,
                 owner>>

\* POST_MSGQ: sem_getvalue, and sem_post if the value was 0.
GetValue(t) ==
  /\ pc[t] \in {"sig", "ssig"}
  /\ IF wait = 0
       THEN Goto(t, IF pc[t] = "sig" THEN "post" ELSE "spost") /\ UNCHANGED req
       ELSE Signalled(t)
  /\ UNCHANGED <<content, dwState, loop_depth, wait, alive, reply, rmw, owner>>

\* Fault: the semaphore is not posted.
SemPostLost(t) ==
  /\ pc[t] \in {"post", "spost"}
  /\ Signalled(t)
  /\ UNCHANGED <<content, dwState, loop_depth, wait, alive, reply, rmw, owner>>

SemPost(t) ==
  /\ pc[t] \in {"post", "spost"}
  /\ wait' = wait + 1
  /\ Signalled(t)
  /\ UNCHANGED <<content, dwState, loop_depth, alive, reply, rmw, owner>>

\* The sender's sem_wait returns; it destroys its semaphore and its SYNCMSG.
Answered(t) ==
  /\ pc[t] = "reply" /\ reply[t] > 0
  /\ reply' = [reply EXCEPT ![t] = 0]
  /\ Leave(t)
  /\ UNCHANGED <<content, dwState, loop_depth, wait, alive, rmw, owner>>

Proceeds(t) ==
  \/ QueueMessage(t) \/ QueueNotify(t) \/ QueueSync(t) \/ AddInvalid(t)
  \/ PostPaint(t) \/ QueuePaint(t) \/ Quit(t) \/ SetTimerFlag(t)
  \/ GetValue(t) \/ SemPost(t) \/ Answered(t)

Calls(t) ==
  \/ PostMessage(t) \/ SendNotifyMessage(t) \/ SendSyncMessage(t)
  \/ InvalidateRect(t) \/ PostQuitMessage(t) \/ TimerExpires(t)
-----------------------------------------------------------------------------
(* The owner: PeekMessageEx.  One locked section looks at QUIT, the sync   *)
(* list, the notifications, the ring, the invalid windows and the timers,  *)
(* in this order, and clears the flag of a class it finds empty on its     *)
(* way.  Each of the Peek actions below is the section for the class that  *)
(* it returns from.                                                        *)

\* IS_MSG_WANTED; all of Kinds stands for the filter 0, 0.
Wanted(k) == peek.want = Kinds \/ k \in peek.want

\* The windows msgCheckHostedTree finds.
Unpainted == inv \cap alive

HasSync   == "SYNC" \in dwState /\ pFirst # Nil
HasNotify == "NOTIFY" \in dwState /\ notify # <<>>
HasPost   == "POST" \in dwState /\ readpos # writepos

SyncHit   == HasSync /\ Wanted(req[pFirst].message)
NotifyHit == HasNotify /\ Wanted(Head(notify).message)
PostHit   == HasPost /\ Wanted(msg[readpos].message)
PaintHit  == "PAINT" \in dwState /\ Wanted("MSG_PAINT")
                 /\ (Desktop \/ Unpainted # {})
TimerHit  == TimerMask # {} /\ Wanted("MSG_TIMER")

\* The flags cleared by the time each class has been passed over.
PastSync   == IF pFirst = Nil THEN {"SYNC"} ELSE {}
PastNotify == PastSync \cup IF notify = <<>> THEN {"NOTIFY"} ELSE {}

\* Fault: a message that is not wanted takes its flag with it.
PastPostUnwanted == PastNotify \cup IF PostHit THEN {} ELSE {"POST"}

PastPost   == PastNotify \cup IF readpos = writepos THEN {"POST"} ELSE {}

PastPaint ==
  PastPost \cup IF Wanted("MSG_PAINT") /\ ~Desktop /\ Unpainted = {}
                  THEN {"PAINT"} ELSE {}

Post(S) == reply' = [t \in Threads |-> reply[t] + IF t \in S THEN 1 ELSE 0]

\* DispatchMessage of a message PeekMessageEx removed and returned: one that
\* was thrown away is answered at once, the others go to their handler.
Dispatch(m, from) ==
  /\ opc' = "run"
  /\ IF peek.remove /\ m.hwnd # HWND_INVALID
       THEN stack' = Append(stack, [m |-> m, from |-> from])
       ELSE UNCHANGED stack
  /\ IF peek.remove /\ m.hwnd = HWND_INVALID /\ from # Nil
       THEN Post({from}) ELSE UNCHANGED reply
  /\ UNCHANGED <<peek, victim>>

\* Fault: a quit takes QS_QUIT with it even if an outer loop is to end, too.
PeekQuitClears ==
  /\ opc = "check" /\ "QUIT" \in dwState
  /\ IF peek.remove
       THEN /\ loop_depth' = loop_depth - 1
            /\ dwState' = dwState \ {"QUIT"}
            /\ Overtakes({"loop_depth", "dwState"})
       ELSE UNCHANGED <<loop_depth, dwState, rmw>>
  /\ opc' = "run"
  /\ UNCHANGED <<content, wait, alive, others, peek, stack, victim>>

\* PeekMessageEx returns FALSE: the message loop that called it ends.
PeekQuit ==
  /\ opc = "check" /\ "QUIT" \in dwState
  /\ IF peek.remove
       THEN /\ loop_depth' = loop_depth - 1
            /\ dwState' = IF loop_depth = 1 THEN dwState \ {"QUIT"} ELSE dwState
            /\ Overtakes({"loop_depth"}
                 \cup IF loop_depth = 1 THEN {"dwState"} ELSE {})
       ELSE UNCHANGED <<loop_depth, dwState, rmw>>
  /\ opc' = "run"
  /\ UNCHANGED <<content, wait, alive, others, peek, stack, victim>>

\* Fault: the first message of the list is returned but stays linked.
PeekSyncKeeps ==
  /\ opc = "check" /\ "QUIT" \notin dwState /\ SyncHit
  /\ Dispatch(req[pFirst], pFirst)
  /\ UNCHANGED <<content, dwState, loop_depth, wait, alive, pc, req, rmw>>

PeekSync ==
  /\ opc = "check" /\ "QUIT" \notin dwState /\ SyncHit
  /\ pFirst' = IF peek.remove THEN pNext[pFirst] ELSE pFirst
  /\ Dispatch(req[pFirst], pFirst)
  /\ UNCHANGED <<ring, notify, pLast, pNext, timers, inv, dwState, loop_depth,
                 wait, alive, pc, req, rmw>>

PeekNotify ==
  /\ opc = "check" /\ "QUIT" \notin dwState /\ ~SyncHit /\ NotifyHit
  /\ ClearState(PastSync, {})
  /\ notify' = IF peek.remove THEN Tail(notify) ELSE notify
  /\ Dispatch(Head(notify), Nil)
  /\ UNCHANGED <<ring, sync, timers, inv, loop_depth, wait, alive, pc, req>>

\* Fault: readpos is not wrapped.
PeekPostPastEnd ==
  /\ opc = "check" /\ "QUIT" \notin dwState
  /\ ~SyncHit /\ ~NotifyHit /\ PostHit
  /\ ClearState(PastNotify, {})
  /\ readpos' = IF peek.remove THEN readpos + 1 ELSE readpos
  /\ Dispatch(msg[readpos], Nil)
  /\ UNCHANGED <<msg, writepos, notify, sync, timers, inv, loop_depth, wait,
                 alive, pc, req>>

PeekPost ==
  /\ opc = "check" /\ "QUIT" \notin dwState
  /\ ~SyncHit /\ ~NotifyHit /\ PostHit
  /\ ClearState(PastNotify, {})
  /\ readpos' = IF peek.remove THEN (readpos + 1) % BufLen ELSE readpos
  /\ Dispatch(msg[readpos], Nil)
  /\ UNCHANGED <<msg, writepos, notify, sync, timers, inv, loop_depth, wait,
                 alive, pc, req>>

\* Fault: the flag goes with the message in every thread.
PeekPaintClears ==
  /\ opc = "check" /\ "QUIT" \notin dwState
  /\ ~SyncHit /\ ~NotifyHit /\ ~PostHit /\ PaintHit
  /\ ClearState(PastPost \cup {"PAINT"}, {})
  /\ \E w \in Unpainted : Dispatch(Msg("MSG_PAINT", w), Nil)
  /\ UNCHANGED <<content, loop_depth, wait, alive, pc, req>>

\* MSG_PAINT for an invalid window; the flag stays.  The desktop thread gets
\* one MSG_PAINT for all and the flag goes with it.
PeekPaint ==
  /\ opc = "check" /\ "QUIT" \notin dwState
  /\ ~SyncHit /\ ~NotifyHit /\ ~PostHit /\ PaintHit
  /\ ClearState(PastPost \cup IF Desktop /\ peek.remove THEN {"PAINT"} ELSE {}, {})
  /\ \E w \in IF Desktop THEN Wnds ELSE Unpainted :
       Dispatch(Msg("MSG_PAINT", w), Nil)
  /\ UNCHANGED <<content, loop_depth, wait, alive, pc, req>>

NoHitBeforeTimers ==
  "QUIT" \notin dwState /\ ~SyncHit /\ ~NotifyHit /\ ~PostHit /\ ~PaintHit

\* s is the first expired slot, looking round from FirstTimerSlot.
After(s)   == (s - FirstTimerSlot + NrTimers) % NrTimers
Expired(s) == s \in TimerMask /\ \A r \in TimerMask : After(s) <= After(r)

\* A timer with a message: its bit goes whether or not PM_REMOVE is given.
PeekTimer ==
  /\ opc = "check" /\ NoHitBeforeTimers /\ TimerHit
  /\ ClearState(PastPaint, IF Desktop THEN {} ELSE {"TimerMask"})
  /\ \/ /\ Desktop
        /\ TimerMask' = IF peek.remove THEN {} ELSE TimerMask
        /\ \E w \in Wnds : Dispatch(Msg("MSG_TIMER", w), Nil)
        /\ UNCHANGED FirstTimerSlot
     \/ /\ ~Desktop
        /\ \E s \in Slots \ ProcSlots :
             /\ Expired(s)
             /\ TimerMask' = TimerMask \ {s}
             /\ Dispatch(TimerMsg(s), Nil)
        /\ FirstTimerSlot' = (FirstTimerSlot + 1) % NrTimers
  /\ UNCHANGED <<ring, notify, sync, inv, loop_depth, wait, alive, pc, req>>

\* A timer with a callback: it is called with the queue unlocked.
PeekTimerProc ==
  /\ opc = "check" /\ NoHitBeforeTimers /\ TimerHit
  /\ ~Desktop
  /\ ClearState(PastPaint, {"TimerMask"})
  /\ \E s \in ProcSlots : Expired(s) /\ TimerMask' = TimerMask \ {s}
  /\ FirstTimerSlot' = (FirstTimerSlot + 1) % NrTimers
  /\ opc' = "callback"
  /\ UNCHANGED <<ring, notify, sync, inv, loop_depth, wait, alive, others, peek,
                 stack, victim>>

\* Neither a message nor a timer message: sleep, or return FALSE.
NoMessage == opc' = IF peek.bWait THEN "wait" ELSE "run"

\* After the callback PeekMessageEx does not look at the queue again.
CallbackReturns ==
  /\ opc = "callback"
  /\ NoMessage
  /\ UNCHANGED <<content, dwState, loop_depth, wait, alive, others, rmw, peek,
                 stack, victim>>

PeekNothing ==
  /\ opc = "check" /\ NoHitBeforeTimers /\ ~TimerHit
  /\ ClearState(PastPaint, {})
  /\ NoMessage
  /\ UNCHANGED <<content, loop_depth, wait, alive, others, peek, stack, victim>>

\* What HavePendingMessage returns; WaitMessage makes the same test.
HavePendingMessage ==
  HasSync \/ HasNotify \/ HasPost \/ {"QUIT", "PAINT"} \cap dwState # {}
    \/ TimerMask # {}

WaitMessageCheck ==
  /\ opc = "wcheck"
  /\ opc' = IF HavePendingMessage THEN "run" ELSE "wwait"
  /\ UNCHANGED <<content, dwState, loop_depth, wait, alive, others, rmw, peek,
                 stack, victim>>

\* sem_wait returns and the check is made again.
Wake ==
  /\ opc \in {"wait", "wwait"} /\ wait > 0
  /\ wait' = wait - 1
  /\ opc' = IF opc = "wait" THEN "check" ELSE "wcheck"
  /\ UNCHANGED <<content, dwState, loop_depth, alive, others, rmw, peek, stack,
                 victim>>
-----------------------------------------------------------------------------
(* The owner: application code.                                            *)

May(call)       == opc = "run" /\ call \in OwnCalls
MayInProc(call) == opc = "callback" /\ call \in ProcCalls

CallPeek(args, at) ==
  /\ Len(stack) < MaxDepth
  /\ peek' = args /\ opc' = at
  /\ UNCHANGED <<content, dwState, loop_depth, wait, alive, others, rmw, stack,
                 victim>>

GetMessage  == opc = "run" /\ CallPeek(All, "check")
WaitMessage == May("WaitMessage") /\ CallPeek(All, "wcheck")
PeekMessage ==
  /\ May("PeekMessage")
  /\ \E f \in Filters, r \in BOOLEAN :
       CallPeek([want |-> f, bWait |-> FALSE, remove |-> r], "check")

\* PeekPostMessage with PM_REMOVE; what it returns is dispatched.
PeekPostMessage ==
  /\ May("PeekPostMessage") /\ HasPost /\ Len(stack) < MaxDepth
  /\ \E f \in Filters : msg[readpos].message \in f
  /\ readpos' = (readpos + 1) % BufLen
  /\ stack' = IF msg[readpos].hwnd = HWND_INVALID THEN stack
                ELSE Append(stack, [m |-> msg[readpos], from |-> Nil])
  /\ UNCHANGED <<msg, writepos, notify, sync, timers, inv, dwState, loop_depth,
                 wait, alive, others, rmw, opc, peek, victim>>

\* A send of the owner that waits is a frame of its stack.
SendFrame == [m |-> NoMsg, from |-> Owner]
SendOnTop == stack # <<>> /\ stack[Len(stack)].from = Owner

\* Fault: the sender of a synchronous message is not answered.
HandlerReturnsSilently ==
  /\ opc = "run" /\ stack # <<>>
  /\ stack' = SubSeq(stack, 1, Len(stack) - 1)
  /\ opc' = IF SendOnTop' THEN "drain" ELSE "run"
  /\ UNCHANGED <<content, dwState, loop_depth, wait, alive, others, rmw, peek,
                 victim>>

\* The window procedure returns to DispatchMessage, which answers the sender
\* of a synchronous message, and that to the message loop or to the send it
\* was called from.
HandlerReturns ==
  /\ opc = "run" /\ stack # <<>>
  /\ LET from == stack[Len(stack)].from IN
       IF from = Nil THEN UNCHANGED reply ELSE Post({from})
  /\ stack' = SubSeq(stack, 1, Len(stack) - 1)
  /\ opc' = IF SendOnTop' THEN "drain" ELSE "run"
  /\ UNCHANGED <<content, dwState, loop_depth, wait, alive, pc, req, rmw, peek,
                 victim>>

\* SendSyncMessage to a window of another GUI thread, from the main program
\* or a handler.
OwnSend ==
  /\ May("SendSyncMessage") /\ Len(stack) + 1 < MaxDepth
  /\ stack' = Append(stack, SendFrame)
  /\ opc' = "drain"
  /\ UNCHANGED <<content, dwState, loop_depth, wait, alive, others, rmw, peek,
                 victim>>

\* Before it sleeps it handles the messages sent to itself, one by one ...
DrainTake ==
  /\ opc = "drain" /\ HasSync
  /\ pFirst' = pNext[pFirst]
  /\ LET m == req[pFirst] IN
       \/ /\ m.hwnd = HWND_INVALID
          /\ Post({pFirst})
          /\ UNCHANGED <<opc, stack>>
       \/ /\ m.hwnd # HWND_INVALID
          /\ stack' = Append(stack, [m |-> m, from |-> pFirst])
          /\ opc' = "run"
          /\ UNCHANGED reply
  /\ UNCHANGED <<ring, notify, pLast, pNext, timers, inv, dwState, loop_depth,
                 wait, alive, pc, req, rmw, peek, victim>>

\* ... until it finds the flag down or the list empty.
DrainEnds ==
  /\ opc = "drain" /\ ~HasSync
  /\ opc' = IF "SYNC" \in dwState THEN "unflag" ELSE "answer"
  /\ UNCHANGED <<content, dwState, loop_depth, wait, alive, others, rmw, peek,
                 stack, victim>>

\* dwState &= ~QS_SYNCMSG, after the unlock.
DrainClear ==
  /\ opc = "unflag"
  /\ \/ LoadState(Owner) /\ UNCHANGED opc
     \/ /\ Loaded(Owner) /\ Stored(Owner)
        /\ dwState' = IF Kept(Owner) THEN rmw[Owner].val \ {"SYNC"} ELSE dwState
        /\ opc' = "answer"
        /\ UNCHANGED loop_depth
  /\ UNCHANGED <<content, wait, alive, others, peek, stack, victim>>

\* The thread the message was sent to has answered.
OwnAnswered ==
  /\ opc = "answer" /\ SendOnTop
  /\ stack' = SubSeq(stack, 1, Len(stack) - 1)
  /\ opc' = "run"
  /\ UNCHANGED <<content, dwState, loop_depth, wait, alive, others, rmw, peek,
                 victim>>

\* The handler of MSG_PAINT calls BeginPaint, which empties the window's
\* invalid region under the region's lock.
BeginPaint ==
  /\ opc = "run" /\ stack # <<>>
  /\ LET m == stack[Len(stack)].m IN
       m.message = "MSG_PAINT" /\ inv' = inv \ {m.hwnd}
  /\ UNCHANGED <<ring, notify, sync, timers, dwState, loop_depth, wait, alive,
                 others, rmw, owner>>

\* PostMessage to an own window, from a handler, the main program or a timer
\* callback: no POST_MSGQ.
OwnPost ==
  /\ opc = "run" \/ MayInProc("PostMessage")
  /\ \E m \in OwnPosts :
       /\ m.hwnd \in alive
       /\ Enqueue(m)
  /\ UNCHANGED <<notify, sync, timers, inv, loop_depth, wait, alive, others,
                 owner>>

OwnNotify ==
  /\ May("SendNotifyMessage") \/ MayInProc("SendNotifyMessage")
  /\ Len(notify) < MaxNotify
  /\ \E m \in Notifies : m.hwnd \in alive /\ AppendNotify(m)
  /\ UNCHANGED <<ring, sync, timers, inv, loop_depth, wait, alive, others,
                 owner>>

\* InvalidateRect on an own window.
OwnInvalidate ==
  /\ May("InvalidateRect") \/ MayInProc("InvalidateRect")
  /\ \E w \in alive : inv' \in {inv, inv \cup {w}}
  /\ SetState({"PAINT"})
  /\ UNCHANGED <<ring, notify, sync, timers, loop_depth, wait, alive, others,
                 owner>>

\* UpdateWindow on an own window: InvalidateRect, which sets QS_PAINT, and
\* then the MSG_PAINT handler called at once, which calls BeginPaint.
UpdateWindow ==
  /\ May("UpdateWindow")
  /\ \E w \in alive : inv' = inv \ {w}
  /\ SetState({"PAINT"})
  /\ UNCHANGED <<ring, notify, sync, timers, loop_depth, wait, alive, others,
                 owner>>

\* PostQuitMessage by the owner itself.
OwnQuit ==
  /\ Owner \in Quitters
  /\ \/ opc = "run"   /\ LoadDepth(Owner)  /\ opc' = "quit"
     \/ opc = "quit"  /\ StoreDepth(Owner) /\ opc' = "quit2"
     \/ opc = "quit2" /\ LoadState(Owner)  /\ UNCHANGED opc
     \/ opc = "quit2" /\ StoreState(Owner) /\ opc' = "run"
  /\ UNCHANGED <<content, wait, alive, others, peek, stack, victim>>

\* DestroyMainWindow: KillTimer, under TIMER_LOCK, ends the window's timers,
\* the window becomes invalid for PostMessage and its like, and then its
\* messages are thrown away.  (What it sends to the desktop's thread on the
\* way is an OwnSend before it.)
DestroyMainWindow ==
  /\ May("DestroyMainWindow")
  /\ \A u \in Threads : pc[u] # "tick"
  /\ \E w \in alive :
       /\ TimerMask' = {s \in TimerMask : TimerWnd[s] # w}
       /\ alive' = alive \ {w}
       /\ victim' = w
  /\ opc' = "throw"
  /\ UNCHANGED <<ring, notify, sync, FirstTimerSlot, inv, dwState, loop_depth,
                 wait, others, rmw, peek, stack>>

CallThrowAway ==
  /\ May("ThrowAwayMessages")
  /\ \E w \in alive : victim' = w
  /\ opc' = "throw"
  /\ UNCHANGED <<content, dwState, loop_depth, wait, alive, others, rmw, peek,
                 stack>>

\* The nodes of the sync list: walk[i] is the i-th, Nil past the end.
Walk ==
  LET n == Cardinality(Threads)
      walk[i \in 0 .. n] == IF i = 0 THEN pFirst
                            ELSE IF walk[i - 1] = Nil THEN Nil
                            ELSE pNext[walk[i - 1]]
  IN  walk
Linked == {t \in Threads : \E i \in DOMAIN Walk : Walk[i] = t}

OfVictim(m) == m.hwnd = victim
Place(t)    == CHOOSE i \in DOMAIN Walk : Walk[i] = t
Sending(t)  == pc[t] \in {"ssig", "spost", "reply"}

\* The first node for another window heads the list afterwards.  From it on
\* the loop's pSyncPrev is always the node just visited, removed or not, and
\* it is that node's pNext that skips a node for the window.
StaysFirst(f) ==
  /\ f \in Linked /\ ~OfVictim(req[f])
  /\ \A t \in Linked : ~OfVictim(req[t]) => Place(f) <= Place(t)
Skips(t) ==
  /\ t \in Linked /\ pNext[t] # Nil /\ OfVictim(req[pNext[t]])
  /\ \E f \in Threads : StaysFirst(f) /\ Place(f) <= Place(t)

\* The senders of the window's messages are woken and their messages marked
\* (what else may lie in the frame of a sender that has left is not followed).
ThrowAwaySync ==
  LET thrown == {t \in Linked : OfVictim(req[t])} IN
    \/ pFirst = Nil /\ UNCHANGED <<sync, req, reply>>
    \/ /\ pFirst # Nil
       /\ \/ \E f \in Threads : StaysFirst(f) /\ pFirst' = f
          \/ (\A f \in Threads : ~StaysFirst(f)) /\ pFirst' = Nil
       /\ pNext' = [t \in Threads |->
                      IF Skips(t) THEN pNext[pNext[t]] ELSE pNext[t]]
       /\ req' = [t \in Threads |-> IF t \in thrown /\ Sending(t)
                                     THEN Canceled(req[t]) ELSE req[t]]
       /\ Post(thrown)
       /\ UNCHANGED pLast

\* The locked section of ThrowAwayMessages.  A destroyed window's invalid
\* region is emptied right after it.
ThrowAwayMessages ==
  /\ opc = "throw"
  /\ notify' = [i \in DOMAIN notify |->
                  IF OfVictim(notify[i]) THEN Canceled(notify[i]) ELSE notify[i]]
  /\ ThrowAwaySync
  /\ msg' = [i \in Cells |->
               IF i \in Live /\ OfVictim(msg[i]) THEN Canceled(msg[i])
                                                 ELSE msg[i]]
  /\ TimerMask' = {s \in TimerMask : TimerWnd[s] # victim}
  /\ Overtakes(IF TimerMask' = TimerMask THEN {} ELSE {"TimerMask"})
  /\ inv' = IF victim \in alive THEN inv ELSE inv \ {victim}
  /\ opc' = "run" /\ victim' = Nil
  /\ UNCHANGED <<readpos, writepos, FirstTimerSlot, dwState, loop_depth, wait,
                 alive, pc, peek, stack>>

\* The steps of a message loop that only dispatches what it gets.
Loop ==
  \/ GetMessage
  \/ PeekQuit \/ PeekSync \/ PeekNotify \/ PeekPost \/ PeekPaint \/ PeekTimer
  \/ PeekTimerProc \/ CallbackReturns \/ PeekNothing \/ Wake
  \/ HandlerReturns

Application ==
  \/ PeekMessage \/ WaitMessage \/ WaitMessageCheck \/ PeekPostMessage
  \/ OwnPost \/ OwnNotify \/ BeginPaint \/ OwnInvalidate \/ UpdateWindow
  \/ OwnQuit
  \/ OwnSend \/ DrainTake \/ DrainEnds \/ DrainClear \/ OwnAnswered
  \/ DestroyMainWindow \/ CallThrowAway \/ ThrowAwayMessages

Next == Loop \/ Application \/ \E t \in Threads : Calls(t) \/ Proceeds(t)

Spec == Init /\ [][Next]_vars

\* Fairness: the owner runs its loop, its handlers return, and a thread that
\* has begun a call is scheduled until the call returns.
FairSpec ==
  Spec /\ WF_vars(Loop) /\ \A t \in Threads : WF_vars(Proceeds(t))
-----------------------------------------------------------------------------
(* Properties.                                                             *)

RingOK ==
  /\ msg \in [Cells -> Message]
  /\ readpos \in Cells /\ writepos \in Cells
ListsOK ==
  /\ notify \in Seq(Message)
  /\ pFirst \in Threads \cup {Nil} /\ pLast \in Threads \cup {Nil}
  /\ pNext \in [Threads -> Threads \cup {Nil}]
WordsOK ==
  /\ dwState \subseteq Flags
  /\ TimerMask \subseteq Slots /\ FirstTimerSlot \in Slots
  /\ loop_depth \in Int /\ wait \in Nat
RmwOK ==
  /\ DOMAIN rmw = Actors
  /\ \A a \in Actors :
       /\ rmw[a].word \in {"none", "lost", "dwState", "TimerMask", "loop_depth"}
       /\ rmw[a].word = "dwState" => rmw[a].val \subseteq Flags
       /\ rmw[a].word = "TimerMask" => rmw[a].val \subseteq Slots
       /\ rmw[a].word = "loop_depth" => rmw[a].val # {} /\ rmw[a].val \subseteq Int
WndsOK == inv \subseteq Wnds /\ alive \subseteq Wnds
ThreadsOK ==
  /\ pc \in [Threads -> {"idle", "queue", "notify", "sync", "inval", "getq",
                         "paint", "quit", "quit2", "tick", "sig", "ssig",
                         "post", "spost", "reply"}]
  /\ req \in [Threads -> Message]
  /\ reply \in [Threads -> Nat]
  /\ \A t \in Threads : /\ pc[t] = "inval" => req[t].hwnd \in Wnds
                        /\ pc[t] = "tick" => req[t].wParam \in Slots
OwnerOK ==
  /\ opc \in {"run", "check", "wait", "callback", "wcheck", "wwait", "quit",
              "quit2", "throw", "drain", "unflag", "answer"}
  /\ peek \in [want : SUBSET Kinds, bWait : BOOLEAN, remove : BOOLEAN]
  /\ stack \in Seq([m : Message, from : Actors \cup {Nil}])
  /\ victim \in Wnds \cup {Nil}

\* Type invariant of the queue, of the threads and of the owner.
TypeOK ==
  RingOK /\ ListsOK /\ WordsOK /\ RmwOK /\ WndsOK /\ ThreadsOK /\ OwnerOK

\* What is in the queue, whatever the flags say.
Contents ==
  pFirst # Nil \/ notify # <<>> \/ readpos # writepos \/ TimerMask # {}

Asleep     == opc \in {"wait", "wwait"} /\ wait = 0
Signalling == {"sig", "ssig", "post", "spost"}

\* The owner never sleeps on a queue that holds a message or a quit unless
\* some thread is inside POST_MSGQ and will wake it: sem_getvalue before
\* sem_post, and the flag set under a lock the semaphore does not know, lose
\* no wake-up.
NoLostWakeup ==
  Asleep /\ (Contents \/ "QUIT" \in dwState) =>
    \E t \in Threads : pc[t] \in Signalling

\* The flags PeekMessageEx tests never hide a message that is in the queue,
\* as long as the owner sends nothing itself: DrainClear is not locked.
FlagsCoverQueue ==
  /\ pFirst # Nil => "SYNC" \in dwState
  /\ notify # <<>> => "NOTIFY" \in dwState
  /\ readpos # writepos => "POST" \in dwState

\* The region of a window is marked under one lock and QS_PAINT is set under
\* another, later; no check in between makes the queue forget the window.
PaintNotLost ==
  Unpainted # {} =>
    \/ "PAINT" \in dwState
    \/ \E t \in Threads : pc[t] \in {"getq", "paint"}

\* ... and the owner does not sleep through it.
PaintWakes ==
  Asleep /\ Unpainted # {} =>
    \E t \in Threads : pc[t] \in {"getq", "paint"} \cup Signalling

\* POST_MSGQ tests the semaphore and posts it in two steps, so several
\* threads can post at once; its value stays within the number of threads.
WaitBounded ==
  wait + Cardinality({t \in Threads : pc[t] \in {"post", "spost"}})
    <= Cardinality(Threads)

\* A sender blocked in SendSyncMessage is in exactly one place: linked in the
\* list, being handled, or answered; and nobody else is in any.  So no
\* message is handled twice, no answer goes to a semaphore that has been
\* destroyed, and no list node outlives the stack frame it lies in.
Handled(t) == Cardinality({i \in DOMAIN stack : stack[i].from = t})
SyncAccounting ==
  \A t \in Threads :
    (IF t \in Linked THEN 1 ELSE 0) + Handled(t) + reply[t]
      = IF Sending(t) THEN 1 ELSE 0

\* The tail pointer is the end of the list, so that the next message is
\* linked where the owner will find it.
TailIsLast ==
  pFirst # Nil => pLast \in Linked /\ pNext[pLast] = Nil

\* The ring holds at most one mouse move for a message, window and key state
\* and at most one of the other coalesced messages for a window.
NoDuplicates ==
  \A i, j \in Live :
    /\ msg[i].hwnd = msg[j].hwnd /\ msg[i].hwnd # HWND_INVALID
    /\ msg[i].message = msg[j].message
    /\ \/ msg[i].message \in MoveMsgs /\ msg[i].wParam = msg[j].wParam
       \/ msg[i].message \in LatestMsgs
    => i = j

\* The posted messages, oldest first, and what posting does to them.
Posted == [k \in 1 .. Used |-> msg[(readpos + k - 1) % BufLen]]
Supersedes(m, n) ==
  /\ m.message = n.message /\ m.hwnd = n.hwnd
  /\ m.message \in LatestMsgs \/ (m.message \in MoveMsgs /\ m.wParam = n.wParam)
PQ == INSTANCE PostQueue WITH Capacity <- BufLen - 1, Cancel <- Canceled,
                              Supersedes <- Supersedes, q <- Posted

\* The ring is a bounded FIFO: posting, coalescing, wrapping round, peeking
\* and throwing away are each one step of PostQueue or leave it alone.
RingIsQueue ==
  PQ!Init /\ [][\/ \E m \in Posts \cup OwnPosts : PQ!Put(m)
                \/ PQ!Take
                \/ \E w \in Wnds : PQ!ThrowAway(w)]_Posted

\* QS_QUIT is up as long as a posted quit has not ended its message loop.
QuitSeen == opc = "check" => ("QUIT" \in dwState <=> loop_depth > 0)

\* Every synchronous message is answered, whatever else keeps arriving.
SyncAnswered == \A t \in Threads : pc[t] = "sync" ~> pc[t] = "idle"

\* A message in the queue always gets the owner out of its sleep.
ContentsWake == Contents ~> opc = "run"
-----------------------------------------------------------------------------
(* Claims of the documentation and of comments that the code does not      *)
(* meet; README.md says on which instances TLC refutes them.               *)

\* A node ThrowAwayMessages has cancelled, and whose sender it has woken, is
\* out of the list.
ThrownAreUnlinked == \A t \in Linked : req[t].hwnd # HWND_INVALID

\* ThrowAwayMessages leaves nothing queued for the window: no message for a
\* destroyed window is ever there to be dispatched.
NothingForDead ==
  opc # "throw" =>
    \A w \in Wnds \ alive :
      /\ \A i \in Live : msg[i].hwnd # w
      /\ \A i \in DOMAIN notify : notify[i].hwnd # w
      /\ \A t \in Linked : req[t].hwnd # w

\* A peek with PM_NOREMOVE takes nothing out of the queue.
PeekKeeps ==
  [][opc = "check" /\ ~peek.remove =>
       UNCHANGED <<notify, readpos, pFirst>> /\ TimerMask \subseteq TimerMask'
     ]_vars

\* HavePendingMessage returns TRUE only when a message can be got.
PendingIsReal ==
  HavePendingMessage => Contents \/ "QUIT" \in dwState \/ Unpainted # {} \/ Desktop
=============================================================================
