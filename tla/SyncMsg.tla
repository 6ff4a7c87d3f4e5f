------------------------------ MODULE SyncMsg -------------------------------
(***************************************************************************)
(* Synchronous messages between GUI threads: SendSyncMessage of message.c  *)
(* when the sender has a message queue itself.  The SYNCMSG lies in the    *)
(* sender's stack frame; while the sender waits it first serves the        *)
(* synchronous messages in its own queue; and every send of a thread, also *)
(* one made by the handler of a message, waits on the one semaphore        *)
(* sync_msg of the thread.                                                 *)
(*                                                                         *)
(* Of each queue only the sync list and the QS_SYNCMSG flag are kept; that *)
(* a sleeping owner is woken is MsgQueue's part.                           *)
(***************************************************************************)
EXTENDS Integers, Sequences

CONSTANTS
  Threads,       \* the GUI threads
  HandlersSend,  \* TRUE: the handler of a message may itself send
  MaxSends,      \* bound on the sends of a thread
  MaxFrames      \* bound on the frames of a thread

ASSUME SyncBounds == MaxSends \in Nat /\ MaxFrames \in Nat
ASSUME HandlersSendAssumption == HandlersSend \in BOOLEAN

VARIABLES
  list,    \* the sync list of each thread's queue, first to last
  flag,    \* QS_SYNCMSG of each thread's dwState
  sem,     \* the value of each thread's sync_msg semaphore
  stack,   \* the frames of each thread, the innermost last
  sent     \* how many sends each thread has made

vars == <<list, flag, sem, stack, sent>>

\* A frame of SendSyncMessage, with its SYNCMSG: where it is, whom it sends
\* to, and whether retval has been written.  A SYNCMSG is named by its sender
\* and its place on the sender's stack.
SendFrame(u) == [fn |-> "send", at |-> "queue", peer |-> u, level |-> 0,
                 handled |-> FALSE]
\* A frame of DispatchMessage for the SYNCMSG <<t, n>>.
HandleFrame(t, n) == [fn |-> "handle", at |-> "proc", peer |-> t, level |-> n,
                      handled |-> FALSE]

Depth(t)  == Len(stack[t])
Top(t)    == stack[t][Depth(t)]
In(t, at) == Depth(t) > 0 /\ Top(t).at = at
Pop(s)    == SubSeq(s, 1, Len(s) - 1)

Move(t, at) == stack' = [stack EXCEPT ![t][Depth(t)].at = at]

Init ==
  /\ list = [t \in Threads |-> <<>>]
  /\ flag = [t \in Threads |-> FALSE]
  /\ sem = [t \in Threads |-> 0]
  /\ stack = [t \in Threads |-> <<>>]
  /\ sent = [t \in Threads |-> 0]

\* SendSyncMessage is called, from the thread's main program or a handler.
SendSyncMessage(t) ==
  /\ Depth(t) < MaxFrames /\ sent[t] < MaxSends
  /\ Depth(t) = 0 \/ (HandlersSend /\ In(t, "proc"))
  /\ \E u \in Threads \ {t} :
       stack' = [stack EXCEPT ![t] = Append(@, SendFrame(u))]
  /\ sent' = [sent EXCEPT ![t] = @ + 1]
  /\ UNCHANGED <<list, flag, sem>>

\* The SYNCMSG is linked into the receiver's list.
Queue(t) ==
  /\ In(t, "queue")
  /\ LET u == Top(t).peer IN
       /\ list' = [list EXCEPT ![u] = Append(@, <<t, Depth(t)>>)]
       /\ flag' = [flag EXCEPT ![u] = TRUE]
  /\ Move(t, "drain")
  /\ UNCHANGED <<sem, sent>>

\* The first message of t's own list goes to its handler.
TakeFirst(t) ==
  /\ Depth(t) < MaxFrames
  /\ stack' = [stack EXCEPT ![t] =
                 Append(@, HandleFrame(Head(list[t])[1], Head(list[t])[2]))]
  /\ list' = [list EXCEPT ![t] = Tail(@)]
  /\ UNCHANGED <<flag, sem, sent>>

\* One turn of the loop that serves the sender's own synchronous messages.
DrainTake(t) == In(t, "drain") /\ flag[t] /\ list[t] # <<>> /\ TakeFirst(t)

\* Nothing to serve: the lock is released ...
DrainEmpty(t) ==
  /\ In(t, "drain")
  /\ \/ flag[t] /\ list[t] = <<>> /\ Move(t, "clear")
     \/ ~flag[t] /\ Move(t, "wait")
  /\ UNCHANGED <<list, flag, sem, sent>>

\* ... and QS_SYNCMSG is cleared after that.
DrainClear(t) ==
  /\ In(t, "clear")
  /\ flag' = [flag EXCEPT ![t] = FALSE]
  /\ Move(t, "wait")
  /\ UNCHANGED <<list, sem, sent>>

\* Fault: the send returns without waiting for its answer.
WakeEarly(t) ==
  /\ In(t, "wait")
  /\ stack' = [stack EXCEPT ![t] = Pop(@)]
  /\ UNCHANGED <<list, flag, sem, sent>>

\* sem_wait returns and so does the send.
Wake(t) ==
  /\ In(t, "wait") /\ sem[t] > 0
  /\ sem' = [sem EXCEPT ![t] = @ - 1]
  /\ stack' = [stack EXCEPT ![t] = Pop(@)]
  /\ UNCHANGED <<list, flag, sent>>

\* PeekMessageEx in the thread's message loop.
Peek(t) ==
  /\ Depth(t) = 0 /\ flag[t]
  /\ \/ list[t] # <<>> /\ TakeFirst(t)
     \/ /\ list[t] = <<>>
        /\ flag' = [flag EXCEPT ![t] = FALSE]
        /\ UNCHANGED <<list, sem, stack, sent>>

\* Fault: DispatchMessage posts the semaphore twice.
ReturnTwice(t) ==
  /\ In(t, "proc")
  /\ LET from == Top(t).peer  n == Top(t).level IN
       /\ stack' = [stack EXCEPT ![t] = Pop(@), ![from][n].handled = TRUE]
       /\ sem' = [sem EXCEPT ![from] = @ + 2]
  /\ UNCHANGED <<list, flag, sent>>

\* The handler returns; DispatchMessage writes retval into the SYNCMSG, if
\* the frame it lies in is still there, and posts the sender's semaphore.
Return(t) ==
  /\ In(t, "proc")
  /\ LET from == Top(t).peer
         n    == Top(t).level
         popped == [stack EXCEPT ![t] = Pop(@)]
     IN  /\ stack' = IF n <= Len(popped[from])
                       THEN [popped EXCEPT ![from][n].handled = TRUE]
                       ELSE popped
         /\ sem' = [sem EXCEPT ![from] = @ + 1]
  /\ UNCHANGED <<list, flag, sent>>

Proceeds(t) ==
  \/ Queue(t) \/ DrainTake(t) \/ DrainEmpty(t) \/ DrainClear(t) \/ Wake(t)
  \/ Peek(t) \/ Return(t)

Next == \E t \in Threads : SendSyncMessage(t) \/ Proceeds(t)

Spec == Init /\ [][Next]_vars
-----------------------------------------------------------------------------
\* The SYNCMSG <<t, n>> lies in a frame of a send that is not answered yet.
Outstanding(t, n) ==
  /\ n <= Depth(t) /\ stack[t][n].fn = "send"
  /\ stack[t][n].at # "queue" /\ ~stack[t][n].handled

\* A SYNCMSG that is in a list or being handled lies in a live frame, so the
\* receiver never reads or writes a stack frame its sender has left.
NoDangling ==
  \A u \in Threads :
    /\ \A i \in DOMAIN list[u] : Outstanding(list[u][i][1], list[u][i][2])
    /\ \A i \in DOMAIN stack[u] : stack[u][i].fn = "handle" =>
         Outstanding(stack[u][i].peer, stack[u][i].level)

\* sem_wait returns in a send only after the handler of its own message has
\* written the return value.
ReturnsHandled ==
  [][\A t \in Threads :
       In(t, "wait") /\ Len(stack'[t]) < Depth(t) => Top(t).handled]_vars

\* No set of threads sleeps in sem_wait while all of their messages are in
\* lists, or in the hands of sleeping handlers, of threads of the set: two
\* threads that send to each other, or a ring of them, do not block each
\* other.
Sleeping(t)   == In(t, "wait") /\ sem[t] = 0
WaitsOn(t, u) ==
  \/ \E i \in DOMAIN list[u] : list[u][i] = <<t, Depth(t)>>
  \/ \E i \in DOMAIN stack[u] :
       stack[u][i].fn = "handle" /\ stack[u][i].peer = t
         /\ stack[u][i].level = Depth(t)
NoCircularWait ==
  \A S \in SUBSET Threads \ {{}} :
    ~ \A t \in S : Sleeping(t) /\ \E u \in S : WaitsOn(t, u)

\* A sender's semaphore counts its answers: the one for the send it is in,
\* once the handler has returned, and no other.
AnswersCounted ==
  \A t \in Threads :
    sem[t] = IF \E i \in DOMAIN stack[t] : stack[t][i].handled THEN 1 ELSE 0
=============================================================================
