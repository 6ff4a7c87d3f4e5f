--------------------------- MODULE MsgQueueProofs ---------------------------
(***************************************************************************)
(* Proofs about MsgQueue, for every number of threads, windows, timers and *)
(* messages and every size of the ring.                                    *)
(***************************************************************************)
EXTENDS MsgQueue, LeastNumber, FiniteSetTheorems, TLAPS

-----------------------------------------------------------------------------
(* The messages.                                                           *)

LEMMA CanceledTwice ==
  ASSUME NEW m \in Plain PROVE Canceled(Canceled(m)) = Canceled(m)
  BY DEF Canceled

\* Whatever a message is copied from, the copy is a message.
LEMMA Messages ==
  /\ Sent \subseteq Message /\ NoMsg \in Message
  /\ \A s \in Slots : TimerMsg(s) \in Message /\ TimerMsg(s).wParam = s
  /\ \A w \in Wnds : /\ Msg("MSG_PAINT", w) \in Message
                     /\ Msg("MSG_PAINT", w).hwnd = w
                     /\ Msg("MSG_QUIT", w) \in Message
                     /\ Msg("MSG_TIMER", w) \in Message
  /\ \A m \in Message : Canceled(m) \in Message
<1>1. Plain \subseteq Message /\ \A m \in Plain : Canceled(m) \in Message
  BY DEF Message
<1>2. Sent \subseteq Plain /\ NoMsg \in Plain
  BY DEF Plain
<1>3. \A s \in Slots : TimerMsg(s) \in Plain
  BY DEF Plain
<1>4. \A s \in Slots : TimerMsg(s).wParam = s
  BY DEF TimerMsg, Msg
<1>5. \A w \in Wnds : \A k \in {"MSG_PAINT", "MSG_QUIT", "MSG_TIMER"} :
        Msg(k, w) \in Plain /\ Msg(k, w).hwnd = w
  BY DEF Plain, Msg
<1>6. \A m \in Message : Canceled(m) \in Message
  BY CanceledTwice DEF Message
<1> QED BY <1>1, <1>2, <1>3, <1>4, <1>5, <1>6

-----------------------------------------------------------------------------
(* The type invariant.                                                     *)

\* An unlocked read-modify-write belongs to the call its actor is in.
RmwAt ==
  /\ \A t \in Threads :
       /\ rmw[t].word = "loop_depth" => pc[t] = "quit"
       /\ rmw[t].word = "dwState" => pc[t] = "quit2"
       /\ rmw[t].word = "TimerMask" => pc[t] = "tick" /\ ~Desktop
  /\ rmw[Owner].word = "loop_depth" => opc = "quit"
  /\ rmw[Owner].word = "dwState" => opc \in {"quit2", "unflag"}
  /\ rmw[Owner].word # "TimerMask"

Inv == TypeOK /\ RmwAt

LEMMA InitInv == Init => Inv
<1> SUFFICES ASSUME Init PROVE Inv
  OBVIOUS
<1>1. RingOK
  BY Messages, SizesAssumption DEF Init, RingOK, Cells
<1>2. ListsOK
  BY DEF Init, ListsOK
<1>3. WordsOK
  BY SizesAssumption DEF Init, WordsOK, Slots
<1>4. RmwOK /\ RmwAt
  BY DEF Init, RmwOK, RmwAt, NoRmw, Actors
<1>5. WndsOK
  BY DEF Init, WndsOK
<1>6. ThreadsOK
  BY Messages DEF Init, ThreadsOK
<1>7. OwnerOK
  BY DEF Init, OwnerOK, All
<1> QED BY <1>1, <1>2, <1>3, <1>4, <1>5, <1>6, <1>7 DEF Inv, TypeOK

\* Overtaking only turns an outstanding read-modify-write into a lost one.
LEMMA OvertakesRmw ==
  ASSUME RmwOK, RmwAt, NEW ws, Overtakes(ws)
  PROVE  /\ RmwOK'
         /\ \A a \in Actors : rmw'[a] = rmw[a] \/ rmw'[a].word = "lost"
  BY DEF Overtakes, RmwOK

LEMMA SetStateType ==
  ASSUME WordsOK, RmwOK, RmwAt, NEW fs \in SUBSET Flags, SetState(fs)
  PROVE  /\ dwState' \subseteq Flags /\ RmwOK'
         /\ \A a \in Actors : rmw'[a] = rmw[a] \/ rmw'[a].word = "lost"
  BY OvertakesRmw DEF SetState, WordsOK

LEMMA ClearStateType ==
  ASSUME WordsOK, RmwOK, RmwAt, NEW fs, NEW ws, ClearState(fs, ws)
  PROVE  /\ dwState' \subseteq Flags /\ RmwOK'
         /\ \A a \in Actors : rmw'[a] = rmw[a] \/ rmw'[a].word = "lost"
  BY OvertakesRmw DEF ClearState, WordsOK

LEMMA EnqueueType ==
  ASSUME Inv, NEW m \in Message, Enqueue(m)
  PROVE  /\ RingOK' /\ dwState' \subseteq Flags /\ RmwOK'
         /\ \A a \in Actors : rmw'[a] = rmw[a] \/ rmw'[a].word = "lost"
<1>1. RingOK'
  BY SizesAssumption
  DEF Inv, TypeOK, RingOK, Enqueue, Cells, Replaced, Same, Live
<1>2. SetState({"POST"})
  BY DEF Enqueue
<1> QED BY <1>1, <1>2, SetStateType DEF Inv, TypeOK, Flags

LEMMA DispatchType ==
  ASSUME Inv, NEW m \in Message, NEW from \in Threads \cup {Nil},
         Dispatch(m, from)
  PROVE  OwnerOK' /\ reply' \in [Threads -> Nat] /\ opc' = "run"
<1> DEFINE Frame == [m : Message, from : Actors \cup {Nil}]
<1>1. OwnerOK'
  <2>1. [m |-> m, from |-> from] \in Frame
    BY DEF Actors
  <2>2. stack \in Seq(Frame)
    BY DEF Inv, TypeOK, OwnerOK
  <2> HIDE DEF Frame
  <2>3. stack' \in Seq(Frame)
    BY <2>1, <2>2 DEF Dispatch
  <2> QED BY <2>3 DEF Dispatch, OwnerOK, Inv, TypeOK, Frame
<1>2. reply' \in [Threads -> Nat]
  BY DEF Dispatch, Post, ThreadsOK, Inv, TypeOK
<1> QED BY <1>1, <1>2 DEF Dispatch

-----------------------------------------------------------------------------
(* The steps of the other threads.                                         *)

LEMMA BeginType ==
  ASSUME Inv, NEW t \in Threads, NEW p, NEW m \in Message, Begin(t, p, m),
         p \in {"queue", "notify", "sync", "inval", "quit", "tick"},
         p = "inval" => m.hwnd \in Wnds, p = "tick" => m.wParam \in Slots
  PROVE  Inv'
<1> USE DEF Begin, Inv, TypeOK, content, ring, sync, timers, owner
<1>1. RingOK' /\ ListsOK' /\ WordsOK' /\ RmwOK' /\ WndsOK' /\ OwnerOK'
  BY DEF RingOK, ListsOK, WordsOK, RmwOK, WndsOK, OwnerOK
<1>2. ThreadsOK'
  BY DEF ThreadsOK, Goto
<1>3. RmwAt'
  BY DEF RmwAt, ThreadsOK, Goto
<1> QED BY <1>1, <1>2, <1>3

LEMMA CallsType ==
  ASSUME Inv, NEW t \in Threads, Calls(t) PROVE Inv'
<1>1. CASE PostMessage(t)
  BY <1>1, BeginType, Messages DEF PostMessage, Sent
<1>2. CASE SendNotifyMessage(t)
  BY <1>2, BeginType, Messages DEF SendNotifyMessage, Sent
<1>3. CASE SendSyncMessage(t)
  BY <1>3, BeginType, Messages DEF SendSyncMessage, Sent
<1>4. CASE InvalidateRect(t)
  BY <1>4, BeginType, Messages, InputsAssumption DEF InvalidateRect
<1>5. CASE PostQuitMessage(t)
  BY <1>5, BeginType, Messages DEF PostQuitMessage
<1>6. CASE TimerExpires(t)
  BY <1>6, BeginType, Messages, InputsAssumption DEF TimerExpires
<1> QED BY <1>1, <1>2, <1>3, <1>4, <1>5, <1>6 DEF Calls

LEMMA QueueMessageType ==
  ASSUME Inv, NEW t \in Threads, QueueMessage(t) PROVE Inv'
<1> USE DEF QueueMessage, Inv, TypeOK, ring, sync, timers, owner
<1>1. req[t] \in Message
  BY DEF ThreadsOK
<1>2. /\ RingOK' /\ dwState' \subseteq Flags /\ RmwOK'
      /\ \A a \in Actors : rmw'[a] = rmw[a] \/ rmw'[a].word = "lost"
  <2>1. CASE Enqueue(req[t])
    BY <1>1, <2>1, EnqueueType
  <2>2. CASE UNCHANGED <<ring, dwState, rmw>>
    BY <2>2 DEF RingOK, WordsOK, RmwOK
  <2> QED BY <2>1, <2>2
<1>3. ThreadsOK'
  BY Messages DEF ThreadsOK, Goto, Leave
<1>4. RmwAt'
  BY <1>2 DEF RmwAt, ThreadsOK, Goto, Leave, Actors
<1>5. ListsOK' /\ WordsOK' /\ WndsOK' /\ OwnerOK'
  BY <1>2 DEF ListsOK, WordsOK, WndsOK, OwnerOK
<1> QED BY <1>2, <1>3, <1>4, <1>5

LEMMA QueueNotifyType ==
  ASSUME Inv, NEW t \in Threads, QueueNotify(t) PROVE Inv'
<1> USE DEF QueueNotify, Inv, TypeOK, ring, sync, timers, owner
<1>1. /\ dwState' \subseteq Flags /\ RmwOK'
      /\ \A a \in Actors : rmw'[a] = rmw[a] \/ rmw'[a].word = "lost"
  BY SetStateType DEF AppendNotify, Flags
<1>2. ListsOK'
  BY DEF ListsOK, ThreadsOK, AppendNotify
<1>3. ThreadsOK' /\ RmwAt'
  BY <1>1 DEF ThreadsOK, RmwAt, Goto, Actors
<1>4. RingOK' /\ WordsOK' /\ WndsOK' /\ OwnerOK'
  BY <1>1 DEF RingOK, WordsOK, WndsOK, OwnerOK
<1> QED BY <1>1, <1>2, <1>3, <1>4

LEMMA QueueSyncType ==
  ASSUME Inv, NEW t \in Threads, QueueSync(t) PROVE Inv'
<1> USE DEF QueueSync, Inv, TypeOK, ring, sync, timers, owner
<1>1. /\ dwState' \subseteq Flags /\ RmwOK'
      /\ \A a \in Actors : rmw'[a] = rmw[a] \/ rmw'[a].word = "lost"
  BY SetStateType DEF Flags
<1>2. ListsOK'
  BY DEF ListsOK
<1>3. ThreadsOK' /\ RmwAt'
  BY <1>1 DEF ThreadsOK, RmwAt, Goto, Actors
<1>4. RingOK' /\ WordsOK' /\ WndsOK' /\ OwnerOK'
  BY <1>1 DEF RingOK, WordsOK, WndsOK, OwnerOK
<1> QED BY <1>1, <1>2, <1>3, <1>4

LEMMA AddInvalidType ==
  ASSUME Inv, NEW t \in Threads, AddInvalid(t) PROVE Inv'
<1> USE DEF AddInvalid, Inv, TypeOK, ring, sync, timers, owner
<1>1. WndsOK'
  BY DEF WndsOK, ThreadsOK
<1>2. ThreadsOK' /\ RmwAt'
  BY DEF ThreadsOK, RmwAt, Goto
<1>3. RingOK' /\ ListsOK' /\ WordsOK' /\ RmwOK' /\ OwnerOK'
  BY DEF RingOK, ListsOK, WordsOK, RmwOK, OwnerOK
<1> QED BY <1>1, <1>2, <1>3

LEMMA PostPaintType ==
  ASSUME Inv, NEW t \in Threads, PostPaint(t) PROVE Inv'
<1> USE DEF PostPaint, Inv, TypeOK, content, ring, sync, timers, owner
<1>1. ThreadsOK' /\ RmwAt'
  BY Messages DEF ThreadsOK, RmwAt, Goto, Leave
<1>2. RingOK' /\ ListsOK' /\ WordsOK' /\ RmwOK' /\ WndsOK' /\ OwnerOK'
  BY DEF RingOK, ListsOK, WordsOK, RmwOK, WndsOK, OwnerOK
<1> QED BY <1>1, <1>2

LEMMA QueuePaintType ==
  ASSUME Inv, NEW t \in Threads, QueuePaint(t) PROVE Inv'
<1> USE DEF QueuePaint, Inv, TypeOK, content, ring, sync, timers, owner
<1>1. /\ dwState' \subseteq Flags /\ RmwOK'
      /\ \A a \in Actors : rmw'[a] = rmw[a] \/ rmw'[a].word = "lost"
  BY SetStateType DEF Flags
<1>2. ThreadsOK' /\ RmwAt'
  BY <1>1 DEF ThreadsOK, RmwAt, Goto, Actors
<1>3. RingOK' /\ ListsOK' /\ WordsOK' /\ WndsOK' /\ OwnerOK'
  BY <1>1 DEF RingOK, ListsOK, WordsOK, WndsOK, OwnerOK
<1> QED BY <1>1, <1>2, <1>3

LEMMA SignalType ==
  ASSUME Inv, NEW t \in Threads, GetValue(t) \/ SemPost(t) PROVE Inv'
<1> USE DEF GetValue, SemPost, Inv, TypeOK, content, ring, sync, timers, owner
<1>1. ThreadsOK' /\ RmwAt'
  BY Messages DEF ThreadsOK, RmwAt, Goto, Leave, Signalled
<1>2. RingOK' /\ ListsOK' /\ WordsOK' /\ RmwOK' /\ WndsOK' /\ OwnerOK'
  BY DEF RingOK, ListsOK, WordsOK, RmwOK, WndsOK, OwnerOK
<1> QED BY <1>1, <1>2

LEMMA AnsweredType ==
  ASSUME Inv, NEW t \in Threads, Answered(t) PROVE Inv'
<1> USE DEF Answered, Inv, TypeOK, content, ring, sync, timers, owner
<1>1. ThreadsOK' /\ RmwAt'
  BY Messages DEF ThreadsOK, RmwAt, Goto, Leave
<1>2. RingOK' /\ ListsOK' /\ WordsOK' /\ RmwOK' /\ WndsOK' /\ OwnerOK'
  BY DEF RingOK, ListsOK, WordsOK, RmwOK, WndsOK, OwnerOK
<1> QED BY <1>1, <1>2

\* The loads and stores of PostQuitMessage, whoever calls it.
LEMMA QuitWordsType ==
  ASSUME Inv, NEW a \in Actors,
         \/ LoadDepth(a) \/ LoadState(a)
         \/ StoreDepth(a) /\ rmw[a].word \in {"none", "lost", "loop_depth"}
         \/ StoreState(a) /\ rmw[a].word \in {"none", "lost", "dwState"}
  PROVE  dwState' \subseteq Flags /\ loop_depth' \in Int /\ RmwOK'
<1> USE DEF Inv, TypeOK, Load, Loaded, Stored, Kept, NoRmw
<1>1. CASE LoadDepth(a)
  BY <1>1 DEF LoadDepth, WordsOK, RmwOK
<1>2. CASE LoadState(a)
  BY <1>2 DEF LoadState, WordsOK, RmwOK
<1>3. CASE StoreDepth(a) /\ rmw[a].word \in {"none", "lost", "loop_depth"}
  <2>1. Kept(a) => (CHOOSE n \in rmw[a].val : TRUE) \in Int
    BY <1>3 DEF StoreDepth, RmwOK
  <2> QED BY <1>3, <2>1 DEF StoreDepth, WordsOK, RmwOK
<1>4. CASE StoreState(a) /\ rmw[a].word \in {"none", "lost", "dwState"}
  BY <1>4 DEF StoreState, WordsOK, RmwOK, Flags
<1> QED BY <1>1, <1>2, <1>3, <1>4

LEMMA QuitType ==
  ASSUME Inv, NEW t \in Threads, Quit(t) PROVE Inv'
<1> USE DEF Quit, Inv, TypeOK, content, ring, sync, timers, owner
<1>1. rmw[t].word \in {"none", "lost", "loop_depth", "dwState"}
      /\ (rmw[t].word = "loop_depth" => pc[t] = "quit")
      /\ (rmw[t].word = "dwState" => pc[t] = "quit2")
  BY DEF RmwOK, RmwAt, Actors
<1>2. dwState' \subseteq Flags /\ loop_depth' \in Int /\ RmwOK'
  BY <1>1, QuitWordsType DEF Actors
<1>3. ThreadsOK'
  BY DEF ThreadsOK, Goto
<1>4. RmwAt'
  <2>1. \A a \in Actors \ {t} : rmw'[a] = rmw[a]
    BY DEF RmwOK, LoadDepth, StoreDepth, LoadState, StoreState, Load, Stored
  <2>2. /\ rmw'[t].word = "loop_depth" => pc'[t] = "quit"
        /\ rmw'[t].word = "dwState" => pc'[t] = "quit2"
        /\ rmw'[t].word # "TimerMask"
    BY <1>1 DEF RmwOK, LoadDepth, StoreDepth, LoadState, StoreState, Load, Stored,
           NoRmw, Goto, ThreadsOK, Actors
  <2> QED BY <2>1, <2>2, ThreadsAssumption DEF RmwAt, Actors, Goto, ThreadsOK
<1>5. RingOK' /\ ListsOK' /\ WordsOK' /\ WndsOK' /\ OwnerOK'
  BY <1>2 DEF RingOK, ListsOK, WordsOK, WndsOK, OwnerOK
<1> QED BY <1>2, <1>3, <1>4, <1>5

LEMMA SetTimerFlagType ==
  ASSUME Inv, NEW t \in Threads, SetTimerFlag(t) PROVE Inv'
<1> USE DEF SetTimerFlag, Inv, TypeOK, ring, sync, timers, owner
<1>1. req[t].wParam \in Slots
  BY DEF ThreadsOK
<1>2. /\ rmw[t].word \in {"none", "lost", "TimerMask"}
      /\ rmw[t].word = "TimerMask" => rmw[t].val \subseteq Slots /\ ~Desktop
  BY DEF RmwOK, RmwAt, Actors
<1>3. WordsOK'
  <2>1. 0 \in Slots
    BY SizesAssumption DEF Slots
  <2>2. TimerMask' \subseteq Slots
    BY <1>1, <1>2, <2>1 DEF WordsOK, Loaded, Kept
  <2> QED BY <2>2 DEF WordsOK
<1>4. RmwOK'
  BY DEF RmwOK, WordsOK, Load, Stored, NoRmw
<1>5. ThreadsOK'
  BY DEF ThreadsOK, Goto
<1>6. RmwAt'
  <2>1. \A a \in Actors \ {t} : rmw'[a] = rmw[a]
    BY DEF RmwOK, Load, Stored
  <2>2. /\ rmw'[t].word = "TimerMask" => pc'[t] = "tick" /\ ~Desktop
        /\ rmw'[t].word \notin {"loop_depth", "dwState"}
    BY <1>2 DEF RmwOK, Load, Stored, NoRmw, Goto, ThreadsOK, Actors
  <2> QED BY <2>1, <2>2, ThreadsAssumption DEF RmwAt, Actors, Goto, ThreadsOK
<1>7. RingOK' /\ ListsOK' /\ WndsOK' /\ OwnerOK'
  BY DEF RingOK, ListsOK, WndsOK, OwnerOK
<1> QED BY <1>3, <1>4, <1>5, <1>6, <1>7

LEMMA ProceedsType ==
  ASSUME Inv, NEW t \in Threads, Proceeds(t) PROVE Inv'
  BY QueueMessageType, QueueNotifyType, QueueSyncType, AddInvalidType,
     PostPaintType, QueuePaintType, QuitType, SetTimerFlagType, SignalType,
     AnsweredType
  DEF Proceeds
-----------------------------------------------------------------------------
(* The steps of the owner.                                                 *)

\* A step that takes a message out of the queue and dispatches it: what it
\* leaves to show is the queue itself.
LEMMA PeekedType ==
  ASSUME Inv, NEW m \in Message, NEW from \in Threads \cup {Nil},
         Dispatch(m, from), UNCHANGED <<loop_depth, wait, alive, pc, req, inv>>,
         dwState' \subseteq Flags, TimerMask' \subseteq Slots,
         FirstTimerSlot' \in Slots, RmwOK',
         \A a \in Actors : rmw'[a] = rmw[a] \/ rmw'[a].word = "lost",
         opc = "check", RingOK', ListsOK'
  PROVE  Inv'
<1>1. OwnerOK' /\ reply' \in [Threads -> Nat] /\ opc' = "run"
  BY DispatchType
<1>2. ThreadsOK' /\ WordsOK' /\ WndsOK'
  BY <1>1 DEF Inv, TypeOK, ThreadsOK, WordsOK, WndsOK
<1>3. RmwAt'
  BY <1>1 DEF Inv, TypeOK, RmwAt, RmwOK, Actors
<1> QED BY <1>1, <1>2, <1>3 DEF Inv, TypeOK

LEMMA PeekSyncType == ASSUME Inv, PeekSync PROVE Inv'
<1> USE DEF PeekSync, Inv, TypeOK, ring, timers
<1>1. pFirst \in Threads /\ req[pFirst] \in Message
  BY DEF SyncHit, HasSync, ListsOK, ThreadsOK
<1>2. RingOK' /\ ListsOK' /\ RmwOK'
  BY <1>1 DEF RingOK, ListsOK, RmwOK
<1> QED BY <1>1, <1>2, PeekedType DEF WordsOK

LEMMA PeekNotifyType == ASSUME Inv, PeekNotify PROVE Inv'
<1> USE DEF PeekNotify, Inv, TypeOK, ring, sync, timers
<1>1. Head(notify) \in Message /\ Tail(notify) \in Seq(Message)
  BY DEF NotifyHit, HasNotify, ListsOK
<1>2. RingOK' /\ ListsOK'
  BY <1>1 DEF RingOK, ListsOK
<1> QED BY <1>1, <1>2, ClearStateType, PeekedType DEF WordsOK

LEMMA PeekPostType == ASSUME Inv, PeekPost PROVE Inv'
<1> USE DEF PeekPost, Inv, TypeOK, sync, timers
<1>1. msg[readpos] \in Message
  BY DEF RingOK
<1>2. RingOK' /\ ListsOK'
  BY SizesAssumption DEF RingOK, ListsOK, Cells
<1> QED BY <1>1, <1>2, ClearStateType, PeekedType DEF WordsOK

LEMMA PeekPaintType == ASSUME Inv, PeekPaint PROVE Inv'
<1> USE DEF PeekPaint, Inv, TypeOK, content, ring, sync, timers
<1>1. PICK w \in Wnds : Dispatch(Msg("MSG_PAINT", w), Nil)
  BY DEF WndsOK, Unpainted
<1>2. RingOK' /\ ListsOK'
  BY DEF RingOK, ListsOK
<1> QED BY <1>1, <1>2, Messages, ClearStateType, PeekedType DEF WordsOK

LEMMA PeekTimerType == ASSUME Inv, PeekTimer PROVE Inv'
<1> USE DEF PeekTimer, Inv, TypeOK, ring, sync
<1>1. PICK m \in Message : Dispatch(m, Nil)
  BY Messages
<1>n. (FirstTimerSlot + 1) % NrTimers \in Slots
  BY SizesAssumption DEF WordsOK, Slots
<1>2. TimerMask' \subseteq Slots /\ FirstTimerSlot' \in Slots
  BY <1>n DEF WordsOK
<1>3. RingOK' /\ ListsOK'
  BY DEF RingOK, ListsOK
<1> QED BY <1>1, <1>2, <1>3, ClearStateType, PeekedType DEF WordsOK

LEMMA PeekQuitType == ASSUME Inv, PeekQuit PROVE Inv'
<1> USE DEF PeekQuit, Inv, TypeOK, content, ring, sync, timers, others
<1>1. /\ WordsOK' /\ RmwOK'
      /\ \A a \in Actors : rmw'[a] = rmw[a] \/ rmw'[a].word = "lost"
  BY OvertakesRmw DEF WordsOK, RmwOK
<1>2. ThreadsOK' /\ RmwAt'
  BY <1>1 DEF ThreadsOK, RmwAt, Actors
<1>3. RingOK' /\ ListsOK' /\ WndsOK' /\ OwnerOK'
  BY DEF RingOK, ListsOK, WndsOK, OwnerOK
<1> QED BY <1>1, <1>2, <1>3

LEMMA PeekTimerProcType == ASSUME Inv, PeekTimerProc PROVE Inv'
<1>n. (FirstTimerSlot + 1) % NrTimers \in Slots
  BY SizesAssumption DEF Inv, TypeOK, WordsOK, Slots
<1> USE DEF PeekTimerProc, Inv, TypeOK, ring, sync, timers, others
<1>1. /\ dwState' \subseteq Flags /\ RmwOK'
      /\ \A a \in Actors : rmw'[a] = rmw[a] \/ rmw'[a].word = "lost"
  BY ClearStateType
<1>2. WordsOK'
  BY <1>1, <1>n DEF WordsOK
<1>3. ThreadsOK' /\ RmwAt'
  BY <1>1 DEF ThreadsOK, RmwAt, Actors
<1>4. RingOK' /\ ListsOK' /\ WndsOK' /\ OwnerOK'
  BY DEF RingOK, ListsOK, WndsOK, OwnerOK
<1> QED BY <1>1, <1>2, <1>3, <1>4

LEMMA PeekNothingType == ASSUME Inv, PeekNothing PROVE Inv'
<1> USE DEF PeekNothing, Inv, TypeOK, content, ring, sync, timers, others, NoMessage
<1>1. /\ dwState' \subseteq Flags /\ RmwOK'
      /\ \A a \in Actors : rmw'[a] = rmw[a] \/ rmw'[a].word = "lost"
  BY ClearStateType
<1>2. ThreadsOK' /\ RmwAt'
  BY <1>1 DEF ThreadsOK, RmwAt, Actors
<1>3. RingOK' /\ ListsOK' /\ WordsOK' /\ WndsOK' /\ OwnerOK'
  BY <1>1 DEF RingOK, ListsOK, WordsOK, WndsOK, OwnerOK
<1> QED BY <1>1, <1>2, <1>3

\* The steps that only move the owner from one place to another.
LEMMA OwnerMovesType ==
  ASSUME Inv,
         \/ GetMessage \/ PeekMessage \/ WaitMessage \/ WaitMessageCheck
         \/ CallbackReturns \/ Wake \/ DestroyMainWindow \/ CallThrowAway
  PROVE  Inv'
<1> USE DEF GetMessage, PeekMessage, WaitMessage, WaitMessageCheck, CallPeek,
            CallbackReturns, NoMessage, Wake, DestroyMainWindow, CallThrowAway,
            May, Inv, TypeOK, content, ring, sync, timers, others
<1>1. RingOK' /\ ListsOK' /\ RmwOK' /\ ThreadsOK' /\ RmwAt'
  BY DEF RingOK, ListsOK, RmwOK, ThreadsOK, RmwAt
<1>2. WordsOK' /\ WndsOK'
  BY DEF WordsOK, WndsOK
<1>3. OwnerOK'
  <2>1. CASE GetMessage \/ WaitMessage
    <3>1. All \in [want : SUBSET Kinds, bWait : BOOLEAN, remove : BOOLEAN]
      BY DEF All
    <3>2. peek' = All /\ opc' \in {"check", "wcheck"} /\ UNCHANGED <<stack, victim>>
      BY <2>1
    <3> QED BY <3>1, <3>2 DEF OwnerOK
  <2>2. CASE PeekMessage
    <3>1. PICK f \in Filters, r \in BOOLEAN :
            peek' = [want |-> f, bWait |-> FALSE, remove |-> r]
      BY <2>2
    <3>2. f \in SUBSET Kinds
      BY InputsAssumption
    <3>3. peek' \in [want : SUBSET Kinds, bWait : BOOLEAN, remove : BOOLEAN]
      BY <3>1, <3>2
    <3> QED BY <2>2, <3>3 DEF OwnerOK
  <2>3. CASE WaitMessageCheck \/ CallbackReturns \/ Wake
    BY <2>3 DEF OwnerOK
  <2>4. CASE DestroyMainWindow \/ CallThrowAway
    BY <2>4 DEF OwnerOK, WndsOK
  <2> QED BY <2>1, <2>2, <2>3, <2>4
<1> QED BY <1>1, <1>2, <1>3

LEMMA PeekPostMessageType == ASSUME Inv, PeekPostMessage PROVE Inv'
<1> USE DEF PeekPostMessage, Inv, TypeOK, sync, timers, others
<1> DEFINE Frame == [m : Message, from : Actors \cup {Nil}]
<1>1. RingOK'
  BY SizesAssumption DEF RingOK, Cells
<1>2. stack' \in Seq(Frame)
  <2>1. [m |-> msg[readpos], from |-> Nil] \in Frame
    BY DEF RingOK
  <2>2. stack \in Seq(Frame)
    BY DEF OwnerOK
  <2> HIDE DEF Frame
  <2> QED BY <2>1, <2>2
<1>3. OwnerOK'
  BY <1>2 DEF OwnerOK
<1>4. ListsOK' /\ WordsOK' /\ RmwOK' /\ WndsOK' /\ ThreadsOK' /\ RmwAt'
  BY DEF ListsOK, WordsOK, RmwOK, WndsOK, ThreadsOK, RmwAt
<1> QED BY <1>1, <1>3, <1>4

LEMMA HandlerReturnsType == ASSUME Inv, HandlerReturns PROVE Inv'
<1> USE DEF HandlerReturns, Inv, TypeOK, content, ring, sync, timers
<1> DEFINE Frame == [m : Message, from : Actors \cup {Nil}]
<1>1. OwnerOK'
  <2>1. stack \in Seq(Frame)
    BY DEF OwnerOK
  <2> HIDE DEF Frame
  <2>2. SubSeq(stack, 1, Len(stack) - 1) \in Seq(Frame)
    BY <2>1
  <2>3. stack' \in Seq(Frame)
    BY <2>2
  <2> QED BY <2>3 DEF OwnerOK, Frame
<1>2. ThreadsOK'
  <2>1. UNCHANGED reply \/ \E S : Post(S)
    OBVIOUS
  <2>2. reply' \in [Threads -> Nat]
    BY <2>1 DEF ThreadsOK, Post
  <2> QED BY <2>2 DEF ThreadsOK
<1>3. WndsOK'
  BY DEF WndsOK
<1>4. RingOK' /\ ListsOK' /\ WordsOK' /\ RmwOK' /\ RmwAt'
  BY DEF RingOK, ListsOK, WordsOK, RmwOK, RmwAt
<1> QED BY <1>1, <1>2, <1>3, <1>4

LEMMA BeginPaintType == ASSUME Inv, BeginPaint PROVE Inv'
<1> USE DEF BeginPaint, Inv, TypeOK, ring, sync, timers, others, owner
<1>1. WndsOK'
  BY DEF WndsOK
<1>2. RingOK' /\ ListsOK' /\ WordsOK' /\ RmwOK' /\ ThreadsOK' /\ OwnerOK' /\ RmwAt'
  BY DEF RingOK, ListsOK, WordsOK, RmwOK, ThreadsOK, OwnerOK, RmwAt
<1> QED BY <1>1, <1>2

LEMMA OwnPostType == ASSUME Inv, OwnPost PROVE Inv'
<1> USE DEF OwnPost, Inv, TypeOK, sync, timers, others, owner
<1>1. PICK m \in Message : Enqueue(m)
  BY Messages DEF Sent
<1>2. /\ RingOK' /\ dwState' \subseteq Flags /\ RmwOK'
      /\ \A a \in Actors : rmw'[a] = rmw[a] \/ rmw'[a].word = "lost"
  BY <1>1, EnqueueType
<1>3. ThreadsOK' /\ RmwAt'
  BY <1>2 DEF ThreadsOK, RmwAt, Actors
<1>4. ListsOK' /\ WordsOK' /\ WndsOK' /\ OwnerOK'
  BY <1>2 DEF ListsOK, WordsOK, WndsOK, OwnerOK
<1> QED BY <1>2, <1>3, <1>4

LEMMA OwnNotifyType == ASSUME Inv, OwnNotify PROVE Inv'
<1> USE DEF OwnNotify, Inv, TypeOK, ring, sync, timers, others, owner
<1>1. PICK m \in Message : AppendNotify(m)
  BY Messages DEF Sent
<1>2. /\ dwState' \subseteq Flags /\ RmwOK'
      /\ \A a \in Actors : rmw'[a] = rmw[a] \/ rmw'[a].word = "lost"
  BY <1>1, SetStateType DEF AppendNotify, Flags
<1>3. ListsOK'
  BY <1>1 DEF ListsOK, AppendNotify
<1>4. ThreadsOK' /\ RmwAt'
  BY <1>2 DEF ThreadsOK, RmwAt, Actors
<1>5. RingOK' /\ WordsOK' /\ WndsOK' /\ OwnerOK'
  BY <1>2 DEF RingOK, WordsOK, WndsOK, OwnerOK
<1> QED BY <1>2, <1>3, <1>4, <1>5

LEMMA OwnPaintType == ASSUME Inv, OwnInvalidate \/ UpdateWindow PROVE Inv'
<1> USE DEF OwnInvalidate, UpdateWindow, Inv, TypeOK, ring, sync, timers, others, owner
<1>1. /\ dwState' \subseteq Flags /\ RmwOK'
      /\ \A a \in Actors : rmw'[a] = rmw[a] \/ rmw'[a].word = "lost"
  BY SetStateType DEF Flags
<1>2. ThreadsOK' /\ RmwAt'
  BY <1>1 DEF ThreadsOK, RmwAt, Actors
<1>3. WndsOK'
  BY DEF WndsOK
<1>4. RingOK' /\ ListsOK' /\ WordsOK' /\ OwnerOK'
  BY <1>1 DEF RingOK, ListsOK, WordsOK, OwnerOK
<1> QED BY <1>1, <1>2, <1>3, <1>4

LEMMA OwnQuitType == ASSUME Inv, OwnQuit PROVE Inv'
<1> USE DEF OwnQuit, Inv, TypeOK, content, ring, sync, timers, others
<1>1. rmw[Owner].word \in {"none", "lost", "loop_depth", "dwState"}
      /\ (rmw[Owner].word = "loop_depth" => opc = "quit")
      /\ (rmw[Owner].word = "dwState" => opc \in {"quit2", "unflag"})
  BY DEF RmwOK, RmwAt, Actors
<1>2. dwState' \subseteq Flags /\ loop_depth' \in Int /\ RmwOK'
  BY <1>1, QuitWordsType DEF Actors
<1>3. RmwAt'
  <2>1. \A a \in Actors \ {Owner} : rmw'[a] = rmw[a]
    BY DEF RmwOK, LoadDepth, StoreDepth, LoadState, StoreState, Load, Stored
  <2>2. /\ rmw'[Owner].word = "loop_depth" => opc' = "quit"
        /\ rmw'[Owner].word = "dwState" => opc' = "quit2"
        /\ rmw'[Owner].word # "TimerMask"
    BY <1>1 DEF RmwOK, LoadDepth, StoreDepth, LoadState, StoreState, Load, Stored,
           NoRmw, Actors
  <2> QED BY <2>1, <2>2, ThreadsAssumption DEF RmwAt, Actors
<1>4. RingOK' /\ ListsOK' /\ WordsOK' /\ WndsOK' /\ ThreadsOK' /\ OwnerOK'
  BY <1>2 DEF RingOK, ListsOK, WordsOK, WndsOK, ThreadsOK, OwnerOK
<1> QED BY <1>2, <1>3, <1>4

\* The steps of a send of the owner that only move it.
LEMMA OwnSendType ==
  ASSUME Inv, OwnSend \/ DrainEnds \/ OwnAnswered PROVE Inv'
<1> USE DEF OwnSend, DrainEnds, OwnAnswered, May, Inv, TypeOK, content, ring,
            sync, timers, others
<1> DEFINE Frame == [m : Message, from : Actors \cup {Nil}]
<1>1. OwnerOK'
  <2>1. SendFrame \in Frame
    BY Messages DEF SendFrame, Actors
  <2>2. stack \in Seq(Frame)
    BY DEF OwnerOK
  <2> HIDE DEF Frame
  <2>3. /\ Append(stack, SendFrame) \in Seq(Frame)
        /\ SubSeq(stack, 1, Len(stack) - 1) \in Seq(Frame)
    BY <2>1, <2>2
  <2>4. stack' \in Seq(Frame)
    BY <2>2, <2>3
  <2> QED BY <2>4 DEF OwnerOK, Frame
<1>2. RmwAt'
  BY DEF RmwAt
<1>3. RingOK' /\ ListsOK' /\ WordsOK' /\ RmwOK' /\ WndsOK' /\ ThreadsOK'
  BY DEF RingOK, ListsOK, WordsOK, RmwOK, WndsOK, ThreadsOK
<1> QED BY <1>1, <1>2, <1>3

LEMMA DrainTakeType == ASSUME Inv, DrainTake PROVE Inv'
<1> USE DEF DrainTake, Inv, TypeOK, ring, timers
<1> DEFINE Frame == [m : Message, from : Actors \cup {Nil}]
<1>1. pFirst \in Threads /\ req[pFirst] \in Message
  BY DEF HasSync, ListsOK, ThreadsOK
<1>2. OwnerOK'
  <2>1. [m |-> req[pFirst], from |-> pFirst] \in Frame
    BY <1>1 DEF Actors
  <2>2. stack \in Seq(Frame)
    BY DEF OwnerOK
  <2> HIDE DEF Frame
  <2>3. Append(stack, [m |-> req[pFirst], from |-> pFirst]) \in Seq(Frame)
    BY <2>1, <2>2
  <2>4. stack' \in Seq(Frame)
    BY <2>2, <2>3
  <2> QED BY <2>4 DEF OwnerOK, Frame
<1>3. ThreadsOK'
  <2>1. reply' \in [Threads -> Nat]
    BY DEF ThreadsOK, Post
  <2> QED BY <2>1 DEF ThreadsOK
<1>4. ListsOK'
  BY <1>1 DEF ListsOK
<1>5. RingOK' /\ WordsOK' /\ RmwOK' /\ WndsOK' /\ RmwAt'
  BY DEF RingOK, WordsOK, RmwOK, WndsOK, RmwAt
<1> QED BY <1>2, <1>3, <1>4, <1>5

LEMMA DrainClearType == ASSUME Inv, DrainClear PROVE Inv'
<1> USE DEF DrainClear, LoadState, Load, Loaded, Stored, Kept, NoRmw, Inv,
            TypeOK, content, ring, sync, timers, others
<1>1. /\ rmw[Owner].word \in {"none", "lost", "dwState"}
      /\ rmw[Owner].word = "dwState" => rmw[Owner].val \subseteq Flags
  BY DEF RmwOK, RmwAt, Actors
<1>2. WordsOK'
  <2>1. dwState' \subseteq Flags
    BY <1>1 DEF WordsOK
  <2> QED BY <2>1 DEF WordsOK
<1>3. RmwOK'
  BY DEF RmwOK, WordsOK
<1>4. RmwAt'
  <2>1. \A a \in Actors \ {Owner} : rmw'[a] = rmw[a]
    BY DEF RmwOK
  <2>2. /\ rmw'[Owner].word \in {"none", "dwState"}
        /\ rmw'[Owner].word = "dwState" => opc' = "unflag"
    BY <1>1 DEF RmwOK, Actors
  <2> QED BY <2>1, <2>2, ThreadsAssumption DEF RmwAt, Actors
<1>5. RingOK' /\ ListsOK' /\ WndsOK' /\ ThreadsOK' /\ OwnerOK'
  BY DEF RingOK, ListsOK, WndsOK, ThreadsOK, OwnerOK
<1> QED BY <1>2, <1>3, <1>4, <1>5

LEMMA ThrowAwayMessagesType == ASSUME Inv, ThrowAwayMessages PROVE Inv'
<1> USE DEF ThrowAwayMessages, Inv, TypeOK
<1>1. RingOK'
  BY Messages DEF RingOK
<1>2. notify' \in Seq(Message)
  BY Messages DEF ListsOK
<1>3. /\ pFirst' \in Threads \cup {Nil} /\ pLast' \in Threads \cup {Nil}
      /\ pNext' \in [Threads -> Threads \cup {Nil}]
  <2>1. CASE UNCHANGED sync
    BY <2>1 DEF ListsOK, sync
  <2>2. CASE ~UNCHANGED sync
    BY <2>2 DEF ListsOK, ThrowAwaySync, Skips, sync
  <2> QED BY <2>1, <2>2
<1>4. ListsOK'
  BY <1>2, <1>3 DEF ListsOK
<1>5. /\ RmwOK'
      /\ \A a \in Actors : rmw'[a] = rmw[a] \/ rmw'[a].word = "lost"
  BY OvertakesRmw
<1>6. WordsOK' /\ WndsOK' /\ OwnerOK'
  BY DEF WordsOK, WndsOK, OwnerOK
<1>7. RmwAt'
  BY <1>5 DEF RmwAt, Actors
<1>8. ThreadsOK'
  <2>1. reply' \in [Threads -> Nat]
    BY DEF ThreadsOK, ThrowAwaySync, Post
  <2>2. req' \in [Threads -> Message]
    BY Messages DEF ThreadsOK, ThrowAwaySync
  <2>3. \A t \in Threads : pc[t] \in {"inval", "tick"} => req'[t] = req[t]
    BY DEF ThrowAwaySync, Sending
  <2> QED BY <2>1, <2>2, <2>3 DEF ThreadsOK
<1> QED BY <1>1, <1>4, <1>5, <1>6, <1>7, <1>8

LEMMA NextInv == Inv /\ [Next]_vars => Inv'
<1> SUFFICES ASSUME Inv, [Next]_vars PROVE Inv'
  OBVIOUS
<1>1. CASE Loop
  BY <1>1, OwnerMovesType, PeekQuitType, PeekSyncType, PeekNotifyType,
     PeekPostType, PeekPaintType, PeekTimerType, PeekTimerProcType,
     PeekNothingType, HandlerReturnsType
  DEF Loop
<1>2. CASE Application
  BY <1>2, OwnerMovesType, PeekPostMessageType, OwnPostType, OwnNotifyType,
     BeginPaintType, OwnPaintType, OwnQuitType, OwnSendType, DrainTakeType,
     DrainClearType, ThrowAwayMessagesType
  DEF Application
<1>3. CASE \E t \in Threads : Calls(t) \/ Proceeds(t)
  BY <1>3, CallsType, ProceedsType
<1>4. CASE UNCHANGED vars
  BY <1>4 DEF vars, content, ring, sync, timers, others, owner, Inv, TypeOK,
     RingOK, ListsOK, WordsOK, RmwOK, WndsOK, ThreadsOK, OwnerOK, RmwAt
<1> QED BY <1>1, <1>2, <1>3, <1>4 DEF Next

\* Whatever the threads and the owner do, the ring, the lists, the flag words
\* and every outstanding unlocked update keep their types, and an unlocked
\* update belongs to the call its actor is in.
THEOREM TypeCorrect == Spec => []TypeOK
<1>1. Spec => []Inv
  BY InitInv, NextInv, PTL DEF Spec
<1> QED BY <1>1, PTL DEF Inv
-----------------------------------------------------------------------------
(* The flags cover the queue.                                              *)

\* Without PostQuitMessage and without a send of the owner nothing updates
\* dwState outside the lock.
LockedOnly ==
  /\ \A t \in Threads : pc[t] \notin {"quit", "quit2"}
  /\ opc \notin {"quit", "quit2", "drain", "unflag", "answer"}
  /\ \A i \in DOMAIN stack : stack[i].from # Owner

\* Flags are only cleared for the classes that are empty.
LEMMA PastAreEmpty ==
  LET Empty == (IF pFirst = Nil THEN {"SYNC"} ELSE {})
                 \cup (IF notify = <<>> THEN {"NOTIFY"} ELSE {})
                 \cup (IF readpos = writepos THEN {"POST"} ELSE {})
                 \cup {"PAINT", "QUIT"}
  IN  PastSync \cup PastNotify \cup PastPost \cup PastPaint \subseteq Empty
  BY DEF PastSync, PastNotify, PastPost, PastPaint

LEMMA PushedFrames ==
  ASSUME Inv, LockedOnly, NEW m \in Message, NEW from \in Threads \cup {Nil},
         stack' = Append(stack, [m |-> m, from |-> from])
  PROVE  \A i \in DOMAIN stack' : stack'[i].from # Owner
<1> DEFINE Frame == [m : Message, from : Actors \cup {Nil}]
<1>1. stack \in Seq(Frame)
  BY DEF Inv, TypeOK, OwnerOK
<1>2. [m |-> m, from |-> from] \in Frame /\ from # Owner
  BY ThreadsAssumption DEF Actors
<1>3. [m |-> m, from |-> from].from # Owner
  BY <1>2
<1> HIDE DEF Frame
<1> DEFINE x == [m |-> m, from |-> from]
<1>4. x \in Frame /\ x.from # Owner /\ stack' = Append(stack, x)
  BY <1>2, <1>3
<1> HIDE DEF x
<1> QED BY <1>1, <1>4 DEF LockedOnly

LEMMA LockedOnlyStep ==
  ASSUME Quitters = {}, "SendSyncMessage" \notin OwnCalls, Inv, LockedOnly,
         [Next]_vars
  PROVE  LockedOnly'
<1>1. CASE Loop
  <2>1. CASE PeekSync \/ PeekNotify \/ PeekPost \/ PeekPaint \/ PeekTimer
    <3>1. PICK m \in Message, from \in Threads \cup {Nil} : Dispatch(m, from)
      <4>1. CASE PeekSync
        BY <4>1 DEF PeekSync, SyncHit, HasSync, Inv, TypeOK, ListsOK, ThreadsOK
      <4>2. CASE PeekNotify
        BY <4>2 DEF PeekNotify, NotifyHit, HasNotify, Inv, TypeOK, ListsOK
      <4>3. CASE PeekPost
        BY <4>3 DEF PeekPost, Inv, TypeOK, RingOK
      <4>4. CASE PeekPaint
        BY <4>4, Messages DEF PeekPaint, Unpainted, Inv, TypeOK, WndsOK
      <4>5. CASE PeekTimer
        BY <4>5, Messages DEF PeekTimer
      <4> QED BY <2>1, <4>1, <4>2, <4>3, <4>4, <4>5
    <3>2. opc' = "run" /\ UNCHANGED pc
      BY <2>1
      DEF PeekSync, PeekNotify, PeekPost, PeekPaint, PeekTimer, Dispatch
    <3>3. \A i \in DOMAIN stack' : stack'[i].from # Owner
      BY <3>1, PushedFrames DEF Dispatch, LockedOnly
    <3> QED BY <3>2, <3>3 DEF LockedOnly
  <2>2. CASE HandlerReturns
    <3> DEFINE Frame == [m : Message, from : Actors \cup {Nil}]
    <3>1. stack \in Seq(Frame)
      BY DEF Inv, TypeOK, OwnerOK
    <3>2. stack # <<>> /\ stack' = SubSeq(stack, 1, Len(stack) - 1)
      BY <2>2 DEF HandlerReturns
    <3> HIDE DEF Frame
    <3>3. \A i \in DOMAIN stack' : stack'[i].from # Owner
      BY <3>1, <3>2 DEF LockedOnly
    <3>4. Len(stack') \in Nat /\ (stack' # <<>> => Len(stack') \in DOMAIN stack')
      BY <3>1, <3>2
    <3>5. ~SendOnTop'
      BY <3>3, <3>4 DEF SendOnTop
    <3>6. opc' = "run" /\ UNCHANGED pc
      BY <2>2, <3>5 DEF HandlerReturns
    <3> QED BY <3>3, <3>6 DEF LockedOnly
  <2>3. UNCHANGED <<pc, stack>>
        \/ PeekSync \/ PeekNotify \/ PeekPost \/ PeekPaint \/ PeekTimer
        \/ HandlerReturns
    BY <1>1
    DEF Loop, GetMessage, CallPeek, PeekQuit, PeekTimerProc, CallbackReturns,
        PeekNothing, Wake, others
  <2>4. opc' \notin {"quit", "quit2", "drain", "unflag", "answer"}
        \/ PeekSync \/ PeekNotify \/ PeekPost \/ PeekPaint \/ PeekTimer
        \/ HandlerReturns
    BY <1>1
    DEF Loop, GetMessage, CallPeek, PeekQuit, PeekTimerProc, CallbackReturns,
        PeekNothing, Wake, NoMessage
  <2> QED BY <2>1, <2>2, <2>3, <2>4 DEF LockedOnly
<1>2. CASE Application
  <2>1. CASE PeekPostMessage
    <3>1. msg[readpos] \in Message
      BY DEF Inv, TypeOK, RingOK
    <3>2. \A i \in DOMAIN stack' : stack'[i].from # Owner
      BY <2>1, <3>1, PushedFrames DEF PeekPostMessage, LockedOnly
    <3>3. UNCHANGED <<opc, pc>>
      BY <2>1 DEF PeekPostMessage, others
    <3> QED BY <3>2, <3>3 DEF LockedOnly
  <2>2. ~(OwnSend \/ DrainTake \/ DrainEnds \/ DrainClear \/ OwnAnswered)
    BY DEF OwnSend, DrainTake, DrainEnds, DrainClear, OwnAnswered, May, LockedOnly
  <2>3. CASE ~PeekPostMessage
    <3>1. /\ UNCHANGED <<pc, stack>>
          /\ opc' \notin {"quit", "quit2", "drain", "unflag", "answer"}
      BY <1>2, <2>2, <2>3
      DEF Application, PeekMessage, WaitMessage, CallPeek, WaitMessageCheck,
          OwnPost, OwnNotify, BeginPaint, OwnInvalidate, UpdateWindow, OwnQuit,
          DestroyMainWindow, CallThrowAway, ThrowAwayMessages, others, owner,
          LockedOnly
    <3> QED BY <3>1 DEF LockedOnly
  <2> QED BY <2>1, <2>3
<1> USE DEF LockedOnly
<1>3. ASSUME NEW t \in Threads, Calls(t) PROVE LockedOnly'
  BY <1>3
  DEF Calls, PostMessage, SendNotifyMessage, SendSyncMessage, InvalidateRect,
      PostQuitMessage, TimerExpires, Begin, Goto, owner, Inv, TypeOK, ThreadsOK
<1>4. ASSUME NEW t \in Threads, Proceeds(t) PROVE LockedOnly'
  BY <1>4
  DEF Proceeds, QueueMessage, QueueNotify, QueueSync, AddInvalid, PostPaint,
      QueuePaint, Quit, SetTimerFlag, GetValue, SemPost, Answered, Signalled,
      Leave, Goto, owner, Inv, TypeOK, ThreadsOK
<1>5. CASE UNCHANGED vars
  BY <1>5 DEF vars, others, owner
<1> QED BY <1>1, <1>2, <1>3, <1>4, <1>5 DEF Next

LEMMA FlagsStep ==
  ASSUME Inv, LockedOnly, FlagsCoverQueue, [Next]_vars
  PROVE  FlagsCoverQueue'
<1> USE DEF FlagsCoverQueue, content, ring, sync
<1>1. CASE Loop
  <2>1. CASE PeekSync
    BY <2>1 DEF PeekSync, SyncHit, HasSync
  <2>2. CASE PeekNotify
    BY <2>2, PastAreEmpty DEF PeekNotify, ClearState, NotifyHit, HasNotify
  <2>3. CASE PeekPost
    BY <2>3, PastAreEmpty DEF PeekPost, ClearState, PostHit, HasPost
  <2>4. CASE PeekPaint
    BY <2>4, PastAreEmpty DEF PeekPaint, ClearState
  <2>5. CASE PeekTimer \/ PeekTimerProc \/ PeekNothing
    BY <2>5, PastAreEmpty DEF PeekTimer, PeekTimerProc, PeekNothing, ClearState
  <2>6. CASE PeekQuit
    BY <2>6 DEF PeekQuit
  <2>7. CASE GetMessage \/ CallbackReturns \/ Wake \/ HandlerReturns
    BY <2>7 DEF GetMessage, CallPeek, CallbackReturns, Wake, HandlerReturns
  <2> QED BY <1>1, <2>1, <2>2, <2>3, <2>4, <2>5, <2>6, <2>7 DEF Loop
<1>2. CASE Application
  <2>1. CASE OwnPost
    BY <2>1 DEF OwnPost, Enqueue, SetState
  <2>2. CASE OwnNotify
    BY <2>2 DEF OwnNotify, AppendNotify, SetState
  <2>3. CASE OwnInvalidate \/ UpdateWindow
    BY <2>3 DEF OwnInvalidate, UpdateWindow, SetState
  <2>4. CASE PeekPostMessage
    BY <2>4 DEF PeekPostMessage, HasPost
  <2>5. CASE ThrowAwayMessages
    <3>1. notify' # <<>> => notify # <<>>
      BY <2>5 DEF ThrowAwayMessages, Inv, TypeOK, ListsOK
    <3>2. pFirst' # Nil => pFirst # Nil
      BY <2>5 DEF ThrowAwayMessages, ThrowAwaySync
    <3> QED BY <2>5, <3>1, <3>2 DEF ThrowAwayMessages
  <2>6. CASE PeekMessage \/ WaitMessage \/ WaitMessageCheck \/ DestroyMainWindow
               \/ CallThrowAway \/ BeginPaint \/ OwnSend
    BY <2>6
    DEF BeginPaint, OwnSend, PeekMessage, WaitMessage, CallPeek, WaitMessageCheck, DestroyMainWindow,
        CallThrowAway
  <2>7. CASE OwnQuit
    BY <2>7 DEF OwnQuit, LoadDepth, LockedOnly
  <2>8. ~(DrainTake \/ DrainEnds \/ DrainClear \/ OwnAnswered)
    BY DEF DrainTake, DrainEnds, DrainClear, OwnAnswered, LockedOnly
  <2> QED BY <1>2, <2>1, <2>2, <2>3, <2>4, <2>5, <2>6, <2>7, <2>8 DEF Application
<1>3. ASSUME NEW t \in Threads, Calls(t) PROVE FlagsCoverQueue'
  BY <1>3
  DEF Calls, PostMessage, SendNotifyMessage, SendSyncMessage, InvalidateRect,
      PostQuitMessage, TimerExpires, Begin
<1>4. ASSUME NEW t \in Threads, Proceeds(t) PROVE FlagsCoverQueue'
  <2>1. CASE QueueMessage(t)
    BY <2>1 DEF QueueMessage, Enqueue, SetState
  <2>2. CASE QueueNotify(t)
    BY <2>2 DEF QueueNotify, AppendNotify, SetState
  <2>3. CASE QueueSync(t)
    BY <2>3 DEF QueueSync, SetState
  <2>4. CASE QueuePaint(t)
    BY <2>4 DEF QueuePaint, SetState
  <2>5. CASE Quit(t)
    BY <2>5 DEF Quit, LockedOnly
  <2>6. CASE AddInvalid(t) \/ PostPaint(t) \/ SetTimerFlag(t) \/ GetValue(t)
               \/ SemPost(t) \/ Answered(t)
    BY <2>6 DEF AddInvalid, PostPaint, SetTimerFlag, GetValue, SemPost, Answered
  <2> QED BY <1>4, <2>1, <2>2, <2>3, <2>4, <2>5, <2>6 DEF Proceeds
<1>5. CASE UNCHANGED vars
  BY <1>5 DEF vars
<1> QED BY <1>1, <1>2, <1>3, <1>4, <1>5 DEF Next

\* As long as no thread calls PostQuitMessage and the owner sends nothing with
\* SendSyncMessage, the two calls that update dwState without the lock, the
\* flags PeekMessageEx and HavePendingMessage test never hide a queued message:
\* every flag is set with its class and only cleared when the class is empty.
\* Neither assumption can go: quit_race.cfg and send_clear.cfg show a flag
\* that is lost and a message that is hidden.
THEOREM FlagsCover ==
  ASSUME Quitters = {}, "SendSyncMessage" \notin OwnCalls
  PROVE  Spec => []FlagsCoverQueue
<1>1. Init => LockedOnly /\ FlagsCoverQueue
  BY DEF Init, LockedOnly, FlagsCoverQueue
<1> DEFINE I == Inv /\ LockedOnly /\ FlagsCoverQueue
<1>2. Init => I
  BY <1>1, InitInv
<1>3. I /\ [Next]_vars => I'
  BY NextInv, LockedOnlyStep, FlagsStep
<1>4. I => FlagsCoverQueue
  OBVIOUS
<1> QED BY <1>2, <1>3, <1>4, PTL DEF Spec
-----------------------------------------------------------------------------
(* No wake-up is lost.                                                     *)

\* Only GetMessage waits, and it wants every message; without callback timers
\* the owner never sleeps without having looked at the whole queue.
Waits == (peek.bWait => peek.want = Kinds) /\ opc # "callback"

LEMMA WaitsStep ==
  ASSUME ProcSlots = {}, Waits, [Next]_vars PROVE Waits'
<1> USE DEF Waits
<1>1. CASE Loop
  <2>1. CASE GetMessage
    BY <2>1 DEF GetMessage, CallPeek, All
  <2>2. CASE PeekQuit \/ Wake \/ HandlerReturns
    BY <2>2 DEF PeekQuit, Wake, HandlerReturns
  <2>3. CASE PeekSync \/ PeekNotify \/ PeekPost \/ PeekPaint \/ PeekTimer
    BY <2>3 DEF PeekSync, PeekNotify, PeekPost, PeekPaint, PeekTimer, Dispatch
  <2>4. CASE PeekTimerProc \/ CallbackReturns
    BY <2>4 DEF PeekTimerProc, CallbackReturns
  <2>5. CASE PeekNothing
    BY <2>5 DEF PeekNothing, NoMessage
  <2> QED BY <1>1, <2>1, <2>2, <2>3, <2>4, <2>5 DEF Loop
<1>2. CASE Application
  BY <1>2
  DEF Application, PeekMessage, WaitMessage, CallPeek, All, WaitMessageCheck,
      PeekPostMessage, OwnPost, OwnNotify, BeginPaint, OwnInvalidate,
      UpdateWindow, OwnQuit, OwnSend, DrainTake, DrainEnds, DrainClear,
      OwnAnswered, DestroyMainWindow, CallThrowAway, ThrowAwayMessages, owner
<1>3. ASSUME NEW t \in Threads, Calls(t) PROVE Waits'
  BY <1>3
  DEF Calls, PostMessage, SendNotifyMessage, SendSyncMessage, InvalidateRect,
      PostQuitMessage, TimerExpires, Begin, owner
<1>4. ASSUME NEW t \in Threads, Proceeds(t) PROVE Waits'
  BY <1>4
  DEF Proceeds, QueueMessage, QueueNotify, QueueSync, AddInvalid, PostPaint,
      QueuePaint, Quit, SetTimerFlag, GetValue, SemPost, Answered, owner
<1>5. CASE UNCHANGED vars
  BY <1>5 DEF vars, owner
<1> QED BY <1>1, <1>2, <1>3, <1>4, <1>5 DEF Next

LEMMA WakeLoop ==
  ASSUME Inv, FlagsCoverQueue, Waits, NoLostWakeup, Loop PROVE NoLostWakeup'
<1> USE DEF NoLostWakeup, Asleep, Contents, Signalling
<1>1. CASE PeekNothing
  <2>1. CASE ~peek.bWait
    BY <1>1, <2>1 DEF PeekNothing, NoMessage
  <2>2. CASE peek.bWait
    <3>1. \A k : Wanted(k)
      BY <2>2 DEF Waits, Wanted
    <3>2. ~Contents /\ "QUIT" \notin dwState
      BY <1>1, <3>1
      DEF PeekNothing, NoHitBeforeTimers, SyncHit, HasSync, NotifyHit, HasNotify,
          PostHit, HasPost, TimerHit, FlagsCoverQueue
    <3> QED
      BY <1>1, <3>2 DEF PeekNothing, ClearState, content, ring, sync, timers
  <2> QED BY <2>1, <2>2
<1>2. CASE Wake
  BY <1>2 DEF Wake
<1>3. CASE GetMessage
  BY <1>3 DEF GetMessage, CallPeek
<1>4. CASE PeekQuit
  BY <1>4 DEF PeekQuit
<1>5. CASE PeekSync \/ PeekNotify \/ PeekPost \/ PeekPaint \/ PeekTimer
  BY <1>5 DEF PeekSync, PeekNotify, PeekPost, PeekPaint, PeekTimer, Dispatch
<1>6. CASE PeekTimerProc \/ CallbackReturns
  BY <1>6 DEF PeekTimerProc, CallbackReturns, Waits
<1>7. CASE HandlerReturns
  BY <1>7 DEF HandlerReturns
<1> QED BY <1>1, <1>2, <1>3, <1>4, <1>5, <1>6, <1>7 DEF Loop

LEMMA WakeApplication ==
  ASSUME Inv, FlagsCoverQueue, LockedOnly, Waits, NoLostWakeup, Application
  PROVE NoLostWakeup'
<1> USE DEF NoLostWakeup, Asleep, Contents, Signalling
<1>1. CASE WaitMessageCheck
  <2>1. opc' = "wwait" => ~Contents /\ "QUIT" \notin dwState
    BY <1>1
    DEF WaitMessageCheck, HavePendingMessage, HasSync, HasNotify, HasPost,
        FlagsCoverQueue
  <2> QED BY <1>1, <2>1 DEF WaitMessageCheck, content, ring, sync, timers
<1>2. opc' \notin {"wait", "wwait"} \/ WaitMessageCheck
  BY DEF Application, PeekMessage, WaitMessage, CallPeek, PeekPostMessage,
      OwnPost, OwnNotify, BeginPaint, OwnInvalidate, UpdateWindow, OwnQuit, May,
      MayInProc, DestroyMainWindow, CallThrowAway, ThrowAwayMessages, OwnSend,
      DrainTake, DrainEnds, DrainClear, OwnAnswered, owner
<1> QED BY <1>1, <1>2

\* A thread that puts something in the queue goes on to POST_MSGQ; one that
\* leaves POST_MSGQ has seen or made the semaphore positive.
LEMMA WakeThreads ==
  ASSUME Inv, LockedOnly, NoLostWakeup,
         NEW t \in Threads, Calls(t) \/ Proceeds(t)
  PROVE NoLostWakeup'
<1> USE DEF NoLostWakeup, Asleep, Contents, Signalling, owner, Goto, Leave,
            Inv, TypeOK, ThreadsOK
<1>1. CASE Calls(t)
  BY <1>1
  DEF Calls, PostMessage, SendNotifyMessage, SendSyncMessage, InvalidateRect,
      PostQuitMessage, TimerExpires, Begin, content, ring, sync, timers
<1>2. CASE GetValue(t)
  BY <1>2 DEF GetValue, Signalled, content, ring, sync, timers, WordsOK
<1>3. CASE SemPost(t)
  BY <1>3 DEF SemPost, WordsOK
<1>4. CASE QueueMessage(t)
  <2>1. CASE pc'[t] = "sig"
    BY <2>1
  <2>2. CASE pc'[t] # "sig"
    BY <1>4, <2>2 DEF QueueMessage, ring, sync, timers
  <2> QED BY <2>1, <2>2
<1>5. CASE QueueNotify(t) \/ QueueSync(t) \/ QueuePaint(t)
  BY <1>5 DEF QueueNotify, QueueSync, QueuePaint
<1>6. CASE AddInvalid(t) \/ PostPaint(t) \/ Answered(t)
  BY <1>6 DEF AddInvalid, PostPaint, Answered, content, ring, sync, timers
<1>7. CASE SetTimerFlag(t)
  BY <1>7 DEF SetTimerFlag, ring, sync
<1>8. CASE Quit(t)
  BY <1>8 DEF Quit, LockedOnly
<1> QED BY <1>1, <1>2, <1>3, <1>4, <1>5, <1>6, <1>7, <1>8 DEF Proceeds

\* With any number of threads posting, notifying, sending, invalidating and
\* ticking timers in any interleaving, the owner never sleeps on a queue that
\* holds a message, unless a thread inside POST_MSGQ is about to wake it.  The
\* assumptions leave out the three cases in which it can: timers with callbacks
\* (callback_sleep.cfg), quits (quit_race.cfg) and sends of the owner
\* (send_clear.cfg), which update dwState without the lock.
THEOREM NoWakeupLost ==
  ASSUME Quitters = {}, "SendSyncMessage" \notin OwnCalls, ProcSlots = {}
  PROVE  Spec => []NoLostWakeup
<1> DEFINE I == Inv /\ LockedOnly /\ FlagsCoverQueue /\ Waits /\ NoLostWakeup
<1>1. Init => I
  <2>1. Init => LockedOnly /\ FlagsCoverQueue /\ Waits /\ NoLostWakeup
    BY DEF Init, LockedOnly, FlagsCoverQueue, Waits, All, NoLostWakeup, Asleep
  <2> QED BY <2>1, InitInv
<1>2. I /\ [Next]_vars => I'
  <2> SUFFICES ASSUME I, [Next]_vars PROVE I'
    OBVIOUS
  <2>1. Inv' /\ LockedOnly' /\ FlagsCoverQueue' /\ Waits'
    BY NextInv, LockedOnlyStep, FlagsStep, WaitsStep
  <2>2. ASSUME UNCHANGED vars PROVE NoLostWakeup'
    BY <2>2
    DEF vars, content, ring, sync, timers, others, owner, NoLostWakeup, Asleep,
        Contents
  <2>3. NoLostWakeup'
    BY <2>2, WakeLoop, WakeApplication, WakeThreads DEF Next
  <2> QED BY <2>1, <2>3
<1>3. I => NoLostWakeup
  OBVIOUS
<1> QED BY <1>1, <1>2, <1>3, PTL DEF Spec
-----------------------------------------------------------------------------
(* No invalid region is forgotten.                                         *)

\* A thread has marked the region of w and has yet to set QS_PAINT.
Marking(w) == \E t \in Threads : pc[t] \in {"getq", "paint"} /\ req[t].hwnd = w

PaintInv ==
  /\ \A w \in Unpainted : "PAINT" \in dwState \/ Marking(w)
  /\ Asleep => \/ \E t \in Threads : pc[t] \in Signalling
               \/ \A w \in Unpainted : Marking(w)

LEMMA PaintLoop ==
  ASSUME Desktop = FALSE, Inv, Waits, PaintInv, Loop PROVE PaintInv'
<1> USE DEF PaintInv, Unpainted, Marking, Asleep, Signalling, content, timers, others, Inv,
            TypeOK
<1>1. CASE PeekNothing
  <2>1. Unpainted # {} => dwState' \cap {"PAINT"} = dwState \cap {"PAINT"}
    BY <1>1 DEF PeekNothing, ClearState, PastPaint, PastPost, PastNotify, PastSync
  <2>2. CASE ~peek.bWait
    BY <1>1, <2>1, <2>2 DEF PeekNothing, NoMessage
  <2>3. CASE peek.bWait
    <3>1. Wanted("MSG_PAINT")
      BY <2>3 DEF Waits, Wanted
    <3>2. "PAINT" \notin dwState \/ Unpainted = {}
      BY <1>1, <3>1 DEF PeekNothing, NoHitBeforeTimers, PaintHit
    <3> QED BY <1>1, <2>1, <3>2 DEF PeekNothing
  <2> QED BY <2>2, <2>3
<1>2. CASE PeekSync \/ PeekNotify \/ PeekPost \/ PeekPaint \/ PeekTimer
  <2>1. /\ Unpainted # {} => dwState' \cap {"PAINT"} = dwState \cap {"PAINT"}
        /\ UNCHANGED <<inv, alive, pc, req>> /\ opc' = "run"
    BY <1>2
    DEF PeekSync, PeekNotify, PeekPost, PeekPaint, PeekTimer, Dispatch,
        ClearState, PastPaint, PastPost, PastNotify, PastSync
  <2> QED BY <2>1
<1>3. CASE PeekTimerProc
  <2>1. Unpainted # {} => dwState' \cap {"PAINT"} = dwState \cap {"PAINT"}
    BY <1>3
    DEF PeekTimerProc, ClearState, PastPaint, PastPost, PastNotify, PastSync
  <2> QED BY <1>3, <2>1 DEF PeekTimerProc
<1>4. CASE PeekQuit
  BY <1>4 DEF PeekQuit
<1>5. CASE GetMessage \/ Wake \/ HandlerReturns
  BY <1>5 DEF GetMessage, CallPeek, Wake, HandlerReturns
<1>6. CASE CallbackReturns
  BY <1>6 DEF CallbackReturns, Waits
<1> QED BY <1>1, <1>2, <1>3, <1>4, <1>5, <1>6 DEF Loop

LEMMA PaintApplication ==
  ASSUME Quitters = {}, Inv, LockedOnly, PaintInv, Application PROVE PaintInv'
<1> USE DEF PaintInv, Unpainted, Marking, Asleep, Signalling, content, timers, others, owner
<1>1. CASE OwnPost \/ OwnNotify
  BY <1>1 DEF OwnPost, OwnNotify, AppendNotify, Enqueue, SetState, May,
              MayInProc
<1>2. CASE OwnInvalidate \/ UpdateWindow
  BY <1>2 DEF OwnInvalidate, UpdateWindow, SetState, May, MayInProc
<1>3. CASE WaitMessageCheck
  BY <1>3 DEF WaitMessageCheck, HavePendingMessage
<1>4. CASE PeekMessage \/ WaitMessage \/ DestroyMainWindow \/ CallThrowAway
             \/ PeekPostMessage
  BY <1>4 DEF PeekMessage, WaitMessage, CallPeek, DestroyMainWindow,
              CallThrowAway, PeekPostMessage, May
<1>5. CASE ThrowAwayMessages
  <2>1. \A t \in Threads : pc[t] \in {"getq", "paint"} => req'[t] = req[t]
    BY <1>5 DEF ThrowAwayMessages, ThrowAwaySync, Sending
  <2> QED BY <1>5, <2>1 DEF ThrowAwayMessages
<1>6. CASE OwnQuit
  BY <1>6 DEF OwnQuit
<1>7. CASE BeginPaint
  BY <1>7 DEF BeginPaint
<1>8. ~(DrainTake \/ DrainEnds \/ DrainClear \/ OwnAnswered)
  BY DEF DrainTake, DrainEnds, DrainClear, OwnAnswered, LockedOnly
<1>9. CASE OwnSend
  BY <1>9 DEF OwnSend, May
<1> QED
  BY <1>1, <1>2, <1>3, <1>4, <1>5, <1>6, <1>7, <1>8, <1>9 DEF Application

LEMMA PaintThreads ==
  ASSUME Inv, LockedOnly, PaintInv, NEW t \in Threads, Calls(t) \/ Proceeds(t)
  PROVE  PaintInv'
<1> USE DEF PaintInv, Unpainted, Asleep, Signalling, content, timers, owner, Goto, Leave,
            Inv, TypeOK, ThreadsOK
<1>1. CASE Calls(t)
  BY <1>1
  DEF Calls, PostMessage, SendNotifyMessage, SendSyncMessage, InvalidateRect,
      PostQuitMessage, TimerExpires, Begin, Marking
<1>2. CASE QueueMessage(t) \/ QueueNotify(t) \/ QueueSync(t)
  <2>1. dwState \subseteq dwState'
    BY <1>2
    DEF QueueMessage, QueueNotify, QueueSync, Enqueue, AppendNotify, SetState
  <2> QED BY <1>2, <2>1 DEF QueueMessage, QueueNotify, QueueSync, Marking
<1>3. CASE AddInvalid(t)
  BY <1>3 DEF AddInvalid, Marking
<1>4. CASE PostPaint(t)
  BY <1>4 DEF PostPaint, Marking
<1>5. CASE QueuePaint(t)
  BY <1>5 DEF QueuePaint, SetState, Marking
<1>6. CASE SetTimerFlag(t)
  BY <1>6 DEF SetTimerFlag, Marking
<1>7. CASE GetValue(t)
  BY <1>7 DEF GetValue, Signalled, Marking
<1>8. CASE SemPost(t)
  BY <1>8 DEF SemPost, Signalled, Marking, WordsOK
<1>9. CASE Answered(t)
  BY <1>9 DEF Answered, Marking
<1>10. CASE Quit(t)
  BY <1>10 DEF Quit, LockedOnly
<1> QED
  BY <1>1, <1>2, <1>3, <1>4, <1>5, <1>6, <1>7, <1>8, <1>9, <1>10 DEF Proceeds

\* A window that any thread has invalidated stays known to its queue: QS_PAINT
\* is set or the thread is still on its way to set it, although the region and
\* the flag are under different locks; and the owner does not sleep through it.
\* The assumptions leave out the updates of dwState without the lock, by quits
\* and by sends of the owner, which can overwrite QS_PAINT.
THEOREM PaintsKept ==
  ASSUME Quitters = {}, "SendSyncMessage" \notin OwnCalls, ProcSlots = {},
         Desktop = FALSE
  PROVE  Spec => [](PaintNotLost /\ PaintWakes)
<1> DEFINE I == Inv /\ LockedOnly /\ Waits /\ PaintInv
<1>1. Init => I
  <2>1. Init => LockedOnly /\ Waits /\ PaintInv
    BY DEF Init, LockedOnly, Waits, All, PaintInv, Unpainted, Asleep
  <2> QED BY <2>1, InitInv
<1>2. I /\ [Next]_vars => I'
  <2> SUFFICES ASSUME I, [Next]_vars PROVE I'
    OBVIOUS
  <2>1. Inv' /\ LockedOnly' /\ Waits'
    BY NextInv, LockedOnlyStep, WaitsStep
  <2>2. ASSUME UNCHANGED vars PROVE PaintInv'
    BY <2>2 DEF vars, content, others, owner, PaintInv, Unpainted, Marking, Asleep
  <2>3. PaintInv'
    BY <2>2, PaintLoop, PaintApplication, PaintThreads DEF Next
  <2> QED BY <2>1, <2>3
<1>3. I => PaintNotLost /\ PaintWakes
  BY DEF PaintInv, Marking, PaintNotLost, PaintWakes, Asleep, Signalling
<1> QED BY <1>1, <1>2, <1>3, PTL DEF Spec

\* message.c, GetMessage after InvalidateRect: on the same conditions the
\* owner does not sleep through an invalid region unless the thread that
\* marked it has yet to wake it.
THEOREM PaintWakesCorrect ==
  ASSUME Quitters = {}, "SendSyncMessage" \notin OwnCalls, ProcSlots = {},
         Desktop = FALSE
  PROVE  Spec => []PaintWakes
  BY PaintsKept, PTL
-----------------------------------------------------------------------------
(* The semaphore of the owner.                                             *)

\* The threads between the sem_getvalue and the sem_post of POST_MSGQ.
Posting == {t \in Threads : pc[t] \in {"post", "spost"}}

\* What WaitBounded says of a value and a set of threads.
LEMMA PostingFinite ==
  ASSUME NEW S \in SUBSET Threads
  PROVE  /\ IsFiniteSet(S) /\ Cardinality(S) \in Nat
         /\ Cardinality(Threads) \in Nat /\ Cardinality(S) <= Cardinality(Threads)
  BY ThreadsAssumption, FS_Subset, FS_CardinalityType

LEMMA BoundKept ==
  ASSUME WaitBounded, wait \in Nat, wait' = wait, Posting' \subseteq Posting
  PROVE  WaitBounded'
<1>1. Posting \subseteq Threads
  BY DEF Posting
<1>2. /\ Cardinality(Posting') <= Cardinality(Posting)
      /\ Cardinality(Posting') \in Nat /\ Cardinality(Posting) \in Nat
  BY <1>1, PostingFinite, FS_Subset
<1>3. wait + Cardinality(Posting) <= Cardinality(Threads)
  BY DEF WaitBounded, Posting
<1>4. wait' + Cardinality(Posting') <= Cardinality(Threads)
  BY <1>1, <1>2, <1>3, PostingFinite
<1> QED
  BY <1>4 DEF WaitBounded, Posting

LEMMA GetValueBound ==
  ASSUME Inv, WaitBounded, NEW t \in Threads, GetValue(t)
  PROVE  WaitBounded'
<1>1. t \notin Posting /\ Posting \subseteq Threads /\ wait' = wait
      /\ wait \in Nat /\ DOMAIN pc = Threads
  BY DEF GetValue, Posting, Inv, TypeOK, WordsOK, ThreadsOK
<1>2. CASE wait = 0
  <2>1. Posting' \subseteq Posting \cup {t}
    BY <1>1, <1>2 DEF GetValue, Goto, Posting
  <2>2. Posting' \subseteq Threads
    BY <1>1, <2>1
  <2>3. Cardinality(Posting') \in Nat /\ Cardinality(Posting') <= Cardinality(Threads)
    BY <2>2, PostingFinite
  <2> QED
    BY <1>1, <1>2, <2>3 DEF WaitBounded, Posting
<1>3. CASE wait # 0
  <2>1. Posting' \subseteq Posting
    BY <1>1, <1>3 DEF GetValue, Signalled, Goto, Leave, Posting
  <2> QED
    BY <1>1, <2>1, BoundKept
<1> QED
  BY <1>2, <1>3

LEMMA SemPostBound ==
  ASSUME Inv, WaitBounded, NEW t \in Threads, SemPost(t)
  PROVE  WaitBounded'
<1>1. t \in Posting /\ Posting \subseteq Threads /\ wait' = wait + 1
      /\ wait \in Nat /\ DOMAIN pc = Threads
  BY DEF SemPost, Posting, Inv, TypeOK, WordsOK, ThreadsOK
<1>2. Posting' \subseteq Posting \ {t}
  BY <1>1 DEF SemPost, Signalled, Goto, Leave, Posting
<1>3. /\ IsFiniteSet(Posting) /\ Cardinality(Posting) \in Nat
      /\ Cardinality(Threads) \in Nat
  BY <1>1, PostingFinite
<1>4. /\ IsFiniteSet(Posting \ {t})
      /\ Cardinality(Posting \ {t}) = Cardinality(Posting) - 1
  BY <1>1, <1>3, FS_RemoveElement
<1>5. Cardinality(Posting') <= Cardinality(Posting) - 1 /\ Cardinality(Posting') \in Nat
  BY <1>2, <1>4, FS_Subset, FS_CardinalityType
<1>6. wait + Cardinality(Posting) <= Cardinality(Threads)
  BY DEF WaitBounded, Posting
<1>7. wait' + Cardinality(Posting') <= Cardinality(Threads)
  BY <1>1, <1>3, <1>5, <1>6
<1> QED
  BY <1>7 DEF WaitBounded, Posting

LEMMA WakeBound ==
  ASSUME Inv, WaitBounded, Wake
  PROVE  WaitBounded'
<1>1. wait \in Nat /\ wait > 0 /\ wait' = wait - 1 /\ pc' = pc
  BY DEF Wake, Inv, TypeOK, WordsOK, others
<1>2. Posting' = Posting /\ Posting \subseteq Threads
  BY <1>1 DEF Posting
<1>3. Cardinality(Posting) \in Nat /\ Cardinality(Threads) \in Nat
  BY <1>2, PostingFinite
<1>4. PICK n \in Nat : n = Cardinality(Posting)
  BY <1>3
<1>5. wait' + Cardinality(Posting') <= Cardinality(Threads)
  BY <1>1, <1>2, <1>3, <1>4 DEF WaitBounded, Posting
<1> QED
  BY <1>5 DEF WaitBounded, Posting

\* The owner changes nobody's place.
LEMMA OwnerKeepsPlaces ==
  ASSUME Loop \/ Application
  PROVE  pc' = pc /\ (wait' = wait \/ Wake)
<1>1. CASE Loop
  BY <1>1 DEF Loop, GetMessage, CallPeek, PeekQuit, PeekSync, PeekNotify,
     PeekPost, PeekPaint, PeekTimer, PeekTimerProc, CallbackReturns,
     PeekNothing, Wake, HandlerReturns, others
<1>2. CASE Application
  BY <1>2 DEF Application, PeekMessage, WaitMessage, CallPeek, WaitMessageCheck,
     PeekPostMessage, OwnPost, OwnNotify, BeginPaint, OwnInvalidate,
     UpdateWindow, OwnQuit, OwnSend, DrainTake, DrainEnds, DrainClear,
     OwnAnswered, DestroyMainWindow, CallThrowAway, ThrowAwayMessages, others
<1> QED
  BY <1>1, <1>2

\* internals.h, POST_MSGQ: several threads may find the semaphore at 0 and
\* all post it, but its value never exceeds the number of the threads.
THEOREM WaitCorrect == Spec => []WaitBounded
<1>1. Init => WaitBounded
  <2> SUFFICES ASSUME Init PROVE WaitBounded
    OBVIOUS
  <2>1. Posting = {} /\ wait = 0
    BY DEF Init, Posting
  <2> QED
    BY <2>1, PostingFinite, FS_EmptySet DEF WaitBounded, Posting
<1>2. Inv /\ WaitBounded /\ [Next]_vars => WaitBounded'
  <2> SUFFICES ASSUME Inv, WaitBounded, [Next]_vars PROVE WaitBounded'
    OBVIOUS
  <2>1. wait \in Nat /\ DOMAIN pc = Threads
    BY DEF Inv, TypeOK, WordsOK, ThreadsOK
  <2>2. CASE UNCHANGED vars
    BY <2>1, <2>2, BoundKept DEF vars, others, Posting
  <2>3. CASE Loop \/ Application
    BY <2>1, <2>3, OwnerKeepsPlaces, BoundKept, WakeBound DEF Posting
  <2>4. ASSUME NEW t \in Threads, Calls(t)
        PROVE  WaitBounded'
    <3>1. wait' = wait /\ \E p \in {"queue", "notify", "sync", "inval", "quit", "tick"} : Goto(t, p)
      BY <2>4 DEF Calls, PostMessage, SendNotifyMessage, SendSyncMessage,
         InvalidateRect, PostQuitMessage, TimerExpires, Begin
    <3>2. Posting' \subseteq Posting
      BY <2>1, <3>1 DEF Goto, Posting
    <3> QED
      BY <2>1, <3>1, <3>2, BoundKept
  <2>5. ASSUME NEW t \in Threads, Proceeds(t)
        PROVE  WaitBounded'
    <3>1. CASE GetValue(t) \/ SemPost(t)
      BY <3>1, GetValueBound, SemPostBound
    <3>2. CASE ~(GetValue(t) \/ SemPost(t))
      <4>1. wait' = wait /\ (pc' = pc \/ \E p \in {"idle", "sig", "ssig", "getq", "paint", "quit2"} : Goto(t, p))
        BY <2>5, <3>2
           DEF Proceeds, QueueMessage, QueueNotify, QueueSync, AddInvalid,
               PostPaint, QueuePaint, Quit, SetTimerFlag, Answered, Leave
      <4>2. Posting' \subseteq Posting
        BY <2>1, <4>1 DEF Goto, Posting
      <4> QED
        BY <2>1, <4>1, <4>2, BoundKept
    <3> QED
      BY <3>1, <3>2
  <2> QED
    BY <2>2, <2>3, <2>4, <2>5 DEF Next
<1> QED
  BY <1>1, <1>2, InitInv, NextInv, PTL DEF Spec

-----------------------------------------------------------------------------
(* Quits.                                                                  *)

\* The other threads only tick timers: nobody but the owner writes dwState.
OwnerAlone ==
  /\ Posts = {} /\ Notifies = {} /\ Syncs = {} /\ Paints = {}
  /\ Quitters \subseteq {Owner}

\* Where PostQuitMessage is, and what it has loaded, is still what it will
\* update; QS_QUIT follows loop_depth except between its two updates.  What the
\* owner's send has loaded to clear QS_SYNCMSG has the QS_QUIT of dwState.
QuitInv ==
  /\ \A t \in Threads : pc[t] \in {"idle", "tick", "sig", "post"}
  /\ loop_depth >= 0
  /\ opc \notin {"quit", "quit2", "unflag"} => rmw[Owner].word = "none"
  /\ opc = "unflag" =>
       /\ rmw[Owner].word \in {"none", "dwState"}
       /\ rmw[Owner].word = "dwState" =>
            ("QUIT" \in rmw[Owner].val <=> "QUIT" \in dwState)
  /\ opc = "quit" => rmw[Owner].word = "loop_depth" /\ rmw[Owner].val = {loop_depth}
  /\ opc = "quit2" => /\ loop_depth > 0
                      /\ rmw[Owner].word \in {"none", "dwState"}
  /\ opc # "quit2" => ("QUIT" \in dwState <=> loop_depth > 0)

\* A step that changes neither of the two words, nor the owner's update.
LEMMA QuitKept ==
  ASSUME QuitInv, pc' = pc, loop_depth' = loop_depth, rmw'[Owner] = rmw[Owner],
         "QUIT" \in dwState' <=> "QUIT" \in dwState,
         opc \notin {"quit", "quit2", "unflag"}, opc' \notin {"quit", "quit2"}
  PROVE  QuitInv'
  BY DEF QuitInv

\* No section can overtake an owner that is in no update.
LEMMA OwnerNotOvertaken ==
  ASSUME NEW ws, "none" \notin ws, rmw[Owner].word = "none", Overtakes(ws)
  PROVE  rmw'[Owner] = rmw[Owner]
  BY DEF Overtakes, Actors

LEMMA SetStateQuit ==
  ASSUME NEW fs, SetState(fs), "QUIT" \notin fs, rmw[Owner].word = "none"
  PROVE  /\ rmw'[Owner] = rmw[Owner]
         /\ "QUIT" \in dwState' <=> "QUIT" \in dwState
  BY OwnerNotOvertaken DEF SetState

LEMMA ClearStateQuit ==
  ASSUME NEW fs, NEW ws, ClearState(fs, ws), "QUIT" \notin fs, "none" \notin ws,
         rmw[Owner].word = "none"
  PROVE  /\ rmw'[Owner] = rmw[Owner]
         /\ "QUIT" \in dwState' <=> "QUIT" \in dwState
  BY OwnerNotOvertaken DEF ClearState

LEMMA QuitLoop ==
  ASSUME Inv, QuitInv, Loop
  PROVE  QuitInv'
<1>0. /\ opc \in {"check", "run", "callback", "wait", "wwait"}
      /\ rmw[Owner].word = "none"
  BY DEF Loop, GetMessage, PeekQuit, PeekSync, PeekNotify, PeekPost, PeekPaint,
     PeekTimer, PeekTimerProc, CallbackReturns, PeekNothing, Wake,
     HandlerReturns, QuitInv
<1>1. /\ "QUIT" \notin PastSync /\ "QUIT" \notin PastNotify
      /\ "QUIT" \notin PastPost /\ "QUIT" \notin PastPaint
  BY DEF PastSync, PastNotify, PastPost, PastPaint
<1>2. CASE PeekQuit
  <2>1. CASE peek.remove /\ loop_depth = 1
    <3>1. /\ loop_depth' = 0 /\ dwState' = dwState \ {"QUIT"}
          /\ Overtakes({"loop_depth", "dwState"})
      BY <1>2, <2>1 DEF PeekQuit
    <3>2. rmw'[Owner] = rmw[Owner]
      BY <1>0, <3>1, OwnerNotOvertaken
    <3> QED
      BY <1>0, <1>2, <3>1, <3>2 DEF QuitInv, PeekQuit, others
  <2>2. CASE peek.remove /\ loop_depth # 1
    <3>1. /\ loop_depth' = loop_depth - 1 /\ dwState' = dwState
          /\ Overtakes({"loop_depth"})
      BY <1>2, <2>2 DEF PeekQuit
    <3>2. rmw'[Owner] = rmw[Owner]
      BY <1>0, <3>1, OwnerNotOvertaken
    <3>3. loop_depth \in Int /\ loop_depth > 0
      BY <1>2 DEF PeekQuit, QuitInv, Inv, TypeOK, WordsOK
    <3> QED
      BY <1>0, <1>2, <2>2, <3>1, <3>2, <3>3 DEF QuitInv, PeekQuit, others
  <2>3. CASE ~peek.remove
    BY <1>0, <1>2, <2>3, QuitKept DEF PeekQuit, others
  <2> QED
    BY <2>1, <2>2, <2>3
<1>3. CASE PeekNotify \/ PeekPost \/ PeekPaint
  BY <1>0, <1>1, <1>3, ClearStateQuit, QuitKept
     DEF PeekNotify, PeekPost, PeekPaint, Dispatch
<1>4. CASE PeekTimer \/ PeekTimerProc \/ PeekNothing
  BY <1>0, <1>1, <1>4, ClearStateQuit, QuitKept
     DEF PeekTimer, PeekTimerProc, PeekNothing, NoMessage, Dispatch, others
<1>5. CASE PeekSync
  BY <1>0, <1>5, QuitKept DEF PeekSync, Dispatch
<1>6. CASE GetMessage \/ CallbackReturns \/ Wake \/ HandlerReturns
  BY <1>0, <1>6, QuitKept
     DEF GetMessage, CallPeek, CallbackReturns, NoMessage, Wake, HandlerReturns,
         others
<1> QED
  BY <1>2, <1>3, <1>4, <1>5, <1>6 DEF Loop

LEMMA QuitApplication ==
  ASSUME Inv, QuitInv, Application
  PROVE  QuitInv'
<1>1. CASE OwnQuit
  <2>0. DOMAIN rmw = Actors /\ Owner \in Actors /\ loop_depth \in Int
    BY DEF Inv, TypeOK, RmwOK, Actors, WordsOK
  <2>1. CASE opc = "run" /\ LoadDepth(Owner) /\ opc' = "quit"
    BY <1>1, <2>0, <2>1 DEF OwnQuit, LoadDepth, Load, QuitInv, others
  <2>2. CASE opc = "quit" /\ StoreDepth(Owner) /\ opc' = "quit2"
    <3>1. /\ rmw[Owner].word = "loop_depth" /\ rmw[Owner].val = {loop_depth}
      BY <2>2 DEF QuitInv
    <3>2. (CHOOSE n \in {loop_depth} : TRUE) = loop_depth
      OBVIOUS
    <3>3. loop_depth' = 1 + loop_depth
      BY <2>2, <3>1, <3>2 DEF StoreDepth, Kept
    <3>4. rmw'[Owner].word = "none"
      BY <2>0, <2>2 DEF StoreDepth, Stored, NoRmw
    <3> QED
      BY <1>1, <2>0, <2>2, <3>3, <3>4 DEF OwnQuit, StoreDepth, QuitInv, others
  <2>3. CASE opc = "quit2" /\ LoadState(Owner) /\ UNCHANGED opc
    BY <1>1, <2>0, <2>3 DEF OwnQuit, LoadState, Load, QuitInv, others
  <2>4. CASE opc = "quit2" /\ StoreState(Owner) /\ opc' = "run"
    <3>1. rmw[Owner].word = "dwState"
      BY <2>4 DEF StoreState, Loaded, QuitInv
    <3>2. "QUIT" \in dwState' /\ loop_depth' = loop_depth
      BY <2>4, <3>1 DEF StoreState, Kept
    <3>3. rmw'[Owner].word = "none"
      BY <2>0, <2>4 DEF StoreState, Stored, NoRmw
    <3> QED
      BY <1>1, <2>4, <3>2, <3>3 DEF OwnQuit, QuitInv, others
  <2> QED
    BY <1>1, <2>1, <2>2, <2>3, <2>4 DEF OwnQuit
<1>2. CASE DrainClear
  <2>0. DOMAIN rmw = Actors /\ Owner \in Actors
    BY DEF Inv, TypeOK, RmwOK, Actors
  <2>1. CASE LoadState(Owner) /\ UNCHANGED opc
    BY <1>2, <2>0, <2>1 DEF DrainClear, LoadState, Load, QuitInv, others
  <2>2. CASE ~(LoadState(Owner) /\ UNCHANGED opc)
    <3>1. /\ rmw[Owner].word = "dwState" /\ opc = "unflag" /\ opc' = "answer"
          /\ dwState' = rmw[Owner].val \ {"SYNC"} /\ loop_depth' = loop_depth
      BY <1>2, <2>2 DEF DrainClear, Loaded, Kept, QuitInv
    <3>2. rmw'[Owner].word = "none"
      BY <1>2, <2>0, <2>2 DEF DrainClear, Stored, NoRmw
    <3>3. "QUIT" \in dwState' <=> "QUIT" \in dwState
      BY <3>1 DEF QuitInv
    <3> QED
      BY <1>2, <3>1, <3>2, <3>3 DEF DrainClear, QuitInv, others
  <2> QED
    BY <2>1, <2>2
<1>3. CASE ~OwnQuit /\ ~DrainClear
  <2>0. /\ opc \in {"run", "callback", "wcheck", "throw", "drain", "answer"}
        /\ rmw[Owner].word = "none"
    BY <1>3 DEF Application, PeekMessage, WaitMessage, WaitMessageCheck,
       PeekPostMessage, OwnPost, OwnNotify, BeginPaint, OwnInvalidate,
       UpdateWindow, OwnSend, DrainTake, DrainEnds, OwnAnswered,
       DestroyMainWindow, CallThrowAway, ThrowAwayMessages,
       May, MayInProc, QuitInv
  <2>1. CASE OwnPost \/ OwnNotify
    BY <2>0, <2>1, SetStateQuit, QuitKept
       DEF OwnPost, OwnNotify, Enqueue, AppendNotify, others, owner
  <2>2. CASE OwnInvalidate \/ UpdateWindow
    BY <2>0, <2>2, SetStateQuit, QuitKept
       DEF OwnInvalidate, UpdateWindow, others, owner
  <2>3. CASE ThrowAwayMessages
    <3>1. Overtakes({}) \/ Overtakes({"TimerMask"})
      BY <2>3 DEF ThrowAwayMessages
    <3>2. rmw'[Owner] = rmw[Owner]
      BY <2>0, <3>1, OwnerNotOvertaken
    <3> QED
      BY <2>0, <2>3, <3>2, QuitKept DEF ThrowAwayMessages
  <2>4. CASE \/ PeekMessage \/ WaitMessage \/ WaitMessageCheck
             \/ PeekPostMessage \/ BeginPaint
             \/ DestroyMainWindow \/ CallThrowAway
    BY <2>0, <2>4, QuitKept
       DEF PeekMessage, WaitMessage, CallPeek, WaitMessageCheck, PeekPostMessage,
           BeginPaint, DestroyMainWindow, CallThrowAway, others, owner
  <2>5. CASE OwnSend \/ DrainTake \/ DrainEnds \/ OwnAnswered
    BY <2>0, <2>5, QuitKept
       DEF OwnSend, DrainTake, DrainEnds, OwnAnswered, others
  <2> QED
    BY <1>3, <2>1, <2>2, <2>3, <2>4, <2>5 DEF Application
<1> QED
  BY <1>1, <1>2, <1>3

LEMMA QuitThreads ==
  ASSUME Inv, QuitInv, OwnerAlone, NEW t \in Threads, Calls(t) \/ Proceeds(t)
  PROVE  QuitInv'
<1>0. /\ DOMAIN rmw = Actors /\ DOMAIN pc = Threads /\ t # Owner
      /\ pc[t] \in {"idle", "tick", "sig", "post"}
  BY ThreadsAssumption DEF Inv, TypeOK, RmwOK, ThreadsOK, QuitInv
<1>1. CASE TimerExpires(t)
  BY <1>0, <1>1 DEF TimerExpires, Begin, Goto, owner, QuitInv
<1>2. CASE SetTimerFlag(t)
  <2>1. rmw'[Owner] = rmw[Owner]
    BY <1>0, <1>2 DEF SetTimerFlag, Load, Stored, Actors
  <2> QED
    BY <1>0, <1>2, <2>1 DEF SetTimerFlag, Goto, owner, QuitInv
<1>3. CASE GetValue(t) \/ SemPost(t)
  BY <1>0, <1>3
     DEF GetValue, SemPost, Signalled, Goto, Leave, owner, QuitInv
<1>4. TimerExpires(t) \/ SetTimerFlag(t) \/ GetValue(t) \/ SemPost(t)
  BY <1>0, ThreadsAssumption
     DEF OwnerAlone, Calls, PostMessage, SendNotifyMessage, SendSyncMessage,
         InvalidateRect, PostQuitMessage, Proceeds, QueueMessage, QueueNotify,
         QueueSync, AddInvalid, PostPaint, QueuePaint, Quit, Answered
<1> QED
  BY <1>1, <1>2, <1>3, <1>4

\* window.h:2277, "The next call to GetMessage will return 0.": when nobody
\* but the owner writes dwState, QS_QUIT is up at every look into the queue
\* as long as a posted quit has not ended its loop, and not longer.
THEOREM QuitCorrect == ASSUME OwnerAlone PROVE Spec => []QuitSeen
<1>1. Init => QuitInv
  BY DEF Init, QuitInv, NoRmw, Actors
<1>2. Inv /\ QuitInv /\ [Next]_vars => QuitInv'
  <2>1. UNCHANGED vars /\ QuitInv => QuitInv'
    BY DEF vars, others, owner, QuitInv
  <2> QED
    BY <2>1, QuitLoop, QuitApplication, QuitThreads DEF Next
<1>3. QuitInv => QuitSeen
  BY DEF QuitInv, QuitSeen
<1> QED
  BY <1>1, <1>2, <1>3, InitInv, NextInv, PTL DEF Spec

-----------------------------------------------------------------------------
(* The ring.                                                               *)

LEMMA ModBufLen ==
  ASSUME NEW x \in 0 .. 2 * BufLen - 1
  PROVE  x % BufLen = IF x < BufLen THEN x ELSE x - BufLen
  BY SizesAssumption, SMTT(30)

\* How far cell i lies behind cell r, and the k-th cell from r on.
Behind(i, r) == IF r <= i THEN i - r ELSE i - r + BufLen
Cell(r, k)   == IF r + k - 1 < BufLen THEN r + k - 1 ELSE r + k - 1 - BufLen

LEMMA BehindIs ==
  ASSUME NEW i \in Cells, NEW r \in Cells
  PROVE  /\ (i - r + BufLen) % BufLen = Behind(i, r)
         /\ Behind(i, r) \in 0 .. BufLen - 1
         /\ Cell(r, Behind(i, r) + 1) = i
<1>1. PICK x : x = i - r + BufLen
  OBVIOUS
<1>2. x \in 0 .. 2 * BufLen - 1 /\ BufLen \in Nat \ {0} /\ i \in Int /\ r \in Int
  BY <1>1, SizesAssumption DEF Cells
<1>3. x % BufLen = IF x < BufLen THEN x ELSE x - BufLen
  BY <1>2, ModBufLen
<1>4. (i - r + BufLen) % BufLen = Behind(i, r)
  BY <1>1, <1>2, <1>3 DEF Behind
<1> QED
  BY <1>2, <1>4 DEF Behind, Cell, Cells

LEMMA CellIs ==
  ASSUME NEW r \in Cells, NEW k \in 1 .. BufLen
  PROVE  /\ (r + k - 1) % BufLen = Cell(r, k)
         /\ Cell(r, k) \in Cells /\ Behind(Cell(r, k), r) = k - 1
<1>1. PICK x : x = r + k - 1
  OBVIOUS
<1>2. x \in 0 .. 2 * BufLen - 1 /\ BufLen \in Nat \ {0} /\ r \in Int /\ k \in Int
  BY <1>1, SizesAssumption DEF Cells
<1>3. x % BufLen = IF x < BufLen THEN x ELSE x - BufLen
  BY <1>2, ModBufLen
<1>4. (r + k - 1) % BufLen = Cell(r, k)
  BY <1>1, <1>2, <1>3 DEF Cell
<1> QED
  BY <1>2, <1>4 DEF Behind, Cell, Cells

LEMMA NextCell ==
  ASSUME NEW r \in Cells
  PROVE  /\ (r + 1) % BufLen = IF r + 1 = BufLen THEN 0 ELSE r + 1
         /\ (r + 1) % BufLen \in Cells
<1>1. PICK x : x = r + 1
  OBVIOUS
<1>2. x \in 0 .. 2 * BufLen - 1 /\ BufLen \in Nat \ {0} /\ r \in 0 .. BufLen - 1
  BY <1>1, SizesAssumption DEF Cells
<1>3. x % BufLen = IF x < BufLen THEN x ELSE x - BufLen
  BY <1>2, ModBufLen
<1> QED
  BY <1>1, <1>2, <1>3 DEF Cells

\* The live cells are the first Used ones from readpos on.
LEMMA RingIs ==
  ASSUME RingOK
  PROVE  /\ Used = Behind(writepos, readpos) /\ Used \in 0 .. BufLen - 1
         /\ \A i \in Cells : Dist(i) = Behind(i, readpos)
         /\ \A i : i \in Live <=> i \in Cells /\ Behind(i, readpos) < Used
         /\ readpos # writepos <=> Used > 0
<1>1. readpos \in Cells /\ writepos \in Cells
  BY DEF RingOK
<1>2. Used = Behind(writepos, readpos) /\ Used \in 0 .. BufLen - 1
  BY <1>1, BehindIs DEF Used
<1>3. \A i \in Cells : Dist(i) = Behind(i, readpos)
  BY <1>1, BehindIs DEF Dist
<1>4. readpos # writepos <=> Used > 0
  BY <1>1, <1>2, SizesAssumption DEF Behind, Cells
<1> QED
  BY <1>2, <1>3, <1>4 DEF Live

\* A message is taken at the read end.
TakesRing ==
  /\ readpos # writepos
  /\ readpos' = (readpos + 1) % BufLen
  /\ UNCHANGED <<msg, writepos>>
\* A message is put at the write end.
PutsRing ==
  /\ ~Full
  /\ writepos' = (writepos + 1) % BufLen
  /\ UNCHANGED readpos

LEMMA TakeRing ==
  ASSUME RingOK, TakesRing
  PROVE  /\ Used' = Used - 1
         /\ \A i \in Cells \ {readpos} : Behind(i, readpos') = Behind(i, readpos) - 1
         /\ \A i : i \in Live' <=> i \in Live /\ i # readpos
<1>1. readpos \in Cells /\ writepos \in Cells /\ readpos # writepos
  BY DEF RingOK, TakesRing
<1>2. /\ readpos' = (IF readpos + 1 = BufLen THEN 0 ELSE readpos + 1)
      /\ readpos' \in Cells /\ writepos' = writepos
  BY <1>1, NextCell DEF TakesRing
<1>3. \A i \in Cells \ {readpos} : Behind(i, readpos') = Behind(i, readpos) - 1
  BY <1>1, <1>2, SizesAssumption DEF Behind, Cells
<1>4. Used = Behind(writepos, readpos) /\ Used \in 0 .. BufLen - 1 /\ Used > 0
  BY <1>1, RingIs
<1>5. Used' = Behind(writepos, readpos')
  BY <1>1, <1>2, BehindIs DEF Used
<1>6. Used' = Used - 1
  BY <1>1, <1>3, <1>4, <1>5
<1>7. \A i : i \in Live' <=> i \in Cells /\ Behind(i, readpos') < Used'
  BY <1>2, BehindIs DEF Live, Dist
<1>8. Behind(readpos, readpos) = 0 /\ Behind(readpos, readpos') = BufLen - 1
  BY <1>1, <1>2, SizesAssumption DEF Behind, Cells
<1>9. \A i \in Cells : Behind(i, readpos) \in Int
  BY <1>1, BehindIs
<1>10. \A i : i \in Live <=> i \in Cells /\ Behind(i, readpos) < Used
  BY RingIs
<1> QED
  BY <1>3, <1>4, <1>6, <1>7, <1>8, <1>9, <1>10, SizesAssumption

LEMMA PutRing ==
  ASSUME RingOK, PutsRing
  PROVE  /\ Used' = Used + 1 /\ Used < BufLen - 1
         /\ writepos = Cell(readpos, Used + 1) /\ Behind(writepos, readpos) = Used
         /\ \A i : i \in Live' <=> i \in Live \/ i = writepos
<1>1. readpos \in Cells /\ writepos \in Cells
  BY DEF RingOK
<1>2. /\ writepos' = (IF writepos + 1 = BufLen THEN 0 ELSE writepos + 1)
      /\ writepos' \in Cells /\ readpos' = readpos /\ writepos' # readpos
  BY <1>1, NextCell DEF PutsRing, Full
<1>3. Used = Behind(writepos, readpos) /\ Used \in 0 .. BufLen - 1
  BY RingIs
<1>4. Used' = Behind(writepos', readpos)
  BY <1>1, <1>2, BehindIs DEF Used
<1>5. Used' = Used + 1 /\ Used < BufLen - 1
  BY <1>1, <1>2, <1>3, <1>4, SizesAssumption DEF Behind, Cells
<1>6. writepos = Cell(readpos, Used + 1)
  BY <1>1, <1>3, BehindIs
<1>7. \A i : i \in Live' <=> i \in Cells /\ Behind(i, readpos) < Used'
  BY <1>1, <1>2, BehindIs DEF Live, Dist
<1>8. \A i \in Cells : /\ Behind(i, readpos) \in Int
                       /\ Cell(readpos, Behind(i, readpos) + 1) = i
  BY <1>1, BehindIs
<1>9. \A i : i \in Live <=> i \in Cells /\ Behind(i, readpos) < Used
  BY RingIs
<1>10. \A i \in Cells : Behind(i, readpos) = Used => i = writepos
  BY <1>6, <1>8
<1> QED
  BY <1>1, <1>3, <1>5, <1>6, <1>7, <1>8, <1>9, <1>10

LEMMA SameRing ==
  ASSUME readpos' = readpos, writepos' = writepos
  PROVE  Used' = Used /\ Live' = Live
  BY DEF Used, Live, Dist


\* What a step may do to the ring.
RingPut(m) ==
  \/ /\ \E i \in Replaced(m) : msg' = [msg EXCEPT ![i] = m]
     /\ UNCHANGED <<readpos, writepos>>
  \/ /\ Same(m) = {} /\ PutsRing
     /\ msg' = [msg EXCEPT ![writepos] = m]
RingThrow(w) ==
  /\ msg' = [i \in Cells |-> IF i \in Live /\ msg[i].hwnd = w THEN Canceled(msg[i])
                                                            ELSE msg[i]]
  /\ UNCHANGED <<readpos, writepos>>
RingStep ==
  \/ \E m \in Posts \cup OwnPosts : RingPut(m)
  \/ TakesRing
  \/ \E w \in Wnds : RingThrow(w)
  \/ UNCHANGED ring

\* What is being posted is a message of Posts, and what is being thrown away
\* are the messages of a window.
RingCalls ==
  /\ \A t \in Threads : pc[t] = "queue" => req[t] \in Posts
  /\ opc = "throw" => victim \in Wnds

LEMMA EnqueueRing ==
  ASSUME NEW m, Enqueue(m) PROVE RingPut(m)
  BY DEF Enqueue, RingPut, PutsRing

LEMMA RingLoop ==
  ASSUME Inv, RingCalls, Loop
  PROVE  RingCalls' /\ RingStep
<1>1. CASE PeekPost
  <2>1. readpos # writepos /\ UNCHANGED <<msg, writepos, pc, req>> /\ opc' = "run"
    BY <1>1 DEF PeekPost, PostHit, HasPost, Dispatch
  <2>2. TakesRing \/ UNCHANGED ring
    BY <1>1, <2>1 DEF PeekPost, TakesRing, ring
  <2> QED
    BY <2>1, <2>2 DEF RingCalls, RingStep
<1>2. CASE ~PeekPost
  <2>1. UNCHANGED ring
    BY <1>2 DEF Loop, GetMessage, CallPeek, PeekQuit, PeekSync, PeekNotify,
       PeekPaint, PeekTimer, PeekTimerProc, CallbackReturns, PeekNothing, Wake,
       HandlerReturns, content, ring
  <2>2. opc' # "throw" /\ UNCHANGED <<pc, req>>
    BY <1>2 DEF Loop, GetMessage, CallPeek, PeekQuit, PeekSync, PeekNotify,
       PeekPaint, PeekTimer, PeekTimerProc, CallbackReturns, PeekNothing, Wake,
       HandlerReturns, Dispatch, NoMessage, others
  <2> QED
    BY <2>1, <2>2 DEF RingCalls, RingStep
<1> QED
  BY <1>1, <1>2

LEMMA RingApplication ==
  ASSUME Inv, RingCalls, Application
  PROVE  RingCalls' /\ RingStep
<1>1. CASE OwnPost
  <2>1. \E m \in OwnPosts : RingPut(m)
    BY <1>1, EnqueueRing DEF OwnPost
  <2>2. RingCalls'
    BY <1>1 DEF OwnPost, others, owner, RingCalls
  <2> QED
    BY <2>1, <2>2 DEF RingStep
<1>2. CASE PeekPostMessage
  <2>1. TakesRing
    BY <1>2 DEF PeekPostMessage, TakesRing, HasPost
  <2>2. RingCalls'
    BY <1>2 DEF PeekPostMessage, others, RingCalls, May
  <2> QED
    BY <2>1, <2>2 DEF RingStep
<1>3. CASE ThrowAwayMessages
  <2>1. victim \in Wnds /\ RingThrow(victim)
    BY <1>3 DEF ThrowAwayMessages, RingThrow, OfVictim, RingCalls
  <2>2. \A t \in Threads : pc[t] = "queue" => req'[t] = req[t]
    BY <1>3 DEF ThrowAwayMessages, ThrowAwaySync, Sending, Inv, TypeOK, ThreadsOK
  <2>3. RingCalls'
    BY <1>3, <2>2 DEF ThrowAwayMessages, RingCalls
  <2> QED
    BY <2>1, <2>3 DEF RingStep
<1>4. CASE ~(OwnPost \/ PeekPostMessage \/ ThrowAwayMessages)
  <2>1. UNCHANGED ring /\ UNCHANGED <<pc, req>>
    BY <1>4 DEF Application, PeekMessage, WaitMessage, CallPeek,
       WaitMessageCheck, OwnNotify, BeginPaint, OwnInvalidate, UpdateWindow,
       OwnQuit, OwnSend, DrainTake, DrainEnds, DrainClear, OwnAnswered,
       DestroyMainWindow, CallThrowAway, content, ring, others
  <2>2. opc' = "throw" => victim' \in Wnds
    BY <1>4 DEF Application, PeekMessage, WaitMessage, CallPeek,
       WaitMessageCheck, OwnNotify, BeginPaint, OwnInvalidate, UpdateWindow,
       OwnQuit, OwnSend, DrainTake, DrainEnds, DrainClear, OwnAnswered,
       DestroyMainWindow, CallThrowAway, owner, RingCalls, May,
       Inv, TypeOK, WndsOK
  <2> QED
    BY <2>1, <2>2 DEF RingCalls, RingStep
<1> QED
  BY <1>1, <1>2, <1>3, <1>4

LEMMA RingThreads ==
  ASSUME Inv, RingCalls, NEW t \in Threads, Calls(t) \/ Proceeds(t)
  PROVE  RingCalls' /\ RingStep
<1>0. DOMAIN pc = Threads /\ DOMAIN req = Threads
  BY DEF Inv, TypeOK, ThreadsOK
<1>1. CASE Calls(t)
  <2>1. UNCHANGED ring /\ UNCHANGED owner
    BY <1>1 DEF Calls, PostMessage, SendNotifyMessage, SendSyncMessage,
       InvalidateRect, PostQuitMessage, TimerExpires, Begin, content
  <2>2. \E p, m : Begin(t, p, m) /\ (p = "queue" => m \in Posts)
    BY <1>1 DEF Calls, PostMessage, SendNotifyMessage, SendSyncMessage,
       InvalidateRect, PostQuitMessage, TimerExpires
  <2> QED
    BY <1>0, <2>1, <2>2 DEF Begin, Goto, owner, RingCalls, RingStep
<1>2. CASE QueueMessage(t)
  <2>1. RingStep
    BY <1>2, EnqueueRing DEF QueueMessage, RingCalls, RingStep
  <2>2. RingCalls'
    BY <1>0, <1>2 DEF QueueMessage, Goto, Leave, owner, RingCalls
  <2> QED
    BY <2>1, <2>2
<1>3. CASE Proceeds(t) /\ ~QueueMessage(t)
  <2>1. UNCHANGED ring /\ UNCHANGED owner
    BY <1>3 DEF Proceeds, QueueNotify, QueueSync, AddInvalid, PostPaint,
       QueuePaint, Quit, SetTimerFlag, GetValue, SemPost, Answered, content
  <2>2. \/ UNCHANGED <<pc, req>>
        \/ UNCHANGED req /\ \E p : p # "queue" /\ Goto(t, p)
        \/ Leave(t)
    BY <1>3 DEF Proceeds, QueueNotify, QueueSync, AddInvalid, PostPaint,
       QueuePaint, Quit, SetTimerFlag, GetValue, SemPost, Answered, Signalled
  <2> QED
    BY <1>0, <2>1, <2>2 DEF Goto, Leave, owner, RingCalls, RingStep
<1> QED
  BY <1>1, <1>2, <1>3

LEMMA RingNext ==
  ASSUME Inv, RingCalls, [Next]_vars
  PROVE  RingCalls' /\ RingStep
<1>1. CASE UNCHANGED vars
  BY <1>1 DEF vars, content, ring, others, owner, RingCalls, RingStep
<1> QED
  BY <1>1, RingLoop, RingApplication, RingThreads DEF Next


\* Two queued messages that should have been one.
Clash(m, n) ==
  /\ m.hwnd = n.hwnd /\ m.hwnd # HWND_INVALID
  /\ m.message = n.message
  /\ \/ m.message \in MoveMsgs /\ m.wParam = n.wParam
     \/ m.message \in LatestMsgs

LEMMA NoDuplicatesIs ==
  NoDuplicates <=> \A i, j \in Live : Clash(msg[i], msg[j]) => i = j
  BY DEF NoDuplicates, Clash

LEMMA PostsToWnds ==
  \A m \in Posts \cup OwnPosts : m.hwnd \in Wnds /\ m.hwnd # HWND_INVALID
  BY InputsAssumption DEF Sent

LEMMA CanceledHwnd == \A m \in Message : Canceled(m).hwnd = HWND_INVALID
<1>1. \A m \in Plain : Canceled(m).hwnd = HWND_INVALID
  <2>1. \A m \in Sent : Canceled(m).hwnd = HWND_INVALID
    BY InputsAssumption DEF Canceled
  <2>2. Canceled(NoMsg).hwnd = HWND_INVALID
    BY DEF Canceled, NoMsg, Msg
  <2>3. \A s \in Slots : Canceled(TimerMsg(s)).hwnd = HWND_INVALID
    BY DEF Canceled, TimerMsg, Msg
  <2>4. \A k, w : Canceled(Msg(k, w)).hwnd = HWND_INVALID
    BY DEF Canceled, Msg
  <2> QED
    BY <2>1, <2>2, <2>3, <2>4 DEF Plain
<1> QED
  BY <1>1, CanceledTwice DEF Message

LEMMA PutUnique ==
  ASSUME RingOK, NoDuplicates, NEW m \in Posts \cup OwnPosts, RingPut(m)
  PROVE  NoDuplicates'
<1>1. m.hwnd # HWND_INVALID
  BY PostsToWnds
<1>2. \A i, j \in Live : Clash(msg[i], msg[j]) => i = j
  BY NoDuplicatesIs
<1>3. \A i \in Live : i \in Same(m) <=> Clash(msg[i], m)
  BY <1>1 DEF Same, Clash
<1>4. \A i \in Live : i \in Cells
  BY RingIs
<1>5. CASE UNCHANGED <<readpos, writepos>> /\ \E i \in Replaced(m) : msg' = [msg EXCEPT ![i] = m]
  <2>1. PICK i \in Replaced(m) : msg' = [msg EXCEPT ![i] = m]
    BY <1>5
  <2>2. i \in Live /\ i \in Same(m) /\ i \in Cells
    BY <2>1, <1>4 DEF Replaced, Same
  <2>3. Live' = Live
    BY <1>5, SameRing
  <2>4. msg'[i] = m /\ \A k \in Cells \ {i} : msg'[k] = msg[k]
    BY <2>1, <2>2 DEF RingOK
  <2>5. ASSUME NEW a \in Live, NEW b \in Live, Clash(msg'[a], msg'[b])
        PROVE  a = b
    <3>1. Clash(msg[i], m)
      BY <1>3, <2>2
    <3>2. CASE a = i /\ b # i
      <4>1. Clash(m, msg[b])
        BY <1>4, <2>4, <2>5, <3>2
      <4>2. Clash(msg[i], msg[b])
        BY <3>1, <4>1 DEF Clash
      <4> QED
        BY <1>2, <2>2, <3>2, <4>2
    <3>3. CASE b = i /\ a # i
      <4>1. Clash(msg[a], m)
        BY <1>4, <2>4, <2>5, <3>3
      <4>2. Clash(msg[a], msg[i])
        BY <3>1, <4>1 DEF Clash
      <4> QED
        BY <1>2, <2>2, <3>3, <4>2
    <3>4. CASE a # i /\ b # i
      BY <1>2, <1>4, <2>4, <2>5, <3>4
    <3> QED
      BY <3>2, <3>3, <3>4
  <2> QED
    BY <2>3, <2>5 DEF NoDuplicates, Clash
<1>6. CASE Same(m) = {} /\ PutsRing /\ msg' = [msg EXCEPT ![writepos] = m]
  <2>1. \A i : i \in Live' <=> i \in Live \/ i = writepos
    BY <1>6, PutRing
  <2>2. writepos \notin Live
    BY <1>6, PutRing, RingIs
  <2>3. msg'[writepos] = m /\ \A k \in Live : msg'[k] = msg[k]
    BY <1>4, <1>6, <2>2 DEF RingOK
  <2>4. ASSUME NEW a \in Live', NEW b \in Live', Clash(msg'[a], msg'[b])
        PROVE  a = b
    <3>1. \A k \in Live : ~Clash(msg[k], m) /\ ~Clash(m, msg[k])
      BY <1>3, <1>6 DEF Clash
    <3> QED
      BY <1>2, <2>1, <2>3, <2>4, <3>1
  <2> QED
    BY <2>4 DEF NoDuplicates, Clash
<1> QED
  BY <1>5, <1>6 DEF RingPut

LEMMA ThrowUnique ==
  ASSUME RingOK, NoDuplicates, NEW w \in Wnds, RingThrow(w)
  PROVE  NoDuplicates'
<1>1. Live' = Live
  BY SameRing DEF RingThrow
<1>2. ASSUME NEW a \in Live, NEW b \in Live, Clash(msg'[a], msg'[b])
      PROVE  a = b
  <2>1. a \in Cells /\ b \in Cells
    BY RingIs
  <2>3. /\ msg'[a] = (IF msg[a].hwnd = w THEN Canceled(msg[a]) ELSE msg[a])
        /\ msg'[b] = (IF msg[b].hwnd = w THEN Canceled(msg[b]) ELSE msg[b])
    BY <2>1 DEF RingThrow
  <2>4. \A i \in Cells : Canceled(msg[i]).hwnd = HWND_INVALID
    BY CanceledHwnd DEF RingOK
  <2>5. msg'[a] = msg[a] /\ msg'[b] = msg[b]
    BY <1>2, <2>1, <2>3, <2>4 DEF Clash
  <2> QED
    BY <1>2, <2>5, NoDuplicatesIs
<1> QED
  BY <1>1, <1>2 DEF NoDuplicates, Clash

LEMMA RingUnique ==
  ASSUME RingOK, NoDuplicates, RingStep
  PROVE  NoDuplicates'
<1>1. CASE TakesRing
  <2>1. \A i \in Live' : i \in Live /\ msg'[i] = msg[i]
    BY <1>1, TakeRing DEF TakesRing
  <2> QED
    BY <2>1 DEF NoDuplicates
<1>2. CASE UNCHANGED ring
  BY <1>2 DEF ring, NoDuplicates, Live, Used, Dist
<1> QED
  BY <1>1, <1>2, PutUnique, ThrowUnique DEF RingStep

\* message.c, QueueMessage: whatever is posted, taken and thrown away, of the
\* messages it coalesces the ring holds no two for the same window.
THEOREM UniqueCorrect == Spec => []NoDuplicates
<1>1. Init => RingCalls /\ NoDuplicates
  <2> SUFFICES ASSUME Init PROVE RingCalls /\ NoDuplicates
    OBVIOUS
  <2>1. Live = {}
    <3>1. RingOK /\ readpos = writepos
      BY InitInv DEF Init, Inv, TypeOK
    <3>2. Used = 0 \/ Used > 0
      BY <3>1, RingIs
    <3>3. Used = 0 /\ \A i \in Cells : Behind(i, readpos) >= 0
      BY <3>1, <3>2, RingIs, BehindIs DEF RingOK
    <3>4. ASSUME NEW i \in Live PROVE FALSE
      <4>1. i \in Cells /\ Behind(i, readpos) < Used
        BY <3>1, RingIs
      <4>2. Behind(i, readpos) \in 0 .. BufLen - 1
        BY <3>1, <4>1, BehindIs DEF RingOK
      <4> QED
        BY <3>3, <4>1, <4>2
    <3> QED
      BY <3>4
  <2> QED
    BY <2>1 DEF Init, RingCalls, NoDuplicates
<1>2. Inv /\ RingCalls /\ NoDuplicates /\ [Next]_vars => RingCalls' /\ NoDuplicates'
  BY RingNext, RingUnique DEF Inv, TypeOK
<1> QED
  BY <1>1, <1>2, InitInv, NextInv, PTL DEF Spec

-----------------------------------------------------------------------------
(* The ring implements PostQueue.                                          *)

LEMMA IsASeq ==
  ASSUME NEW S, NEW n \in Nat, NEW f, f = [k \in 1 .. n |-> f[k]],
         \A k \in 1 .. n : f[k] \in S
  PROVE  f \in Seq(S) /\ Len(f) = n
<1>1. f \in [1 .. n -> S]
  BY Zenon
<1>2. f \in Seq(S)
  BY <1>1
<1> QED
  BY <1>1, <1>2

\* The k-th posted message is in the k-th cell from readpos on.
LEMMA PostedIs ==
  ASSUME RingOK
  PROVE  /\ Posted \in Seq(Message) /\ Len(Posted) = Used
         /\ DOMAIN Posted = 1 .. Used /\ Used \in 0 .. BufLen - 1
         /\ \A k \in 1 .. Used : /\ Cell(readpos, k) \in Live
                                 /\ Cell(readpos, k) \in Cells
                                 /\ Posted[k] = msg[Cell(readpos, k)]
         /\ \A i \in Live : /\ i \in Cells /\ Behind(i, readpos) + 1 \in 1 .. Used
                            /\ Cell(readpos, Behind(i, readpos) + 1) = i
<1>1. /\ Used \in 0 .. BufLen - 1 /\ readpos \in Cells
      /\ \A i : i \in Live <=> i \in Cells /\ Behind(i, readpos) < Used
  BY RingIs DEF RingOK
<1>2. PICK n \in 0 .. BufLen - 1 : n = Used
  BY <1>1
<1>3. ASSUME NEW k \in 1 .. n
      PROVE  /\ (readpos + k - 1) % BufLen = Cell(readpos, k)
             /\ Cell(readpos, k) \in Cells /\ Cell(readpos, k) \in Live
             /\ msg[Cell(readpos, k)] \in Message
  <2>1. k \in 1 .. BufLen /\ BufLen \in Nat
    BY SizesAssumption
  <2>2. /\ (readpos + k - 1) % BufLen = Cell(readpos, k)
        /\ Cell(readpos, k) \in Cells /\ Behind(Cell(readpos, k), readpos) = k - 1
    BY <1>1, <2>1, CellIs
  <2>3. Cell(readpos, k) \in Live
    BY <1>1, <1>2, <2>2
  <2> QED
    BY <2>2, <2>3 DEF RingOK
<1>4. Posted = [k \in 1 .. n |-> msg[(readpos + k - 1) % BufLen]]
  BY <1>2 DEF Posted
<1>5. /\ DOMAIN Posted = 1 .. n
      /\ \A k \in 1 .. n : Posted[k] = msg[(readpos + k - 1) % BufLen]
  BY <1>4
<1>6. \A k \in 1 .. n : Posted[k] = msg[Cell(readpos, k)] /\ Posted[k] \in Message
  BY <1>3, <1>5
<1>7. Posted \in Seq(Message) /\ Len(Posted) = n
  <2>1. n \in Nat /\ Posted = [k \in 1 .. n |-> Posted[k]]
    BY <1>4, <1>5
  <2> QED
    BY <1>6, <2>1, IsASeq
<1>8. \A i \in Live : /\ i \in Cells /\ Behind(i, readpos) + 1 \in 1 .. n
                      /\ Cell(readpos, Behind(i, readpos) + 1) = i
  BY <1>1, <1>2, BehindIs
<1> QED
  BY <1>2, <1>3, <1>5, <1>6, <1>7, <1>8

\* The same after the step.
PostedSeq ==
  /\ Posted \in Seq(Message) /\ Len(Posted) = Used
  /\ DOMAIN Posted = 1 .. Used /\ Used \in 0 .. BufLen - 1
  /\ \A k \in 1 .. Used : Posted[k] = msg[Cell(readpos, k)]

LEMMA PostedNext == RingOK' => PostedSeq'
<1>1. RingOK => PostedSeq
  BY PostedIs DEF PostedSeq
<1> QED
  BY <1>1, PTL


LEMMA SeqsEqual ==
  ASSUME NEW S, NEW s \in Seq(S), NEW r \in Seq(S), Len(s) = Len(r),
         \A k \in 1 .. Len(s) : s[k] = r[k]
  PROVE  s = r
<1>1. /\ s = [k \in 1 .. Len(s) |-> s[k]] /\ r = [k \in 1 .. Len(s) |-> r[k]]
  OBVIOUS
<1> QED
  BY <1>1, Zenon

\* What a message supersedes is what it duplicates in the ring.
LEMMA SupersededIs ==
  ASSUME RingOK, NEW m, NEW k \in 1 .. Used
  PROVE  Supersedes(m, Posted[k]) <=> Cell(readpos, k) \in Same(m)
  BY PostedIs DEF Supersedes, Same

\* Put without PostQueue's local definition.
LEMMA PutIs ==
  ASSUME RingOK, NEW m,
         \/ \E k \in 1 .. Used : /\ Cell(readpos, k) \in Same(m)
                                 /\ Posted' = [Posted EXCEPT ![k] = m]
         \/ Same(m) = {} /\ Used < BufLen - 1 /\ Posted' = Append(Posted, m)
  PROVE  PQ!Put(m)
<1>1. DOMAIN Posted = 1 .. Used /\ Len(Posted) = Used
  BY PostedIs
<1>2. \A k \in 1 .. Used : Supersedes(m, Posted[k]) <=> Cell(readpos, k) \in Same(m)
  BY SupersededIs
<1>3. CASE \E k \in 1 .. Used : /\ Cell(readpos, k) \in Same(m)
                                /\ Posted' = [Posted EXCEPT ![k] = m]
  BY <1>1, <1>2, <1>3, Zenon DEF PQ!Put
<1>4. CASE Same(m) = {} /\ Used < BufLen - 1 /\ Posted' = Append(Posted, m)
  <2>1. {k \in DOMAIN Posted : Supersedes(m, Posted[k])} = {}
    BY <1>1, <1>2, <1>4
  <2>2. Len(Posted) < BufLen - 1
    BY <1>1, <1>4
  <2> QED
    BY <1>4, <2>1, <2>2, Zenon DEF PQ!Put
<1> QED
  BY <1>3, <1>4

LEMMA PutPosted ==
  ASSUME RingOK, RingOK', NEW m \in Posts \cup OwnPosts, RingPut(m)
  PROVE  PQ!Put(m)
<1>0. /\ Posted \in Seq(Message) /\ Len(Posted) = Used
      /\ DOMAIN Posted = 1 .. Used /\ Used \in 0 .. BufLen - 1
      /\ \A k \in 1 .. Used : /\ Cell(readpos, k) \in Live
                              /\ Cell(readpos, k) \in Cells
                              /\ Posted[k] = msg[Cell(readpos, k)]
      /\ \A i \in Live : /\ i \in Cells /\ Behind(i, readpos) + 1 \in 1 .. Used
                         /\ Cell(readpos, Behind(i, readpos) + 1) = i
  BY PostedIs
<1>1. /\ Posted' \in Seq(Message) /\ Len(Posted') = Used'
      /\ DOMAIN Posted' = 1 .. Used' /\ Used' \in 0 .. BufLen - 1
      /\ \A k \in 1 .. Used' : Posted'[k] = msg'[Cell(readpos', k)]
  BY PostedNext DEF PostedSeq
<1>2. m \in Message
  BY Messages DEF Sent
<1>3. \A k \in 1 .. Used : Behind(Cell(readpos, k), readpos) = k - 1
  <2> SUFFICES ASSUME NEW k \in 1 .. Used
               PROVE  Behind(Cell(readpos, k), readpos) = k - 1
    OBVIOUS
  <2>1. PICK n \in 0 .. BufLen - 1 : n = Used
    BY <1>0
  <2>2. k \in 1 .. BufLen /\ readpos \in Cells
    BY <2>1, SizesAssumption DEF RingOK
  <2> QED
    BY <2>2, CellIs
<1>4. PICK n \in Nat : n = Used
  BY <1>0
<1>5. CASE UNCHANGED <<readpos, writepos>> /\ \E i \in Replaced(m) : msg' = [msg EXCEPT ![i] = m]
  <2>1. PICK i \in Replaced(m) : msg' = [msg EXCEPT ![i] = m]
    BY <1>5
  <2>2. i \in Live /\ i \in Same(m) /\ i \in Cells
    BY <1>0, <2>1 DEF Replaced, Same
  <2>3. Used' = Used /\ readpos' = readpos
    BY <1>5, SameRing
  <2>4. PICK j \in 1 .. Used : j = Behind(i, readpos) + 1 /\ Cell(readpos, j) = i
    BY <1>0, <2>2
  <2>5. msg'[i] = m /\ \A k \in Cells \ {i} : msg'[k] = msg[k]
    BY <2>1, <2>2 DEF RingOK
  <2>6. PICK q : q = [Posted EXCEPT ![j] = m]
    OBVIOUS
  <2>7. q \in Seq(Message) /\ Len(q) = Used
    BY <1>0, <1>2, <2>4, <2>6
  <2>8. \A k \in 1 .. Used : q[k] = IF k = j THEN m ELSE Posted[k]
    BY <1>0, <2>6
  <2>9. ASSUME NEW k \in 1 .. Used
        PROVE  q[k] = Posted'[k]
    <3>1. Cell(readpos, k) = i => k = j
      BY <1>3, <1>4, <2>4
    <3>2. Posted'[k] = msg'[Cell(readpos, k)]
      BY <1>1, <2>3
    <3> QED
      BY <1>0, <2>4, <2>5, <2>8, <3>1, <3>2
  <2>10. q = Posted'
    BY <1>1, <2>3, <2>7, <2>9, SeqsEqual
  <2> QED
    BY <2>2, <2>4, <2>6, <2>10, PutIs
<1>6. CASE Same(m) = {} /\ PutsRing /\ msg' = [msg EXCEPT ![writepos] = m]
  <2>1. /\ Used' = Used + 1 /\ Used < BufLen - 1
        /\ writepos = Cell(readpos, Used + 1) /\ Behind(writepos, readpos) = Used
        /\ readpos' = readpos /\ writepos \in Cells
    BY <1>6, PutRing DEF PutsRing, RingOK
  <2>2. msg'[writepos] = m /\ \A k \in Cells \ {writepos} : msg'[k] = msg[k]
    BY <1>6, <2>1 DEF RingOK
  <2>3. PICK q : q = Append(Posted, m)
    OBVIOUS
  <2>4. /\ q \in Seq(Message) /\ Len(q) = Used + 1 /\ q[Used + 1] = m
        /\ \A k \in 1 .. Used : q[k] = Posted[k]
    BY <1>0, <1>2, <2>3
  <2>5. \A k \in 1 .. Used : Cell(readpos, k) # writepos
    BY <1>3, <1>4, <2>1
  <2>6. ASSUME NEW k \in 1 .. Used + 1
        PROVE  q[k] = Posted'[k]
    <3>1. Posted'[k] = msg'[Cell(readpos, k)]
      BY <1>1, <2>1
    <3>2. k \in 1 .. Used \/ k = Used + 1
      BY <1>4
    <3> QED
      BY <1>0, <2>1, <2>2, <2>4, <2>5, <3>1, <3>2
  <2>7. q = Posted'
    BY <1>1, <2>1, <2>4, <2>6, SeqsEqual
  <2> QED
    BY <1>6, <2>1, <2>3, <2>7, PutIs
<1> QED
  BY <1>5, <1>6 DEF RingPut

LEMMA TakePosted ==
  ASSUME RingOK, RingOK', TakesRing
  PROVE  PQ!Take
<1>0. /\ Posted \in Seq(Message) /\ Len(Posted) = Used /\ Used \in Nat
      /\ \A k \in 1 .. Used : Posted[k] = msg[Cell(readpos, k)]
  BY PostedIs
<1>1. /\ Posted' \in Seq(Message) /\ Len(Posted') = Used'
      /\ \A k \in 1 .. Used' : Posted'[k] = msg'[Cell(readpos', k)]
  BY PostedNext DEF PostedSeq
<1>2. Used > 0 /\ Used' = Used - 1 /\ msg' = msg
      /\ readpos' = (readpos + 1) % BufLen /\ readpos \in Cells
  BY TakeRing, RingIs DEF TakesRing, RingOK
<1>3. readpos' = IF readpos + 1 = BufLen THEN 0 ELSE readpos + 1
  BY <1>2, NextCell
<1>4. \A k \in 1 .. Used' : Cell(readpos', k) = Cell(readpos, k + 1)
  <2>1. Used <= BufLen - 1
    BY RingIs
  <2>2. PICK n \in Nat : n = Used
    BY <1>0
  <2> QED
    BY <1>2, <1>3, <2>1, <2>2, SizesAssumption DEF Cell, Cells
<1>5. PICK q : q = Tail(Posted)
  OBVIOUS
<1>6. /\ Posted # << >> /\ q \in Seq(Message) /\ Len(q) = Used'
      /\ \A k \in 1 .. Used' : q[k] = Posted[k + 1] /\ k + 1 \in 1 .. Used
  <2>1. PICK n \in Nat : n = Used
    BY <1>0
  <2> QED
    BY <1>0, <1>2, <1>5, <2>1
<1>7. \A k \in 1 .. Used' : q[k] = Posted'[k]
  BY <1>0, <1>1, <1>2, <1>4, <1>6
<1>8. q = Posted'
  BY <1>1, <1>6, <1>7, SeqsEqual
<1> QED
  BY <1>5, <1>6, <1>8 DEF PQ!Take

LEMMA ThrowPosted ==
  ASSUME RingOK, RingOK', NEW w \in Wnds, RingThrow(w)
  PROVE  PQ!ThrowAway(w)
<1>0. /\ DOMAIN Posted = 1 .. Used
      /\ \A k \in 1 .. Used : /\ Cell(readpos, k) \in Live
                              /\ Cell(readpos, k) \in Cells
                              /\ Posted[k] = msg[Cell(readpos, k)]
  BY PostedIs
<1>1. /\ Posted' \in Seq(Message) /\ Len(Posted') = Used'
      /\ \A k \in 1 .. Used' : Posted'[k] = msg'[Cell(readpos', k)]
  BY PostedNext DEF PostedSeq
<1>2. Used' = Used /\ readpos' = readpos
  BY SameRing DEF RingThrow
<1>3. \A k \in 1 .. Used :
        Posted'[k] = IF Posted[k].hwnd = w THEN Canceled(Posted[k]) ELSE Posted[k]
  BY <1>0, <1>1, <1>2 DEF RingThrow
<1>4. Posted' = [k \in 1 .. Used |-> Posted'[k]]
  BY <1>1, <1>2
<1>5. Posted' = [k \in 1 .. Used |->
                   IF Posted[k].hwnd = w THEN Canceled(Posted[k]) ELSE Posted[k]]
  BY <1>3, <1>4, Zenon
<1> QED
  BY <1>0, <1>5, Zenon DEF PQ!ThrowAway

\* message.c, QueueMessage and what takes from the ring: the ring between
\* readpos and writepos implements the bounded FIFO of PostQueue, for every
\* size, wherever it wraps and whatever it coalesces.
THEOREM RingCorrect == Spec => RingIsQueue
<1> DEFINE Step == \/ \E m \in Posts \cup OwnPosts : PQ!Put(m)
                   \/ PQ!Take
                   \/ \E w \in Wnds : PQ!ThrowAway(w)
<1>1. Init => RingCalls /\ PQ!Init
  <2> SUFFICES ASSUME Init PROVE RingCalls /\ PQ!Init
    OBVIOUS
  <2>1. RingOK /\ readpos = writepos
    BY InitInv DEF Init, Inv, TypeOK
  <2>2. Used = 0
    BY <2>1, RingIs
  <2>3. Posted \in Seq(Message) /\ Len(Posted) = 0
    BY <2>1, <2>2, PostedIs
  <2> QED
    BY <2>3 DEF Init, RingCalls, PQ!Init
<1>2. Inv /\ Inv' /\ RingCalls /\ [Next]_vars => RingCalls' /\ [Step]_Posted
  <2> SUFFICES ASSUME Inv, Inv', RingCalls, [Next]_vars
               PROVE  RingCalls' /\ [Step]_Posted
    OBVIOUS
  <2>1. RingOK /\ RingOK'
    BY DEF Inv, TypeOK
  <2>2. RingCalls' /\ RingStep
    BY RingNext
  <2>3. CASE UNCHANGED ring
    BY <2>2, <2>3 DEF ring, Posted, Used
  <2>4. CASE Step
    BY <2>2, <2>4
  <2>5. UNCHANGED ring \/ Step
    BY <2>1, <2>2, PutPosted, TakePosted, ThrowPosted DEF RingStep
  <2> QED
    BY <2>3, <2>4, <2>5
<1>3. Spec => []Inv
  BY InitInv, NextInv, PTL DEF Spec
<1> QED
  BY <1>1, <1>2, <1>3, PTL DEF Spec, RingIsQueue
-----------------------------------------------------------------------------
(* The list of senders.                                                    *)

OneWindow == \A v, w \in Wnds : v = w

\* Throwing messages away empties the list: there is one window, or the
\* program never throws messages away.
ThrowsAll ==
  OneWindow \/ {"ThrowAwayMessages", "DestroyMainWindow"} \cap OwnCalls = {}

\* The list is the sequence c of senders, each once.
Chain(c) ==
  /\ c \in Seq(Threads)
  /\ \A i, j \in 1 .. Len(c) : c[i] = c[j] => i = j
  /\ pFirst = IF c = <<>> THEN Nil ELSE c[1]
  /\ \A i \in 1 .. Len(c) : pNext[c[i]] = IF i < Len(c) THEN c[i + 1] ELSE Nil
  /\ c # <<>> => pLast = c[Len(c)]

Elems(c) == {c[i] : i \in 1 .. Len(c)}

\* SyncAccounting, with S for the threads in the list.
Accounted(S) ==
  \A t \in Threads :
    (IF t \in S THEN 1 ELSE 0) + Handled(t) + reply[t] = IF Sending(t) THEN 1 ELSE 0

\* What is being sent or is in the list is for a window of the owner.
Addressed(S) ==
  \A t \in Threads : pc[t] = "sync" \/ t \in S => req[t].hwnd \in Wnds

SendersInv ==
  /\ \E c : Chain(c) /\ Accounted(Elems(c)) /\ Addressed(Elems(c))
  /\ OneWindow \/ opc # "throw"

\* The messages of thread t among those that are being handled.
From(s, t) == {i \in DOMAIN s : s[i].from = t}

LEMMA FromFinite ==
  ASSUME NEW X, NEW s \in Seq(X), NEW t
  PROVE  IsFiniteSet(From(s, t)) /\ Cardinality(From(s, t)) \in Nat
<1>1. Len(s) \in Nat /\ From(s, t) \subseteq 1 .. Len(s)
  BY DEF From
<1>2. IsFiniteSet(1 .. Len(s))
  BY <1>1, FS_Interval
<1> QED
  BY <1>1, <1>2, FS_Subset, FS_CardinalityType

LEMMA FromAppend ==
  ASSUME NEW X, NEW s \in Seq(X), NEW e \in X, NEW t
  PROVE  Cardinality(From(Append(s, e), t))
           = Cardinality(From(s, t)) + IF e.from = t THEN 1 ELSE 0
<1> DEFINE n == Len(s) + 1
<1>1. /\ DOMAIN Append(s, e) = 1 .. n /\ DOMAIN s = 1 .. Len(s) /\ Len(s) \in Nat
      /\ \A i \in 1 .. Len(s) : Append(s, e)[i] = s[i]
      /\ Append(s, e)[n] = e
  OBVIOUS
<1>2. n \notin From(s, t)
  BY <1>1 DEF From
<1>3. \A i : i \in From(Append(s, e), t) <=> i \in From(s, t) \/ (i = n /\ e.from = t)
  BY <1>1 DEF From
<1>4. IsFiniteSet(From(s, t)) /\ Cardinality(From(s, t)) \in Nat
  BY FromFinite
<1>5. CASE e.from = t
  <2>1. From(Append(s, e), t) = From(s, t) \cup {n}
    BY <1>3, <1>5
  <2> QED
    BY <1>2, <1>4, <1>5, <2>1, FS_AddElement
<1>6. CASE e.from # t
  <2>1. From(Append(s, e), t) = From(s, t)
    BY <1>3, <1>6
  <2> QED
    BY <1>4, <1>6, <2>1
<1> QED
  BY <1>5, <1>6

LEMMA HandledType ==
  ASSUME Inv PROVE \A t \in Threads : Handled(t) \in Nat /\ reply[t] \in Nat
<1>1. stack \in Seq([m : Message, from : Actors \cup {Nil}]) /\ reply \in [Threads -> Nat]
  BY DEF Inv, TypeOK, OwnerOK, ThreadsOK
<1>2. \A t : Handled(t) = Cardinality(From(stack, t))
  BY DEF Handled, From
<1> QED
  BY <1>1, <1>2, FromFinite

LEMMA HandledKept ==
  ASSUME stack' = stack PROVE \A t \in Threads : Handled(t)' = Handled(t)
  BY DEF Handled

LEMMA HandledPushed ==
  ASSUME Inv, NEW e \in [m : Message, from : Actors \cup {Nil}],
         stack' = Append(stack, e)
  PROVE  \A t \in Threads :
           Handled(t)' = Handled(t) + IF e.from = t THEN 1 ELSE 0
<1> DEFINE X == [m : Message, from : Actors \cup {Nil}]
<1>1. stack \in Seq(X) /\ e \in X
  BY DEF Inv, TypeOK, OwnerOK
<1> HIDE DEF X
<1> SUFFICES ASSUME NEW t \in Threads
             PROVE  Handled(t)' = Handled(t) + IF e.from = t THEN 1 ELSE 0
  OBVIOUS
<1>2. Handled(t) = Cardinality(From(stack, t))
  BY DEF Handled, From
<1>3. Handled(t)' = Cardinality(From(Append(stack, e), t))
  BY DEF Handled, From
<1> QED
  BY <1>1, <1>2, <1>3, FromAppend

LEMMA HandledPopped ==
  ASSUME Inv, stack # <<>>, stack' = SubSeq(stack, 1, Len(stack) - 1)
  PROVE  /\ stack[Len(stack)].from \in Actors \cup {Nil}
         /\ \A t \in Threads :
              Handled(t) = Handled(t)' + IF stack[Len(stack)].from = t THEN 1 ELSE 0
<1> DEFINE X == [m : Message, from : Actors \cup {Nil}]
           e == stack[Len(stack)]
<1>1. stack \in Seq(X)
  BY DEF Inv, TypeOK, OwnerOK
<1>0. \A x \in X : x.from \in Actors \cup {Nil}
  OBVIOUS
<1> HIDE DEF X
<1>3. PICK s : s = stack'
  OBVIOUS
<1>4. Len(stack) \in Nat \ {0} /\ e \in X
  BY <1>1
<1>2. e.from \in Actors \cup {Nil}
  BY <1>0, <1>4
<1>5. s \in Seq(X) /\ Len(s) = Len(stack) - 1
      /\ \A i \in 1 .. Len(s) : s[i] = stack[i]
  <2>1. PICK n : n = Len(stack) - 1
    OBVIOUS
  <2>2. s = SubSeq(stack, 1, n) /\ n \in Nat /\ n <= Len(stack)
    BY <1>3, <1>4, <2>1
  <2>3. SubSeq(stack, 1, n) = [i \in 1 .. n |-> stack[i]]
    BY <1>1, <1>4, <2>2
  <2> QED
    BY <1>1, <1>4, <2>1, <2>2, <2>3
<1>6. stack = Append(s, e)
  <2>1. Append(s, e) \in Seq(X) /\ Len(Append(s, e)) = Len(stack)
    BY <1>4, <1>5
  <2>2. \A i \in 1 .. Len(stack) : Append(s, e)[i] = stack[i]
    BY <1>4, <1>5
  <2> QED
    BY <1>1, <2>1, <2>2
<1>7. ASSUME NEW t \in Threads PROVE Handled(t) = Handled(t)' + IF e.from = t THEN 1 ELSE 0
  <2>1. Handled(t)' = Cardinality(From(s, t))
    BY <1>3 DEF Handled, From
  <2>2. Handled(t) = Cardinality(From(Append(s, e), t))
    BY <1>6 DEF Handled, From
  <2> QED
    BY <1>4, <1>5, <2>1, <2>2, FromAppend
<1> QED
  BY <1>2, <1>7

\* A member of the list is a sender that waits.
LEMMA MembersSend ==
  ASSUME Inv, NEW S, Accounted(S)
  PROVE  \A t \in Threads :
           /\ t \in S => Sending(t) /\ Handled(t) = 0 /\ reply[t] = 0
           /\ Handled(t) > 0 => Sending(t) /\ t \notin S /\ Handled(t) = 1 /\ reply[t] = 0
           /\ reply[t] > 0 => Sending(t) /\ t \notin S /\ Handled(t) = 0 /\ reply[t] = 1
           /\ ~Sending(t) => t \notin S /\ Handled(t) = 0 /\ reply[t] = 0
  BY HandledType DEF Accounted

\* A step that leaves the list and what is counted alone.
Leaves ==
  /\ UNCHANGED sync
  /\ \A t \in Threads :
       /\ Handled(t)' = Handled(t) /\ reply'[t] = reply[t]
       /\ Sending(t)' <=> Sending(t)
       /\ Sending(t) => req'[t] = req[t]
       /\ pc'[t] = "sync" => req'[t].hwnd \in Wnds
  /\ OneWindow \/ opc' # "throw"

LEMMA LeavesSenders ==
  ASSUME Inv, SendersInv, Leaves PROVE SendersInv'
<1>1. PICK c : Chain(c) /\ Accounted(Elems(c)) /\ Addressed(Elems(c))
  BY DEF SendersInv
<1>2. Chain(c)'
  BY <1>1 DEF Chain, Leaves, sync
<1>3. Accounted(Elems(c))'
  BY <1>1 DEF Accounted, Elems, Leaves
<1>4. Addressed(Elems(c))'
  BY <1>1, MembersSend DEF Addressed, Elems, Leaves
<1> QED
  BY <1>2, <1>3, <1>4 DEF SendersInv, Leaves

\* The list of nobody.
LEMMA NoSenders ==
  ASSUME pFirst = Nil PROVE Chain(<<>>) /\ Elems(<<>>) = {}
  BY DEF Chain, Elems

LEMMA ChainEmpty ==
  ASSUME NEW c, Chain(c), pFirst = Nil PROVE c = <<>> /\ Elems(c) = {}
<1>1. c = <<>>
  BY ThreadsAssumption DEF Chain, Actors
<1> QED
  BY <1>1 DEF Elems

LEMMA PushSenders ==
  ASSUME Inv, SendersInv, NEW t \in Threads, QueueSync(t) PROVE SendersInv'
<1>1. PICK c : Chain(c) /\ Accounted(Elems(c)) /\ Addressed(Elems(c))
  BY DEF SendersInv
<1>2. /\ pNext \in [Threads -> Threads \cup {Nil}] /\ DOMAIN pc = Threads
      /\ pc[t] = "sync" /\ pc' = [pc EXCEPT ![t] = "ssig"]
      /\ UNCHANGED <<req, reply, stack, opc>>
  BY DEF Inv, TypeOK, ListsOK, ThreadsOK, QueueSync, Goto, owner
<1>3. t \notin Elems(c) /\ Handled(t) = 0 /\ reply[t] = 0
  BY <1>1, <1>2, MembersSend DEF Sending
<1>0. PICK d : d = Append(c, t)
  OBVIOUS
<1>4. /\ c \in Seq(Threads) /\ Len(c) \in Nat
      /\ d \in Seq(Threads) /\ Len(d) = Len(c) + 1 /\ d[Len(d)] = t /\ d # <<>>
      /\ \A i \in 1 .. Len(c) : d[i] = c[i] /\ c[i] \in Threads /\ c[i] # t
  BY <1>0, <1>1, <1>3 DEF Chain, Elems
<1>5. \A i \in 1 .. Len(d) : i \in 1 .. Len(c) \/ i = Len(d)
  BY <1>4
<1>6. \A i, j \in 1 .. Len(d) : d[i] = d[j] => i = j
  BY <1>1, <1>4, <1>5 DEF Chain
<1>7. pLast' = d[Len(d)]
  BY <1>4 DEF QueueSync
<1>8. /\ pFirst' = d[1]
      /\ \A i \in 1 .. Len(d) : pNext'[d[i]] = IF i < Len(d) THEN d[i + 1] ELSE Nil
  <2>1. CASE c = <<>>
    <3>1. pFirst = Nil /\ Len(c) = 0
      BY <1>1, <2>1 DEF Chain
    <3>2. pFirst' = t /\ pNext' = [pNext EXCEPT ![t] = Nil]
      BY <3>1 DEF QueueSync
    <3> QED
      BY <1>2, <1>4, <3>1, <3>2
  <2>2. CASE c # <<>>
    <3>1. Len(c) > 0 /\ 1 \in 1 .. Len(c) /\ Len(c) \in 1 .. Len(c)
      BY <1>4, <2>2
    <3>2. pFirst = c[1] /\ pFirst # Nil /\ pLast = c[Len(c)]
      BY <1>1, <1>4, <2>2, <3>1, ThreadsAssumption DEF Chain, Actors
    <3>3. pFirst' = pFirst /\ pNext' = [pNext EXCEPT ![t] = Nil, ![pLast] = t]
      BY <3>2 DEF QueueSync
    <3>4. pNext'[t] = Nil /\ pNext'[c[Len(c)]] = t
      BY <1>2, <1>4, <3>1, <3>2, <3>3
    <3>5. ASSUME NEW i \in 1 .. Len(c), i # Len(c) PROVE pNext'[c[i]] = c[i + 1]
      <4>1. i < Len(c) /\ c[i] # c[Len(c)]
        BY <1>1, <1>4, <3>1, <3>5 DEF Chain
      <4>2. pNext[c[i]] = c[i + 1]
        BY <1>1, <4>1 DEF Chain
      <4> QED
        BY <1>2, <1>4, <3>2, <3>3, <4>1, <4>2
    <3>6. ASSUME NEW i \in 1 .. Len(d)
          PROVE  pNext'[d[i]] = IF i < Len(d) THEN d[i + 1] ELSE Nil
      <4>1. CASE i = Len(d)
        BY <1>4, <3>4, <4>1
      <4>2. CASE i = Len(c)
        BY <1>4, <3>1, <3>4, <4>2
      <4>3. CASE i \in 1 .. Len(c) /\ i # Len(c)
        <5>1. i + 1 \in 1 .. Len(c) /\ i < Len(d)
          BY <1>4, <4>3
        <5> QED
          BY <1>4, <3>5, <4>3, <5>1
      <4> QED
        BY <1>5, <4>1, <4>2, <4>3
    <3> QED
      BY <1>4, <3>1, <3>2, <3>3, <3>6
  <2> QED
    BY <2>1, <2>2
<1>9. Chain(d)'
  BY <1>4, <1>6, <1>7, <1>8 DEF Chain
<1>10. \A u : u \in Elems(d) <=> u \in Elems(c) \/ u = t
  BY <1>4, <1>5 DEF Elems
<1>11. ASSUME NEW u \in Threads
       PROVE  (IF u \in Elems(d) THEN 1 ELSE 0) + Handled(u)' + reply'[u]
                = IF Sending(u)' THEN 1 ELSE 0
  <2>1. Handled(u)' = Handled(u) /\ reply'[u] = reply[u]
    BY <1>2, HandledKept
  <2>2. CASE u = t
    BY <1>2, <1>3, <1>10, <2>1, <2>2 DEF Sending
  <2>3. CASE u # t
    BY <1>1, <1>2, <1>10, <2>1, <2>3 DEF Sending, Accounted
  <2> QED
    BY <2>2, <2>3
<1>12. Elems(d)' = Elems(d)
  BY DEF Elems
<1>13. Accounted(Elems(d))'
  BY <1>11, <1>12 DEF Accounted
<1>14. Addressed(Elems(d))'
  BY <1>1, <1>2, <1>10, <1>12 DEF Addressed
<1> QED
  BY <1>2, <1>9, <1>13, <1>14 DEF SendersInv

\* A sequence with no member is the empty one.
LEMMA EmptyIffNoLength ==
  ASSUME NEW X, NEW s \in Seq(X) PROVE s = <<>> <=> Len(s) = 0
  OBVIOUS

\* The first of the list is taken, by PeekMessageEx or by a send of the owner,
\* and its handler is called.
TakesFirst ==
  /\ pFirst # Nil /\ pFirst' = pNext[pFirst]
  /\ UNCHANGED <<pLast, pNext, pc, req>>
  /\ opc' # "throw"
  /\ req[pFirst].hwnd # HWND_INVALID =>
       /\ stack' = Append(stack, [m |-> req[pFirst], from |-> pFirst])
       /\ reply' = reply

LEMMA TakeSenders ==
  ASSUME Inv, SendersInv, TakesFirst PROVE SendersInv'
<1>1. PICK c : Chain(c) /\ Accounted(Elems(c)) /\ Addressed(Elems(c))
  BY DEF SendersInv
<1>2. pFirst # Nil /\ UNCHANGED <<pLast, pNext, pc, req>> /\ opc' # "throw"
  BY DEF TakesFirst
<1>3. c \in Seq(Threads) /\ c # <<>> /\ Len(c) \in Nat \ {0} /\ pFirst = c[1]
      /\ \A i \in 1 .. Len(c) : c[i] \in Threads
  BY <1>1, <1>2 DEF Chain
<1>4. PICK d : d = Tail(c)
  OBVIOUS
<1>5. /\ d \in Seq(Threads) /\ Len(d) = Len(c) - 1 /\ Len(d) \in Nat
      /\ \A i \in 1 .. Len(d) : d[i] = c[i + 1] /\ i + 1 \in 1 .. Len(c)
      /\ d = <<>> <=> Len(c) = 1
  <2>1. d \in Seq(Threads) /\ Len(d) = Len(c) - 1
    BY <1>3, <1>4
  <2>2. \A i \in 1 .. Len(d) : i + 1 \in 1 .. Len(c)
    BY <1>3, <2>1
  <2>3. \A i \in 1 .. Len(d) : d[i] = c[i + 1]
    BY <1>3, <1>4, <2>1
  <2>4. d = <<>> <=> Len(d) = 0
    BY <2>1, EmptyIffNoLength
  <2> QED
    BY <1>3, <2>1, <2>2, <2>3, <2>4
<1>6. PICK f : f = c[1]
  OBVIOUS
<1>7. f \in Elems(c) /\ f \in Threads /\ 1 \in 1 .. Len(c)
  BY <1>3, <1>6 DEF Elems
<1>8. Chain(d)'
  <2>1. pFirst' = IF d = <<>> THEN Nil ELSE d[1]
    <3>1. pFirst' = pNext[c[1]]
      BY <1>3 DEF TakesFirst
    <3>2. pNext[c[1]] = IF 1 < Len(c) THEN c[2] ELSE Nil
      BY <1>1, <1>3, <1>7 DEF Chain
    <3> QED
      BY <1>3, <1>5, <3>1, <3>2
  <2>2. \A i, j \in 1 .. Len(d) : d[i] = d[j] => i = j
    <3>1. SUFFICES ASSUME NEW i \in 1 .. Len(d), NEW j \in 1 .. Len(d), d[i] = d[j]
                   PROVE  i = j
      OBVIOUS
    <3>2. i + 1 = j + 1
      BY <1>1, <1>5, <3>1 DEF Chain
    <3> QED
      BY <3>2
  <2>3. \A i \in 1 .. Len(d) : pNext[d[i]] = IF i < Len(d) THEN d[i + 1] ELSE Nil
    <3>1. SUFFICES ASSUME NEW i \in 1 .. Len(d)
                   PROVE  pNext[d[i]] = IF i < Len(d) THEN d[i + 1] ELSE Nil
      OBVIOUS
    <3>2. pNext[c[i + 1]] = IF i + 1 < Len(c) THEN c[(i + 1) + 1] ELSE Nil
      BY <1>1, <1>5 DEF Chain
    <3> QED
      BY <1>3, <1>5, <3>2
  <2>4. d # <<>> => pLast = d[Len(d)]
    <3>1. SUFFICES ASSUME d # <<>> PROVE pLast = d[Len(d)]
      OBVIOUS
    <3>2. Len(d) \in 1 .. Len(d) /\ Len(d) + 1 = Len(c)
      BY <1>3, <1>5, <3>1
    <3> QED
      BY <1>1, <1>3, <1>5, <3>2 DEF Chain
  <2> QED
    BY <1>2, <1>5, <2>1, <2>2, <2>3, <2>4 DEF Chain
<1>9. \A u : u \in Elems(d) <=> u \in Elems(c) /\ u # f
  <2>1. ASSUME NEW u \in Elems(d) PROVE u \in Elems(c) /\ u # f
    <3>1. PICK i \in 1 .. Len(d) : u = d[i]
      BY DEF Elems
    <3>2. u = c[i + 1] /\ i + 1 \in 1 .. Len(c) /\ i + 1 # 1
      BY <1>5, <3>1
    <3> QED
      BY <1>1, <1>6, <1>7, <3>2 DEF Elems, Chain
  <2>2. ASSUME NEW u \in Elems(c), u # f PROVE u \in Elems(d)
    <3>1. PICK i \in 1 .. Len(c) : u = c[i]
      BY DEF Elems
    <3>2. PICK k : k = i - 1
      OBVIOUS
    <3>3. k \in 1 .. Len(d) /\ k + 1 = i
      BY <1>3, <1>5, <1>6, <2>2, <3>1, <3>2
    <3>4. d[k] = u
      BY <1>5, <3>1, <3>3
    <3> QED
      BY <3>3, <3>4 DEF Elems
  <2> QED
    BY <2>1, <2>2
<1>10. req[f] \in Message /\ req[f].hwnd \in Wnds /\ req[f].hwnd # HWND_INVALID
  BY <1>1, <1>7, InputsAssumption DEF Addressed, Inv, TypeOK, ThreadsOK
<1>11. stack' = Append(stack, [m |-> req[f], from |-> f]) /\ reply' = reply
  BY <1>3, <1>6, <1>10 DEF TakesFirst
<1>e. PICK e : e = [m |-> req[f], from |-> f]
  OBVIOUS
<1>x. e \in [m : Message, from : Actors \cup {Nil}] /\ e.from = f
  BY <1>e, <1>7, <1>10 DEF Actors
<1>12. \A u \in Threads : Handled(u)' = Handled(u) + IF f = u THEN 1 ELSE 0
  BY <1>e, <1>x, <1>11, HandledPushed
<1>13. ASSUME NEW u \in Threads
       PROVE  (IF u \in Elems(d) THEN 1 ELSE 0) + Handled(u)' + reply'[u]
                = IF Sending(u)' THEN 1 ELSE 0
  <2>1. (IF u \in Elems(c) THEN 1 ELSE 0) + Handled(u) + reply[u]
          = IF Sending(u) THEN 1 ELSE 0
    BY <1>1 DEF Accounted
  <2>2. Handled(u) \in Nat /\ reply[u] \in Nat
    BY HandledType
  <2>3. Sending(u)' = Sending(u)
    BY <1>2 DEF Sending
  <2>4. CASE u = f
    <3>1. u \in Elems(c) /\ u \notin Elems(d)
      BY <1>7, <1>9, <2>4
    <3> QED
      BY <1>11, <1>12, <2>1, <2>2, <2>3, <2>4, <3>1
  <2>5. CASE u # f
    <3>1. u \in Elems(c) <=> u \in Elems(d)
      BY <1>9, <2>5
    <3> QED
      BY <1>11, <1>12, <2>1, <2>2, <2>3, <2>5, <3>1
  <2> QED
    BY <2>4, <2>5
<1>14. Elems(d)' = Elems(d)
  BY DEF Elems
<1>15. Accounted(Elems(d))'
  BY <1>13, <1>14 DEF Accounted
<1>16. Addressed(Elems(d))'
  BY <1>1, <1>2, <1>9, <1>14 DEF Addressed
<1> QED
  BY <1>2, <1>8, <1>15, <1>16 DEF SendersInv

HandledNat == \A t \in Threads : Handled(t) \in Nat

LEMMA HandledNext == Inv' => \A t \in Threads : Handled(t)' \in Nat
<1>1. Inv => HandledNat
  BY HandledType DEF HandledNat
<1>2. Inv' => HandledNat'
  BY <1>1, PTL
<1> QED
  BY <1>2 DEF HandledNat

\* DispatchMessage answers the sender of the message whose handler returns.
LEMMA ReturnSenders ==
  ASSUME Inv, SendersInv, HandlerReturns PROVE SendersInv'
<1>1. PICK c : Chain(c) /\ Accounted(Elems(c)) /\ Addressed(Elems(c))
  BY DEF SendersInv
<1>2. /\ stack # <<>> /\ stack' = SubSeq(stack, 1, Len(stack) - 1)
      /\ UNCHANGED <<sync, pc, req>> /\ opc' # "throw"
  BY DEF HandlerReturns, content
<1>3. PICK f : f = stack[Len(stack)].from
  OBVIOUS
<1>4. /\ f \in Actors \cup {Nil}
      /\ \A u \in Threads : Handled(u) = Handled(u)' + IF f = u THEN 1 ELSE 0
  BY <1>2, <1>3, HandledPopped
<1>5. \A u \in Threads : reply'[u] = reply[u] + IF f = u THEN 1 ELSE 0
  <2>1. CASE f = Nil
    BY <1>3, <2>1, HandledType, ThreadsAssumption DEF HandlerReturns, Actors
  <2>2. CASE f # Nil
    BY <1>3, <2>2 DEF HandlerReturns, Post
  <2> QED
    BY <2>1, <2>2
<1>7. ASSUME NEW u \in Threads
      PROVE  (IF u \in Elems(c) THEN 1 ELSE 0) + Handled(u)' + reply'[u]
               = IF Sending(u)' THEN 1 ELSE 0
  <2>1. (IF u \in Elems(c) THEN 1 ELSE 0) + Handled(u) + reply[u]
          = IF Sending(u) THEN 1 ELSE 0
    BY <1>1 DEF Accounted
  <2>2. Handled(u) \in Nat /\ reply[u] \in Nat /\ Handled(u)' \in Nat
    <3>1. Inv'
      BY NextInv DEF Next, Loop
    <3>2. Inv' => \A t \in Threads : Handled(t)' \in Nat
      BY HandledNext
    <3> QED
      BY <3>1, <3>2, HandledType
  <2>3. Sending(u)' = Sending(u)
    BY <1>2 DEF Sending
  <2>4. \A n \in {0, 1} : n + Handled(u)' + reply'[u] = n + Handled(u) + reply[u]
    BY <1>4, <1>5, <2>2
  <2> QED
    BY <2>1, <2>3, <2>4
<1>8. Chain(c)'
  BY <1>1, <1>2 DEF Chain, sync
<1>9. Elems(c)' = Elems(c)
  BY DEF Elems
<1>10. Accounted(Elems(c))'
  BY <1>7, <1>9 DEF Accounted
<1>11. Addressed(Elems(c))'
  BY <1>1, <1>2, <1>9 DEF Addressed
<1> QED
  BY <1>2, <1>8, <1>10, <1>11 DEF SendersInv

\* The owner's own send is answered to nobody here.
LEMMA OwnAnsweredSenders ==
  ASSUME Inv, SendersInv, OwnAnswered PROVE SendersInv'
<1>1. /\ stack # <<>> /\ stack' = SubSeq(stack, 1, Len(stack) - 1)
      /\ UNCHANGED <<sync, pc, req, reply>> /\ opc' # "throw"
  BY DEF OwnAnswered, SendOnTop, content, others
<1>2. \A t \in Threads : stack[Len(stack)].from # t
  BY ThreadsAssumption DEF OwnAnswered, SendOnTop
<1>3. Inv' /\ (Inv' => \A t \in Threads : Handled(t)' \in Nat)
  BY NextInv, HandledNext DEF Next, Application
<1>4. ASSUME NEW t \in Threads PROVE Handled(t)' = Handled(t)
  <2>1. Handled(t) = Handled(t)' + IF stack[Len(stack)].from = t THEN 1 ELSE 0
    BY <1>1, HandledPopped
  <2> QED
    BY <1>2, <1>3, <2>1
<1>5. Leaves
  BY <1>1, <1>4 DEF Leaves, Sending, SendersInv, Addressed
<1> QED
  BY <1>5, LeavesSenders

\* The walk along the list meets the senders of c in turn.
LEMMA ChainFits ==
  ASSUME NEW c, Chain(c)
  PROVE  /\ Len(c) \in Nat /\ Cardinality(Threads) \in Nat
         /\ Len(c) <= Cardinality(Threads)
<1>1. /\ c \in Seq(Threads) /\ Len(c) \in Nat
      /\ \A i \in 1 .. Len(c) : c[i] \in Threads
      /\ \A i, j \in 1 .. Len(c) : c[i] = c[j] => i = j
  BY DEF Chain
<1>2. c \in [1 .. Len(c) -> Threads]
  BY <1>1
<1>3. c \in Injection(1 .. Len(c), Threads)
  BY <1>1, <1>2, Zenon DEF Injection, IsInjective
<1>4. Cardinality(1 .. Len(c)) <= Cardinality(Threads)
  BY <1>3, FS_Injection, ThreadsAssumption
<1>5. Cardinality(1 .. Len(c)) = Len(c)
  <2>1. PICK n : n = Len(c)
    OBVIOUS
  <2>2. n \in Int /\ n >= 0
    BY <1>1, <2>1
  <2>3. Cardinality(1 .. n) = IF 1 > n THEN 0 ELSE n - 1 + 1
    BY <2>2, FS_Interval
  <2> QED
    BY <2>1, <2>2, <2>3
<1> QED
  BY <1>1, <1>4, <1>5, ThreadsAssumption, FS_CardinalityType

LEMMA WalkIs ==
  ASSUME NEW c, Chain(c)
  PROVE  /\ DOMAIN Walk = 0 .. Cardinality(Threads)
         /\ \A n \in 0 .. Cardinality(Threads) :
              Walk[n] = IF n < Len(c) THEN c[n + 1] ELSE Nil
<1> DEFINE N == Cardinality(Threads)
           At(n) == IF n < Len(c) THEN c[n + 1] ELSE Nil
           Body(f) == [i \in 0 .. N |-> IF i = 0 THEN pFirst
                                        ELSE IF f[i - 1] = Nil THEN Nil
                                        ELSE pNext[f[i - 1]]]
           W == [n \in 0 .. N |-> At(n)]
<1>1. N \in Nat /\ Len(c) \in Nat
  BY ChainFits
<1>2. Walk = CHOOSE f : f = Body(f)
  BY DEF Walk
<1>3. /\ pFirst = At(0)
      /\ \A n \in Nat \ {0} : At(n) = IF At(n - 1) = Nil THEN Nil ELSE pNext[At(n - 1)]
  <2>1. pFirst = At(0)
    <3>1. c = <<>> <=> Len(c) = 0
      BY DEF Chain
    <3> QED
      BY <1>1, <3>1 DEF Chain
  <2>2. ASSUME NEW n \in Nat \ {0}
        PROVE  At(n) = IF At(n - 1) = Nil THEN Nil ELSE pNext[At(n - 1)]
    <3>1. CASE n <= Len(c)
      <4>1. n \in 1 .. Len(c) /\ n - 1 < Len(c) /\ (n - 1) + 1 = n
        BY <1>1, <3>1
      <4>2. c[n] \in Threads /\ c[n] # Nil
        BY <4>1, ThreadsAssumption DEF Chain, Actors
      <4>3. pNext[c[n]] = IF n < Len(c) THEN c[n + 1] ELSE Nil
        BY <4>1 DEF Chain
      <4>4. At(n - 1) = c[n]
        BY <4>1
      <4> QED
        BY <4>2, <4>3, <4>4
    <3>2. CASE ~(n <= Len(c))
      <4>1. ~(n < Len(c)) /\ ~(n - 1 < Len(c))
        BY <1>1, <3>2
      <4> QED
        BY <4>1
    <3> QED
      BY <3>1, <3>2
  <2> QED
    BY <2>1, <2>2
<1> HIDE DEF N, At
<1>4. \E f : f = Body(f)
  <2>1. \A n \in 0 .. N : W[n] = IF n = 0 THEN pFirst
                                 ELSE IF W[n - 1] = Nil THEN Nil ELSE pNext[W[n - 1]]
    <3>1. SUFFICES ASSUME NEW n \in 0 .. N
                   PROVE  W[n] = IF n = 0 THEN pFirst
                                 ELSE IF W[n - 1] = Nil THEN Nil ELSE pNext[W[n - 1]]
      OBVIOUS
    <3>2. CASE n = 0
      BY <1>3, <3>2
    <3>3. CASE n # 0
      <4>1. n - 1 \in 0 .. N /\ n \in Nat \ {0}
        BY <1>1, <3>3
      <4> QED
        BY <1>3, <3>3, <4>1
    <3> QED
      BY <3>2, <3>3
  <2>2. W = [n \in 0 .. N |-> W[n]]
    OBVIOUS
  <2> HIDE DEF W
  <2>3. W = Body(W)
    BY <2>1, <2>2
  <2> QED
    BY <2>3
<1>5. PICK f : f = Walk
  OBVIOUS
<1>6. f = Body(f)
  <2> HIDE DEF Body
  <2> QED
    BY <1>2, <1>4, <1>5
<1>7. /\ DOMAIN f = 0 .. N
      /\ \A n \in 0 .. N : f[n] = IF n = 0 THEN pFirst
                                 ELSE IF f[n - 1] = Nil THEN Nil ELSE pNext[f[n - 1]]
  <2> DEFINE g == Body(f)
  <2>1. /\ DOMAIN g = 0 .. N
        /\ \A n \in 0 .. N : g[n] = IF n = 0 THEN pFirst
                                   ELSE IF f[n - 1] = Nil THEN Nil ELSE pNext[f[n - 1]]
    OBVIOUS
  <2>2. g = f
    BY <1>6
  <2> HIDE DEF g
  <2> QED
    BY <2>1, <2>2
<1> HIDE DEF Body, W
<1> DEFINE S == {n \in 0 .. N : f[n] = At(n)}
<1>8. 0 .. N \subseteq S
  <2>1. 0 \in S
    BY <1>1, <1>3, <1>7
  <2>2. ASSUME NEW n \in 0 .. N - 1, n \in S PROVE n + 1 \in S
    <3>1. n + 1 \in 0 .. N /\ n + 1 \in Nat \ {0} /\ n + 1 # 0 /\ (n + 1) - 1 = n
      BY <1>1
    <3>2. f[n + 1] = IF f[n] = Nil THEN Nil ELSE pNext[f[n]]
      BY <1>7, <3>1
    <3>3. At(n + 1) = IF At(n) = Nil THEN Nil ELSE pNext[At(n)]
      BY <1>3, <3>1
    <3> QED
      BY <2>2, <3>1, <3>2, <3>3
  <2> HIDE DEF S
  <2> QED
    BY <1>1, <2>1, <2>2, UpTo
<1> QED
  BY <1>5, <1>7, <1>8 DEF At, N

LEMMA LinkedIs ==
  ASSUME NEW c, Chain(c) PROVE Linked = Elems(c)
<1>1. /\ Len(c) \in Nat /\ Cardinality(Threads) \in Nat
      /\ Len(c) <= Cardinality(Threads)
  BY ChainFits
<1>2. \A i \in 1 .. Len(c) : c[i] \in Threads
  BY DEF Chain
<1>3. ASSUME NEW t \in Linked PROVE t \in Elems(c)
  <2>1. PICK i \in DOMAIN Walk : Walk[i] = t /\ t \in Threads
    BY DEF Linked
  <2>2. i \in 0 .. Cardinality(Threads) /\ i < Len(c) /\ t = c[i + 1]
    <3>1. t # Nil
      BY <2>1, ThreadsAssumption DEF Actors
    <3>2. /\ i \in 0 .. Cardinality(Threads)
          /\ Walk[i] = IF i < Len(c) THEN c[i + 1] ELSE Nil
      BY <2>1, WalkIs
    <3> QED
      BY <2>1, <3>1, <3>2
  <2>3. i + 1 \in 1 .. Len(c)
    BY <1>1, <2>2
  <2> QED
    BY <2>2, <2>3 DEF Elems
<1>4. ASSUME NEW t \in Elems(c) PROVE t \in Linked
  <2>1. PICK i \in 1 .. Len(c) : t = c[i]
    BY DEF Elems
  <2>2. PICK k : k = i - 1
    OBVIOUS
  <2>3. k \in 0 .. Cardinality(Threads) /\ k < Len(c) /\ k + 1 = i
    BY <1>1, <2>2
  <2>4. Walk[k] = t /\ k \in DOMAIN Walk
    BY <2>1, <2>3, WalkIs
  <2> QED
    BY <1>2, <2>1, <2>4 DEF Linked
<1> QED
  BY <1>3, <1>4

LEMMA AnswerSenders ==
  ASSUME Inv, SendersInv, NEW t \in Threads, Answered(t) PROVE SendersInv'
<1>1. PICK c : Chain(c) /\ Accounted(Elems(c)) /\ Addressed(Elems(c))
  BY DEF SendersInv
<1>2. /\ DOMAIN pc = Threads /\ DOMAIN req = Threads /\ DOMAIN reply = Threads
      /\ pc[t] = "reply" /\ reply[t] > 0
      /\ pc' = [pc EXCEPT ![t] = "idle"] /\ reply' = [reply EXCEPT ![t] = 0]
      /\ req' = [req EXCEPT ![t] = NoMsg]
      /\ UNCHANGED <<sync, stack, opc>>
  BY DEF Inv, TypeOK, ThreadsOK, Answered, Leave, Goto, content, owner
<1>3. t \notin Elems(c) /\ Handled(t) = 0
  BY <1>1, <1>2, MembersSend
<1>4. Chain(c)'
  BY <1>1, <1>2 DEF Chain, sync
<1>5. Elems(c)' = Elems(c)
  BY DEF Elems
<1>6. ASSUME NEW u \in Threads
      PROVE  (IF u \in Elems(c) THEN 1 ELSE 0) + Handled(u)' + reply'[u]
               = IF Sending(u)' THEN 1 ELSE 0
  <2>1. Handled(u)' = Handled(u)
    BY <1>2, HandledKept
  <2>2. CASE u = t
    BY <1>2, <1>3, <2>1, <2>2 DEF Sending
  <2>3. CASE u # t
    <3>1. reply'[u] = reply[u] /\ pc'[u] = pc[u]
      BY <1>2, <2>3
    <3> QED
      BY <1>1, <2>1, <3>1 DEF Sending, Accounted
  <2> QED
    BY <2>2, <2>3
<1>7. Accounted(Elems(c))'
  BY <1>5, <1>6 DEF Accounted
<1>8. Addressed(Elems(c))'
  BY <1>1, <1>2, <1>3, <1>5 DEF Addressed
<1> QED
  BY <1>2, <1>4, <1>7, <1>8 DEF SendersInv

\* ThrowAwayMessages wakes everybody in the list, since all are for the window.
LEMMA ThrowSenders ==
  ASSUME Inv, RingCalls, SendersInv, ThrowAwayMessages PROVE SendersInv'
<1>1. PICK c : Chain(c) /\ Accounted(Elems(c)) /\ Addressed(Elems(c))
  BY DEF SendersInv
<1>2. /\ OneWindow /\ victim \in Wnds /\ UNCHANGED <<pc, stack>> /\ opc' = "run"
      /\ ThrowAwaySync
  BY DEF ThrowAwayMessages, SendersInv, RingCalls
<1>3. Linked = Elems(c) /\ Elems(c) \subseteq Threads
  BY <1>1, LinkedIs DEF Linked
<1>4. \A t \in Linked : OfVictim(req[t])
  BY <1>1, <1>2, <1>3 DEF OfVictim, Addressed, OneWindow
<1>5. CASE pFirst = Nil /\ UNCHANGED <<sync, req, reply>>
  <2>1. Leaves
    BY <1>1, <1>2, <1>5, HandledKept DEF Leaves, Sending, Addressed
  <2> QED
    BY <2>1, LeavesSenders
<1>6. CASE pFirst # Nil
  <2>1. \A f \in Threads : ~StaysFirst(f)
    BY <1>4 DEF StaysFirst
  <2>2. pFirst' = Nil
    BY <1>2, <1>6, <2>1 DEF ThrowAwaySync
  <2>3. Chain(<<>>)'
    BY <2>2 DEF Chain
  <2>4. Elems(<<>>)' = {}
    BY DEF Elems
  <2>5. reply' = [t \in Threads |-> reply[t] + IF t \in Linked THEN 1 ELSE 0]
    <3>1. {t \in Linked : OfVictim(req[t])} = Linked
      BY <1>4
    <3> QED
      BY <1>2, <1>6, <3>1 DEF ThrowAwaySync, Post
  <2>6. \A t \in Threads : t \notin Linked => req'[t] = req[t]
    BY <1>2, <1>6 DEF ThrowAwaySync
  <2>7. ASSUME NEW t \in Threads
        PROVE  (IF t \in {} THEN 1 ELSE 0) + Handled(t)' + reply'[t]
                 = IF Sending(t)' THEN 1 ELSE 0
    <3>1. (IF t \in Linked THEN 1 ELSE 0) + Handled(t) + reply[t]
            = IF Sending(t) THEN 1 ELSE 0
      BY <1>1, <1>3 DEF Accounted
    <3>2. Handled(t) \in Nat /\ reply[t] \in Nat /\ Handled(t)' = Handled(t)
      BY <1>2, HandledType, HandledKept
    <3>3. Sending(t)' = Sending(t)
      BY <1>2 DEF Sending
    <3>4. reply'[t] = reply[t] + IF t \in Linked THEN 1 ELSE 0
      BY <2>5
    <3> QED
      BY <3>1, <3>2, <3>3, <3>4
  <2>8. Accounted(Elems(<<>>))'
    BY <2>4, <2>7 DEF Accounted
  <2>9. \A t \in Threads : pc[t] = "sync" => t \notin Linked
    BY <1>1, <1>3, MembersSend DEF Sending
  <2>10. Addressed(Elems(<<>>))'
    BY <1>1, <1>2, <2>4, <2>6, <2>9 DEF Addressed
  <2> QED
    BY <1>2, <2>3, <2>8, <2>10 DEF SendersInv
<1> QED
  BY <1>2, <1>5, <1>6 DEF ThrowAwaySync

\* What is dispatched without a sender is answered to nobody.
LEMMA DispatchSenders ==
  ASSUME Inv, NEW m \in Message, Dispatch(m, Nil)
  PROVE  \A t \in Threads : Handled(t)' = Handled(t) /\ reply'[t] = reply[t]
<1>1. reply' = reply
  BY DEF Dispatch
<1>2. CASE stack' = stack
  BY <1>1, <1>2, HandledKept
<1>3. CASE stack' = Append(stack, [m |-> m, from |-> Nil])
  <2>1. \A t \in Threads : Nil # t /\ Handled(t) \in Nat
    BY ThreadsAssumption, HandledType DEF Actors
  <2>2. PICK e : e = [m |-> m, from |-> Nil]
    OBVIOUS
  <2>3. e \in [m : Message, from : Actors \cup {Nil}] /\ e.from = Nil
    BY <2>2
  <2>4. \A t \in Threads : Handled(t)' = Handled(t) + IF e.from = t THEN 1 ELSE 0
    BY <1>3, <2>2, <2>3, HandledPushed
  <2> QED
    BY <1>1, <2>1, <2>3, <2>4
<1> QED
  BY <1>2, <1>3 DEF Dispatch

LEMMA SendersLoop ==
  ASSUME Inv, RingCalls, SendersInv, Loop PROVE SendersInv'
<1>1. CASE PeekSync
  <2>1. CASE peek.remove
    <3>1. TakesFirst
      BY <1>1, <2>1 DEF PeekSync, SyncHit, HasSync, Dispatch, TakesFirst
    <3> QED
      BY <3>1, TakeSenders
  <2>2. CASE ~peek.remove
    <3>1. UNCHANGED <<sync, pc, req, reply, stack>> /\ opc' = "run"
      BY <1>1, <2>2 DEF PeekSync, Dispatch, sync
    <3>2. Leaves
      BY <3>1, HandledKept DEF Leaves, Sending, SendersInv, Addressed
    <3> QED
      BY <3>2, LeavesSenders
  <2> QED
    BY <2>1, <2>2
<1>2. CASE HandlerReturns
  BY <1>2, ReturnSenders
<1>3. CASE ~(PeekSync \/ HandlerReturns)
  <2>1. UNCHANGED <<sync, pc, req>> /\ opc' # "throw"
    BY <1>3 DEF Loop, GetMessage, CallPeek, PeekQuit, PeekNotify, PeekPost,
       PeekPaint, PeekTimer, PeekTimerProc, CallbackReturns, PeekNothing, Wake,
       Dispatch, NoMessage, others, content
  <2>2. \A t \in Threads : Handled(t)' = Handled(t) /\ reply'[t] = reply[t]
    <3>1. CASE PeekNotify \/ PeekPost \/ PeekPaint \/ PeekTimer
      <4>1. \E m \in Message : Dispatch(m, Nil)
        <5>1. CASE PeekNotify
          <6>1. Head(notify) \in Message
            BY <5>1 DEF PeekNotify, NotifyHit, HasNotify, Inv, TypeOK, ListsOK
          <6> QED
            BY <5>1, <6>1 DEF PeekNotify
        <5>2. CASE PeekPost
          BY <5>2 DEF PeekPost, Inv, TypeOK, RingOK
        <5>3. CASE PeekPaint
          BY <5>3, Messages DEF PeekPaint, Unpainted, Inv, TypeOK, WndsOK
        <5>4. CASE PeekTimer
          BY <5>4, Messages DEF PeekTimer
        <5> QED
          BY <3>1, <5>1, <5>2, <5>3, <5>4
      <4> QED
        BY <4>1, DispatchSenders
    <3>2. CASE ~(PeekNotify \/ PeekPost \/ PeekPaint \/ PeekTimer)
      <4>1. UNCHANGED <<stack, reply>>
        BY <1>3, <3>2 DEF Loop, GetMessage, CallPeek, PeekQuit, PeekTimerProc,
           CallbackReturns, PeekNothing, Wake, others
      <4> QED
        BY <4>1, HandledKept
    <3> QED
      BY <3>1, <3>2
  <2>3. Leaves
    BY <2>1, <2>2 DEF Leaves, Sending, SendersInv, Addressed
  <2> QED
    BY <2>3, LeavesSenders
<1> QED
  BY <1>1, <1>2, <1>3

LEMMA SendersApplication ==
  ASSUME ThrowsAll, Inv, RingCalls, SendersInv, Application PROVE SendersInv'
<1>1. CASE ThrowAwayMessages
  BY <1>1, ThrowSenders
<1>3. CASE DrainTake
  <2>1. TakesFirst \/ req[pFirst].hwnd = HWND_INVALID
    BY <1>3 DEF DrainTake, HasSync, TakesFirst
  <2>2. PICK c : Chain(c) /\ Addressed(Elems(c))
    BY DEF SendersInv
  <2>3. /\ c # <<>> /\ pFirst = c[1] /\ 1 \in 1 .. Len(c) /\ pFirst \in Threads
    BY <1>3, <2>2 DEF DrainTake, HasSync, Chain
  <2>5. pFirst \in Elems(c)
    BY <2>3 DEF Elems
  <2>4. req[pFirst].hwnd # HWND_INVALID
    BY <2>2, <2>3, <2>5, InputsAssumption DEF Addressed
  <2> QED
    BY <2>1, <2>4, TakeSenders
<1>4. CASE OwnAnswered
  BY <1>4, OwnAnsweredSenders
<1>2. CASE ~ThrowAwayMessages /\ ~DrainTake /\ ~OwnAnswered
  <2>1. UNCHANGED <<sync, pc, req, reply>>
    BY <1>2 DEF Application, PeekMessage, WaitMessage, CallPeek,
       WaitMessageCheck, PeekPostMessage, OwnPost, OwnNotify, BeginPaint,
       OwnInvalidate, UpdateWindow, OwnQuit, OwnSend, DrainEnds, DrainClear,
       DestroyMainWindow, CallThrowAway, content, others
  <2>2. \A t \in Threads : Handled(t)' = Handled(t)
    <3>1. CASE PeekPostMessage
      <4>1. CASE stack' = stack
        BY <4>1, HandledKept
      <4>2. CASE stack' = Append(stack, [m |-> msg[readpos], from |-> Nil])
        <5>1. msg[readpos] \in Message
          BY DEF Inv, TypeOK, RingOK
        <5>2. \A t \in Threads : Nil # t /\ Handled(t) \in Nat
          BY ThreadsAssumption, HandledType DEF Actors
        <5>3. PICK e : e = [m |-> msg[readpos], from |-> Nil]
          OBVIOUS
        <5>4. e \in [m : Message, from : Actors \cup {Nil}] /\ e.from = Nil
          BY <5>1, <5>3
        <5>5. \A t \in Threads : Handled(t)' = Handled(t) + IF e.from = t THEN 1 ELSE 0
          BY <4>2, <5>3, <5>4, HandledPushed
        <5> QED
          BY <5>2, <5>4, <5>5
      <4> QED
        BY <3>1, <4>1, <4>2 DEF PeekPostMessage
    <3>2. CASE OwnSend
      <4>1. PICK e : e = SendFrame
        OBVIOUS
      <4>2. e \in [m : Message, from : Actors \cup {Nil}] /\ e.from = Owner
        BY <4>1, Messages DEF SendFrame, Actors
      <4>3. \A t \in Threads : Handled(t)' = Handled(t) + IF e.from = t THEN 1 ELSE 0
        BY <3>2, <4>1, <4>2, HandledPushed DEF OwnSend
      <4> QED
        BY <4>2, <4>3, HandledType, ThreadsAssumption
    <3>3. CASE ~PeekPostMessage /\ ~OwnSend
      <4>1. UNCHANGED stack
        BY <1>2, <3>3 DEF Application, PeekMessage, WaitMessage, CallPeek,
           WaitMessageCheck, OwnPost, OwnNotify, BeginPaint, OwnInvalidate,
           UpdateWindow, OwnQuit, DrainEnds, DrainClear, DestroyMainWindow,
           CallThrowAway, owner
      <4> QED
        BY <4>1, HandledKept
    <3> QED
      BY <3>1, <3>2, <3>3
  <2>3. OneWindow \/ opc' # "throw"
    BY <1>2 DEF Application, PeekMessage, WaitMessage, CallPeek,
       WaitMessageCheck, PeekPostMessage, OwnPost, OwnNotify, BeginPaint,
       OwnInvalidate, UpdateWindow, OwnQuit, OwnSend, DrainEnds, DrainClear,
       DestroyMainWindow, CallThrowAway, May, owner, ThrowsAll, SendersInv
  <2>4. Leaves
    BY <2>1, <2>2, <2>3 DEF Leaves, Sending, SendersInv, Addressed
  <2> QED
    BY <2>4, LeavesSenders
<1> QED
  BY <1>1, <1>2, <1>3, <1>4

LEMMA SendersThreads ==
  ASSUME Inv, RingCalls, SendersInv, NEW t \in Threads, Calls(t) \/ Proceeds(t)
  PROVE  SendersInv'
<1>0. DOMAIN pc = Threads /\ DOMAIN req = Threads
  BY DEF Inv, TypeOK, ThreadsOK
<1>1. CASE Calls(t)
  <2>1. UNCHANGED <<sync, reply, stack, opc>>
    BY <1>1 DEF Calls, PostMessage, SendNotifyMessage, SendSyncMessage,
       InvalidateRect, PostQuitMessage, TimerExpires, Begin, content, owner
  <2>2. \E p, m : /\ Begin(t, p, m) /\ p \notin {"ssig", "spost", "reply"}
                  /\ p = "sync" => m.hwnd \in Wnds
    BY <1>1, InputsAssumption DEF Calls, PostMessage, SendNotifyMessage,
       SendSyncMessage, InvalidateRect, PostQuitMessage, TimerExpires, Sent
  <2>3. PICK p, m : /\ pc[t] = "idle"
                    /\ pc' = [pc EXCEPT ![t] = p] /\ req' = [req EXCEPT ![t] = m]
                    /\ p \notin {"ssig", "spost", "reply"}
                    /\ p = "sync" => m.hwnd \in Wnds
    BY <2>2 DEF Begin, Goto
  <2>4. \A u \in Threads :
          /\ Sending(u)' <=> Sending(u)
          /\ Sending(u) => req'[u] = req[u]
          /\ pc'[u] = "sync" => req'[u].hwnd \in Wnds
    BY <1>0, <2>3 DEF Sending, SendersInv, Addressed
  <2>5. Leaves
    BY <2>1, <2>4, HandledKept DEF Leaves, SendersInv
  <2> QED
    BY <2>5, LeavesSenders
<1>2. CASE QueueSync(t)
  BY <1>2, PushSenders
<1>3. CASE Answered(t)
  BY <1>3, AnswerSenders
<1>4. CASE Proceeds(t) /\ ~QueueSync(t) /\ ~Answered(t)
  <2>1. UNCHANGED <<sync, reply, stack, opc>>
    BY <1>4 DEF Proceeds, QueueMessage, QueueNotify, AddInvalid, PostPaint,
       QueuePaint, Quit, SetTimerFlag, GetValue, SemPost, content, owner
  <2>2. \/ UNCHANGED <<pc, req>>
        \/ /\ UNCHANGED req
           /\ ~Sending(t)
           /\ \E p : p \notin {"sync", "ssig", "spost", "reply"} /\ Goto(t, p)
        \/ ~Sending(t) /\ Leave(t)
        \/ /\ UNCHANGED req
           /\ Sending(t)
           /\ \E p : p \in {"ssig", "spost", "reply"} /\ Goto(t, p)
    BY <1>4 DEF Proceeds, QueueMessage, QueueNotify, AddInvalid, PostPaint,
       QueuePaint, Quit, SetTimerFlag, GetValue, SemPost, Signalled, Sending
  <2>3. \A u \in Threads :
          /\ Sending(u)' <=> Sending(u)
          /\ Sending(u) => req'[u] = req[u]
          /\ pc'[u] = "sync" => pc[u] = "sync" /\ req'[u] = req[u]
    BY <1>0, <2>2 DEF Sending, Goto, Leave
  <2>4. Leaves
    BY <2>1, <2>3, HandledKept DEF Leaves, SendersInv, Addressed
  <2> QED
    BY <2>4, LeavesSenders
<1> QED
  BY <1>1, <1>2, <1>3, <1>4 DEF Proceeds

LEMMA SendersNext ==
  ASSUME ThrowsAll, Inv, RingCalls, SendersInv, [Next]_vars PROVE SendersInv'
<1>1. CASE UNCHANGED vars
  <2>1. UNCHANGED <<sync, pc, req, reply, stack, opc>>
    BY <1>1 DEF vars, content, others, owner
  <2>2. Leaves
    BY <2>1, HandledKept DEF Leaves, Sending, SendersInv, Addressed
  <2> QED
    BY <2>2, LeavesSenders
<1> QED
  BY <1>1, SendersLoop, SendersApplication, SendersThreads DEF Next

LEMMA SendersAlways == ASSUME ThrowsAll PROVE Spec => [](Inv /\ SendersInv)
<1>1. Init => RingCalls
  BY DEF Init, RingCalls
<1>2. Init => SendersInv
  <2> SUFFICES ASSUME Init PROVE SendersInv
    OBVIOUS
  <2>1. Chain(<<>>) /\ Elems(<<>>) = {}
    BY NoSenders DEF Init
  <2>2. \A t \in Threads : Handled(t) = 0
    <3>1. \A t : {i \in DOMAIN stack : stack[i].from = t} = {}
      BY DEF Init
    <3> QED
      BY <3>1, FS_EmptySet DEF Handled
  <2>3. Accounted({})
    BY <2>2 DEF Accounted, Init, Sending
  <2>4. Addressed({})
    BY DEF Addressed, Init
  <2> QED
    BY <2>1, <2>3, <2>4 DEF SendersInv, Init
<1>3. Inv /\ RingCalls /\ SendersInv /\ [Next]_vars => RingCalls' /\ SendersInv'
  BY RingNext, SendersNext
<1> QED
  BY <1>1, <1>2, <1>3, InitInv, NextInv, PTL DEF Spec

\* message.c, SendSyncMessage, PeekMessageEx, DispatchMessage and
\* ThrowAwayMessages: through nested handlers, quits that overwrite flags and
\* destruction, every waiting sender is in the list, being handled or answered,
\* in exactly one of them and once.
THEOREM AccountingCorrect == ASSUME ThrowsAll PROVE Spec => []SyncAccounting
<1>1. SendersInv => SyncAccounting
  BY LinkedIs DEF SendersInv, SyncAccounting, Accounted
<1> QED
  BY <1>1, SendersAlways, PTL

\* internals.h:198, "tail of the sync message queue": pLastSyncMsg is the end
\* of the list whenever the list is not empty.
THEOREM TailCorrect == ASSUME ThrowsAll PROVE Spec => []TailIsLast
<1>1. SendersInv => TailIsLast
  <2> SUFFICES ASSUME SendersInv, pFirst # Nil
               PROVE  pLast \in Linked /\ pNext[pLast] = Nil
    BY DEF TailIsLast
  <2>1. PICK c : Chain(c)
    BY DEF SendersInv
  <2>2. c # <<>> /\ Len(c) \in 1 .. Len(c)
    BY <2>1 DEF Chain
  <2>3. pLast = c[Len(c)] /\ pNext[pLast] = Nil
    BY <2>1, <2>2 DEF Chain
  <2> QED
    BY <2>1, <2>2, <2>3, LinkedIs DEF Elems
<1> QED
  BY <1>1, SendersAlways, PTL
=============================================================================
