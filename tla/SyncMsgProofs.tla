---------------------------- MODULE SyncMsgProofs ----------------------------
(***************************************************************************)
(* Proofs about SyncMsg, for every number of threads and of sends, when    *)
(* the handler of a message does not itself send.  When it does, the       *)
(* properties do not hold (see the README): the answers of two sends of    *)
(* one thread are counted by the same semaphore.                           *)
(***************************************************************************)
EXTENDS SyncMsg, TLAPS

\* The handlers of synchronous messages do not send.
Plain == HandlersSend = FALSE

-----------------------------------------------------------------------------
(* The inductive invariant.                                                *)

Places == {"queue", "drain", "clear", "wait", "proc"}
Frames == [fn : {"send", "handle"}, at : Places, peer : Threads, level : Nat,
           handled : BOOLEAN]

Types ==
  /\ list \in [Threads -> Seq(Threads \X {1})]
  /\ flag \in [Threads -> BOOLEAN]
  /\ sem \in [Threads -> Nat]
  /\ stack \in [Threads -> Seq(Frames)]

\* A frame of SendSyncMessage, and one of DispatchMessage.
Sends(f)  == f.fn = "send" /\ f.at # "proc" /\ (f.at = "queue" => ~f.handled)
Serves(f) == f.fn = "handle" /\ f.at = "proc" /\ f.level = 1 /\ ~f.handled

\* A thread is in no call, in a send, in a handler, or in a handler that the
\* loop of a send called.
Shape(s) ==
  \/ Len(s) = 0
  \/ Len(s) = 1 /\ (Sends(s[1]) \/ Serves(s[1]))
  \/ Len(s) = 2 /\ Sends(s[1]) /\ s[1].at = "drain" /\ Serves(s[2])
Shapes == \A t \in Threads : Shape(stack[t])

\* Thread u is handling a message of Top(u).peer; thread t's message is out.
Serving(u) == Depth(u) > 0 /\ Top(u).fn = "handle"
Awaits(t)  == Outstanding(t, 1)
Out        == {t \in Threads : Awaits(t)}

\* What is in a list or being handled is a message that is out ...
Referred ==
  /\ \A u \in Threads : \A i \in DOMAIN list[u] : list[u][i][1] \in Out
  /\ \A u \in Threads : Serving(u) => Top(u).peer \in Out

\* ... and no message is in two places.
Listed ==
  \A u, v \in Threads : \A i \in DOMAIN list[u], j \in DOMAIN list[v] :
    list[u][i][1] = list[v][j][1] => u = v /\ i = j
Unlisted ==
  \A u, v \in Threads : \A i \in DOMAIN list[u] :
    Serving(v) => list[u][i][1] # Top(v).peer
Alone ==
  \A u, v \in Threads :
    Serving(u) /\ Serving(v) /\ Top(u).peer = Top(v).peer => u = v

\* The semaphore holds the answer of the send the thread is in.
Answers(t) == Depth(t) > 0 /\ stack[t][1].handled
Counted    == \A t \in Threads : sem[t] = IF Answers(t) THEN 1 ELSE 0

SyncInv == Types /\ Shapes /\ Referred /\ Listed /\ Unlisted /\ Alone /\ Counted

-----------------------------------------------------------------------------
\* A thread whose stack a step leaves alone is where it was.
LEMMA StackKept ==
  ASSUME NEW k \in Threads, stack'[k] = stack[k]
  PROVE  /\ Serving(k)' = Serving(k) /\ Top(k)' = Top(k)
         /\ Awaits(k)' = Awaits(k) /\ Answers(k)' = Answers(k)
         /\ Shape(stack[k])' = Shape(stack[k])
  BY DEF Serving, Top, Depth, Awaits, Outstanding, Answers, Shape

\* A thread handles the message of a thread.
LEMMA ServedPeer ==
  ASSUME Types, NEW u \in Threads, Serving(u)
  PROVE  Top(u) \in Frames /\ Top(u).peer \in Threads
<1>1. PICK s : s = stack[u]
  OBVIOUS
<1>2. s \in Seq(Frames) /\ Len(s) > 0 /\ Top(u) = s[Len(s)]
  BY <1>1 DEF Types, Serving, Depth, Top
<1>3. Top(u) \in Frames
  BY <1>2
<1> QED
  BY <1>3 DEF Frames

\* Where a thread is, by the shape of its stack.
LEMMA WhereIs ==
  ASSUME SyncInv, NEW t \in Threads
  PROVE  /\ stack[t] \in Seq(Frames) /\ Depth(t) \in 0 .. 2
         /\ \A p \in {"queue", "clear", "wait"} : In(t, p) =>
              Depth(t) = 1 /\ Sends(stack[t][1]) /\ Top(t) = stack[t][1]
         /\ In(t, "drain") =>
              Depth(t) = 1 /\ Sends(stack[t][1]) /\ Top(t) = stack[t][1]
         /\ In(t, "proc") =>
              /\ Serving(t) /\ Serves(Top(t)) /\ Top(t) = stack[t][Depth(t)]
              /\ Depth(t) = 2 => Sends(stack[t][1])
                                 /\ stack[t][1].at = "drain"
<1>1. stack[t] \in Seq(Frames) /\ Shape(stack[t])
  BY DEF SyncInv, Types, Shapes
<1> QED
  BY <1>1 DEF Shape, In, Depth, Top, Serving, Sends, Serves

LEMMA InitSync == Init => SyncInv
<1> SUFFICES ASSUME Init PROVE SyncInv
  OBVIOUS
<1>1. Types
  BY DEF Init, Types
<1>2. \A t \in Threads : Depth(t) = 0 /\ list[t] = << >>
  BY DEF Init, Depth
<1>3. Shapes
  BY <1>2 DEF Shapes, Shape, Depth
<1>4. \A t \in Threads : DOMAIN list[t] = {} /\ ~Serving(t) /\ ~Answers(t)
  <2> SUFFICES ASSUME NEW t \in Threads
               PROVE  DOMAIN list[t] = {} /\ ~Serving(t) /\ ~Answers(t)
    OBVIOUS
  <2>1. ~Serving(t) /\ ~Answers(t)
    BY <1>2 DEF Serving, Answers
  <2>2. Len(list[t]) = 0 /\ list[t] \in Seq(Threads \X {1})
    BY <1>1, <1>2 DEF Types
  <2> QED
    BY <2>1, <2>2
<1>5. Counted
  BY <1>4 DEF Counted, Init
<1> QED
  BY <1>1, <1>3, <1>4, <1>5 DEF SyncInv, Referred, Listed, Unlisted, Alone


-----------------------------------------------------------------------------
(* The steps.                                                              *)

\* Steps that leave the lists and the semaphores alone, and in which every
\* thread keeps the message it has out and the one it is handling.
LEMMA SameRefs ==
  ASSUME SyncInv, list' = list, sem' = sem, Types', Shapes',
         \A k \in Threads :
           /\ Awaits(k) => Awaits(k)'
           /\ Serving(k)' => Serving(k) /\ Top(k)'.peer = Top(k).peer
           /\ Answers(k)' = Answers(k)
  PROVE  SyncInv'
<1> USE DEF SyncInv
<1>1. Referred'
  <2>1. Out \subseteq Out'
    BY DEF Out
  <2> QED
    BY <2>1 DEF Referred
<1>2. Listed'
  BY DEF Listed
<1>3. Unlisted'
  BY DEF Unlisted
<1>4. Alone'
  BY DEF Alone
<1>5. Counted'
  BY DEF Counted
<1> QED
  BY <1>1, <1>2, <1>3, <1>4, <1>5


\* A step that changes the stack of t alone.
LEMMA OneStack ==
  ASSUME SyncInv, NEW t \in Threads, NEW s \in Seq(Frames), Shape(s),
         stack' = [stack EXCEPT ![t] = s]
  PROVE  /\ stack' \in [Threads -> Seq(Frames)] /\ Shapes'
         /\ stack'[t] = s
         /\ \A k \in Threads \ {t} :
              /\ Serving(k)' = Serving(k) /\ Top(k)' = Top(k)
              /\ Awaits(k)' = Awaits(k) /\ Answers(k)' = Answers(k)
<1>1. /\ stack' \in [Threads -> Seq(Frames)] /\ stack'[t] = s
      /\ \A k \in Threads \ {t} : stack'[k] = stack[k]
  BY DEF SyncInv, Types
<1>2. \A k \in Threads \ {t} :
        /\ Serving(k)' = Serving(k) /\ Top(k)' = Top(k)
        /\ Awaits(k)' = Awaits(k) /\ Answers(k)' = Answers(k)
        /\ Shape(stack[k])' = Shape(stack[k])
  BY <1>1, StackKept
<1>3. Shapes'
  <2>1. ASSUME NEW k \in Threads
        PROVE  Shape(stack'[k])
    <3>1. CASE k = t
      BY <1>1, <3>1
    <3>2. CASE k # t
      <4>1. stack'[k] = stack[k]
        BY <1>1, <3>2
      <4> QED
        BY <4>1 DEF SyncInv, Shapes
    <3> QED
      BY <3>1, <3>2
  <2> QED
    BY <2>1 DEF Shapes
<1> QED
  BY <1>1, <1>2, <1>3

\* A send goes on to another place.
LEMMA MoveStack ==
  ASSUME SyncInv, NEW t \in Threads, NEW p \in {"drain", "clear", "wait"},
         Depth(t) = 1, Sends(stack[t][1]), Move(t, p)
  PROVE  /\ stack' \in [Threads -> Seq(Frames)] /\ Shapes'
         /\ ~Serving(t)' /\ Answers(t)' = Answers(t)
         /\ ~stack[t][1].handled => Awaits(t)'
         /\ \A k \in Threads \ {t} :
              /\ Serving(k)' = Serving(k) /\ Top(k)' = Top(k)
              /\ Awaits(k)' = Awaits(k) /\ Answers(k)' = Answers(k)
<1>1. stack[t] \in Seq(Frames) /\ Len(stack[t]) = 1
  BY DEF SyncInv, Types, Depth
<1>2. PICK e : e = stack[t][1]
  OBVIOUS
<1>3. e \in Frames /\ Sends(e)
  BY <1>1, <1>2
<1>4. PICK f : f = [e EXCEPT !.at = p]
  OBVIOUS
<1>5. /\ f \in Frames /\ f.at = p /\ f.fn = e.fn /\ f.peer = e.peer
      /\ f.level = e.level /\ f.handled = e.handled
  BY <1>3, <1>4 DEF Frames, Places
<1>6. Sends(f)
  BY <1>3, <1>5 DEF Sends
<1>7. PICK s : s = [stack[t] EXCEPT ![1] = f]
  OBVIOUS
<1>8. s \in Seq(Frames) /\ Len(s) = 1 /\ s[1] = f
  BY <1>1, <1>5, <1>7
<1>9. Shape(s)
  BY <1>6, <1>8 DEF Shape
<1>10. stack' = [stack EXCEPT ![t] = s]
  BY <1>1, <1>2, <1>4, <1>7 DEF Move, Depth
<1>11. stack'[t] = s
  BY <1>8, <1>9, <1>10, OneStack
<1>12. ~Serving(t)'
  BY <1>6, <1>8, <1>11 DEF Serving, Top, Depth, Sends
<1>13. Answers(t)' = Answers(t)
  BY <1>1, <1>2, <1>5, <1>8, <1>11 DEF Answers, Depth
<1>14. ~stack[t][1].handled => Awaits(t)'
  BY <1>1, <1>2, <1>5, <1>6, <1>8, <1>11
     DEF Awaits, Outstanding, Depth, Sends
<1> QED
  BY <1>8, <1>9, <1>10, <1>12, <1>13, <1>14, OneStack

LEMMA SendStep ==
  ASSUME SyncInv, Plain, NEW t \in Threads, SendSyncMessage(t)
  PROVE  SyncInv'
<1>1. Depth(t) = 0
  BY DEF SendSyncMessage, Plain
<1>2. PICK u \in Threads : stack' = [stack EXCEPT ![t] = Append(@, SendFrame(u))]
  BY DEF SendSyncMessage
<1>3. PICK f : f = SendFrame(u)
  OBVIOUS
<1>4. f \in Frames /\ Sends(f) /\ f.fn = "send" /\ f.at = "queue" /\ ~f.handled
  BY <1>3 DEF SendFrame, Frames, Places, Sends
<1>5. stack[t] \in Seq(Frames) /\ Len(stack[t]) = 0
  BY <1>1 DEF SyncInv, Types, Depth
<1>6. PICK s : s = Append(stack[t], f)
  OBVIOUS
<1>7. s \in Seq(Frames) /\ Len(s) = 1 /\ s[1] = f
  BY <1>4, <1>5, <1>6
<1>8. Shape(s)
  BY <1>4, <1>7 DEF Shape
<1>9. stack' = [stack EXCEPT ![t] = s]
  BY <1>2, <1>3, <1>6
<1>10. /\ stack' \in [Threads -> Seq(Frames)] /\ Shapes' /\ stack'[t] = s
       /\ \A k \in Threads \ {t} :
            /\ Serving(k)' = Serving(k) /\ Top(k)' = Top(k)
            /\ Awaits(k)' = Awaits(k) /\ Answers(k)' = Answers(k)
  BY <1>7, <1>8, <1>9, OneStack
<1>11. ~Serving(t)' /\ ~Answers(t)'
  BY <1>4, <1>7, <1>10 DEF Serving, Top, Depth, Answers
<1>12. ~Awaits(t) /\ Answers(t)' = Answers(t)
  BY <1>1, <1>11 DEF Awaits, Outstanding, Answers
<1>13. list' = list /\ sem' = sem /\ Types'
  BY <1>10 DEF SyncInv, Types, SendSyncMessage
<1> QED
  BY <1>10, <1>11, <1>12, <1>13, SameRefs

\* A send that has been queued moves on.
LEMMA MoveStep ==
  ASSUME SyncInv, NEW t \in Threads, NEW p \in {"clear", "wait"},
         In(t, "drain") \/ In(t, "clear"), Move(t, p),
         list' = list, sem' = sem, flag' \in [Threads -> BOOLEAN]
  PROVE  SyncInv'
<1>1. Depth(t) = 1 /\ Sends(stack[t][1])
  BY WhereIs
<1>2. /\ stack' \in [Threads -> Seq(Frames)] /\ Shapes'
      /\ ~Serving(t)' /\ Answers(t)' = Answers(t)
      /\ ~stack[t][1].handled => Awaits(t)'
      /\ \A k \in Threads \ {t} :
           /\ Serving(k)' = Serving(k) /\ Top(k)' = Top(k)
           /\ Awaits(k)' = Awaits(k) /\ Answers(k)' = Answers(k)
  BY <1>1, MoveStack
<1>3. Awaits(t) => Awaits(t)'
  BY <1>2 DEF Awaits, Outstanding
<1>4. Types'
  BY <1>2 DEF SyncInv, Types
<1> QED
  BY <1>2, <1>3, <1>4, SameRefs


\* Nothing refers to a message that is not out.
LEMMA NotReferred ==
  ASSUME SyncInv, NEW t \in Threads, ~Awaits(t)
  PROVE  /\ \A u \in Threads : \A i \in DOMAIN list[u] : list[u][i][1] # t
         /\ \A u \in Threads : Serving(u) => Top(u).peer # t
  BY DEF SyncInv, Referred, Out

LEMMA QueueStep ==
  ASSUME SyncInv, NEW t \in Threads, Queue(t)
  PROVE  SyncInv'
<1>1. Depth(t) = 1 /\ Sends(stack[t][1]) /\ Top(t) = stack[t][1]
      /\ stack[t][1].at = "queue" /\ stack[t] \in Seq(Frames)
  BY WhereIs DEF Queue, In
<1>2. ~stack[t][1].handled /\ ~Awaits(t)
  BY <1>1 DEF Sends, Awaits, Outstanding
<1>3. PICK u : u = Top(t).peer
  OBVIOUS
<1>4. u \in Threads
  <2>1. stack[t][1] \in Frames
    BY <1>1 DEF Depth
  <2> QED
    BY <1>1, <1>3, <2>1 DEF Frames
<1>5. /\ stack' \in [Threads -> Seq(Frames)] /\ Shapes'
      /\ ~Serving(t)' /\ Answers(t)' = Answers(t) /\ Awaits(t)'
      /\ \A k \in Threads \ {t} :
           /\ Serving(k)' = Serving(k) /\ Top(k)' = Top(k)
           /\ Awaits(k)' = Awaits(k) /\ Answers(k)' = Answers(k)
  BY <1>1, <1>2, MoveStack DEF Queue
<1>6. PICK m : m = <<t, 1>>
  OBVIOUS
<1>7. PICK q : q = Append(list[u], m)
  OBVIOUS
<1>8. list[u] \in Seq(Threads \X {1}) /\ m \in Threads \X {1} /\ m[1] = t
  BY <1>4, <1>6 DEF SyncInv, Types
<1>9. /\ q \in Seq(Threads \X {1}) /\ DOMAIN q = 1 .. Len(list[u]) + 1
      /\ DOMAIN list[u] = 1 .. Len(list[u]) /\ Len(list[u]) \in Nat
      /\ \A i \in DOMAIN list[u] : q[i] = list[u][i]
      /\ q[Len(list[u]) + 1] = m
  BY <1>7, <1>8
<1>10. list' = [list EXCEPT ![u] = q]
  BY <1>1, <1>3, <1>6, <1>7 DEF Queue
<1>11. /\ list' \in [Threads -> Seq(Threads \X {1})] /\ list'[u] = q
       /\ \A v \in Threads \ {u} : list'[v] = list[v]
  BY <1>4, <1>9, <1>10 DEF SyncInv, Types
<1>12. Types'
  BY <1>4, <1>5, <1>11, <1>3 DEF SyncInv, Types, Queue
<1>13. ASSUME NEW v \in Threads, NEW i \in DOMAIN list'[v]
       PROVE  \/ i \in DOMAIN list[v] /\ list'[v][i] = list[v][i]
              \/ v = u /\ i = Len(list[u]) + 1 /\ list'[v][i] = m
  <2>1. CASE v = u
    <3>1. i \in 1 .. Len(list[u]) + 1
      BY <1>9, <1>11, <1>13, <2>1
    <3>2. CASE i \in DOMAIN list[u]
      BY <1>9, <1>11, <2>1, <3>2
    <3>3. CASE i = Len(list[u]) + 1
      BY <1>9, <1>11, <2>1, <3>3
    <3> QED
      BY <1>9, <3>1, <3>2, <3>3
  <2>2. CASE v # u
    BY <1>11, <1>13, <2>2
  <2> QED
    BY <2>1, <2>2
<1>14. \A v \in Threads : Serving(v)' <=> Serving(v)
  BY <1>1, <1>5 DEF Serving, Sends
<1>15. Out' = Out \cup {t}
  BY <1>5 DEF Out
<1>16. Referred'
  BY <1>5, <1>8, <1>13, <1>14, <1>15 DEF SyncInv, Referred
<1>17. Listed'
  BY <1>2, <1>8, <1>13, NotReferred DEF SyncInv, Listed
<1>18. Unlisted'
  <2>1. ASSUME NEW v \in Threads, NEW i \in DOMAIN list'[v],
               NEW w \in Threads, Serving(w)'
        PROVE  list'[v][i][1] # Top(w)'.peer
    <3>1. Serving(w) /\ w # t /\ Top(w)' = Top(w) /\ Top(w).peer # t
      BY <1>2, <1>5, <1>14, <2>1, NotReferred
    <3>2. CASE i \in DOMAIN list[v] /\ list'[v][i] = list[v][i]
      BY <3>1, <3>2 DEF SyncInv, Unlisted
    <3>3. CASE list'[v][i] = m
      BY <1>8, <3>1, <3>3
    <3> QED
      BY <1>13, <3>2, <3>3
  <2> QED
    BY <2>1 DEF Unlisted
<1>19. Alone'
  BY <1>5, <1>14 DEF SyncInv, Alone
<1>20. Counted'
  BY <1>5 DEF SyncInv, Counted, Queue
<1> QED
  BY <1>12, <1>5, <1>16, <1>17, <1>18, <1>19, <1>20 DEF SyncInv

LEMMA TakeStep ==
  ASSUME SyncInv, NEW t \in Threads, Depth(t) = 0 \/ In(t, "drain"),
         list[t] # << >>, TakeFirst(t)
  PROVE  SyncInv'
<1>1. /\ stack[t] \in Seq(Frames) /\ ~Serving(t)
      /\ \/ Len(stack[t]) = 0
         \/ Len(stack[t]) = 1 /\ Sends(stack[t][1]) /\ stack[t][1].at = "drain"
  BY WhereIs DEF In, Depth, Serving, Sends
<1>2. PICK q : q = list[t]
  OBVIOUS
<1>3. q \in Seq(Threads \X {1}) /\ q # << >>
  BY <1>2 DEF SyncInv, Types
<1>4. PICK m : m = Head(q)
  OBVIOUS
<1>5. m \in Threads \X {1} /\ m = q[1] /\ 1 \in DOMAIN q
  BY <1>3, <1>4
<1>6. PICK p \in Threads : p = m[1] /\ m[2] = 1
  BY <1>5
<1>7. PICK r : r = Tail(q)
  OBVIOUS
<1>8. /\ r \in Seq(Threads \X {1})
      /\ \A i \in DOMAIN r : /\ i \in Nat /\ i + 1 \in DOMAIN q /\ i + 1 # 1
                             /\ r[i] = q[i + 1]
  BY <1>3, <1>7
<1>9. PICK f : f = HandleFrame(p, 1)
  OBVIOUS
<1>10. /\ f \in Frames /\ Serves(f) /\ f.peer = p
  BY <1>9 DEF HandleFrame, Frames, Places, Serves
<1>11. PICK s : s = Append(stack[t], f)
  OBVIOUS
<1>12. /\ s \in Seq(Frames) /\ Shape(s) /\ Len(s) = Len(stack[t]) + 1
       /\ s[Len(s)] = f
       /\ Len(stack[t]) = 1 => s[1] = stack[t][1]
  <2>1. /\ s \in Seq(Frames) /\ Len(s) = Len(stack[t]) + 1 /\ s[Len(s)] = f
        /\ Len(stack[t]) = 1 => s[1] = stack[t][1]
    BY <1>1, <1>10, <1>11
  <2>2. CASE Len(stack[t]) = 0
    <3>1. Len(s) = 1 /\ s[1] = f
      BY <2>1, <2>2
    <3> QED
      BY <1>10, <2>1, <2>2, <3>1 DEF Shape
  <2>3. CASE Len(stack[t]) = 1
    <3>1. Len(s) = 2 /\ s[2] = f /\ s[1] = stack[t][1]
      BY <2>1, <2>3
    <3>2. Sends(s[1]) /\ s[1].at = "drain" /\ Serves(s[2])
      BY <1>1, <1>10, <2>3, <3>1
    <3> QED
      BY <2>1, <3>1, <3>2 DEF Shape
  <2> QED
    BY <1>1, <2>2, <2>3
<1>13. stack' = [stack EXCEPT ![t] = s] /\ list' = [list EXCEPT ![t] = r]
  BY <1>2, <1>4, <1>6, <1>7, <1>9, <1>11 DEF TakeFirst
<1>14. /\ stack' \in [Threads -> Seq(Frames)] /\ Shapes' /\ stack'[t] = s
       /\ \A k \in Threads \ {t} :
            /\ Serving(k)' = Serving(k) /\ Top(k)' = Top(k)
            /\ Awaits(k)' = Awaits(k) /\ Answers(k)' = Answers(k)
  BY <1>12, <1>13, OneStack
<1>15. Serving(t)' /\ Top(t)' = f
  BY <1>1, <1>10, <1>12, <1>14 DEF Serving, Top, Depth, Serves
<1>16. Awaits(t)' = Awaits(t) /\ Answers(t)' = Answers(t)
  BY <1>1, <1>10, <1>12, <1>14
     DEF Awaits, Outstanding, Answers, Depth, Serves
<1>17. /\ list' \in [Threads -> Seq(Threads \X {1})] /\ list'[t] = r
       /\ \A v \in Threads \ {t} : list'[v] = list[v]
  BY <1>8, <1>13 DEF SyncInv, Types
<1>18. Types'
  BY <1>14, <1>17 DEF SyncInv, Types, TakeFirst
<1>19. Out' = Out
  BY <1>14, <1>16 DEF Out
<1>20. ASSUME NEW v \in Threads, NEW i \in DOMAIN list'[v]
       PROVE  \/ v # t /\ i \in DOMAIN list[v] /\ list'[v][i] = list[v][i]
              \/ /\ v = t /\ i \in Nat /\ i + 1 \in DOMAIN list[v] /\ i + 1 # 1
                 /\ list'[v][i] = list[v][i + 1]
  BY <1>2, <1>8, <1>17, <1>20
<1>21. 1 \in DOMAIN list[t] /\ list[t][1][1] = p
  BY <1>2, <1>5, <1>6
<1>22. \A v \in Threads : Serving(v) => Top(v).peer # p
  BY <1>21 DEF SyncInv, Unlisted
<1>23. p \in Out
  BY <1>21 DEF SyncInv, Referred
<1>24. \A v \in Threads : \A i \in DOMAIN list'[v] : list'[v][i][1] # p
  BY <1>20, <1>21 DEF SyncInv, Listed
<1>25. Referred'
  BY <1>10, <1>14, <1>15, <1>19, <1>20, <1>23 DEF SyncInv, Referred
<1>26. Listed'
  <2>1. ASSUME NEW u \in Threads, NEW v \in Threads,
               NEW i \in DOMAIN list'[u], NEW j \in DOMAIN list'[v],
               list'[u][i][1] = list'[v][j][1]
        PROVE  u = v /\ i = j
    <3>1. PICK a \in DOMAIN list[u] : /\ list'[u][i] = list[u][a]
                                      /\ a = IF u = t THEN i + 1 ELSE i
      BY <1>20
    <3>2. PICK b \in DOMAIN list[v] : /\ list'[v][j] = list[v][b]
                                      /\ b = IF v = t THEN j + 1 ELSE j
      BY <1>20
    <3>3. u = v /\ a = b
      BY <2>1, <3>1, <3>2 DEF SyncInv, Listed
    <3>4. u = t => i \in Nat /\ j \in Nat
      BY <1>20, <3>3
    <3> QED
      BY <3>1, <3>2, <3>3, <3>4
  <2> QED
    BY <2>1 DEF Listed
<1>27. Unlisted'
  <2>1. ASSUME NEW v \in Threads, NEW i \in DOMAIN list'[v],
               NEW w \in Threads, Serving(w)'
        PROVE  list'[v][i][1] # Top(w)'.peer
    <3>1. CASE w = t
      BY <1>10, <1>15, <1>24, <3>1
    <3>2. CASE w # t
      <4>1. Serving(w) /\ Top(w)' = Top(w)
        BY <1>14, <2>1, <3>2
      <4>2. PICK a \in DOMAIN list[v] : list'[v][i] = list[v][a]
        BY <1>20
      <4> QED
        BY <4>1, <4>2 DEF SyncInv, Unlisted
    <3> QED
      BY <3>1, <3>2
  <2> QED
    BY <2>1 DEF Unlisted
<1>28. Alone'
  BY <1>10, <1>14, <1>15, <1>22 DEF SyncInv, Alone
<1>29. Counted'
  BY <1>14, <1>16 DEF SyncInv, Counted, TakeFirst
<1> QED
  BY <1>14, <1>18, <1>25, <1>26, <1>27, <1>28, <1>29 DEF SyncInv


LEMMA WakeStep ==
  ASSUME SyncInv, NEW t \in Threads, Wake(t)
  PROVE  SyncInv'
<1>1. Depth(t) = 1 /\ Sends(stack[t][1]) /\ Top(t) = stack[t][1]
      /\ stack[t] \in Seq(Frames) /\ sem[t] > 0 /\ sem[t] \in Nat
  BY WhereIs DEF Wake, SyncInv, Types
<1>2. Answers(t) /\ sem[t] = 1
  BY <1>1 DEF SyncInv, Counted
<1>3. ~Awaits(t) /\ ~Serving(t)
  BY <1>1, <1>2 DEF Answers, Awaits, Outstanding, Serving, Sends
<1>4. PICK s : s = Pop(stack[t])
  OBVIOUS
<1>5. s \in Seq(Frames) /\ Len(s) = 0
  BY <1>1, <1>4 DEF Pop, Depth
<1>6. Shape(s) /\ stack' = [stack EXCEPT ![t] = s]
  BY <1>4, <1>5 DEF Shape, Wake
<1>7. /\ stack' \in [Threads -> Seq(Frames)] /\ Shapes' /\ stack'[t] = s
      /\ \A k \in Threads \ {t} :
           /\ Serving(k)' = Serving(k) /\ Top(k)' = Top(k)
           /\ Awaits(k)' = Awaits(k) /\ Answers(k)' = Answers(k)
  BY <1>5, <1>6, OneStack
<1>8. ~Serving(t)' /\ ~Awaits(t)' /\ ~Answers(t)'
  BY <1>5, <1>7 DEF Serving, Awaits, Outstanding, Answers, Depth
<1>9. list' = list /\ sem' = [sem EXCEPT ![t] = 0]
  BY <1>1, <1>2 DEF Wake
<1>10. Types'
  BY <1>7, <1>9 DEF SyncInv, Types, Wake
<1>11. Out' = Out
  BY <1>3, <1>7, <1>8 DEF Out
<1>12. Referred' /\ Listed'
  BY <1>7, <1>8, <1>9, <1>11 DEF SyncInv, Referred, Listed
<1>13. Unlisted' /\ Alone'
  <2>1. \A k \in Threads : Serving(k)' => Serving(k) /\ Top(k)' = Top(k)
    BY <1>7, <1>8
  <2>2. Unlisted'
    BY <1>9, <2>1 DEF SyncInv, Unlisted
  <2>3. Alone'
    BY <2>1 DEF SyncInv, Alone
  <2> QED
    BY <2>2, <2>3
<1>14. Counted'
  BY <1>7, <1>8, <1>9 DEF SyncInv, Counted, Types
<1> QED
  BY <1>7, <1>10, <1>12, <1>13, <1>14 DEF SyncInv

\* A handler returns: its frame goes, and the answer is written into the
\* frame of the send, which is still there.
LEMMA ReturnStack ==
  ASSUME SyncInv, NEW t \in Threads, Return(t),
         NEW from \in Threads, from = Top(t).peer
  PROVE  /\ Awaits(from) /\ Serving(t)
         /\ stack' \in [Threads -> Seq(Frames)] /\ Shapes'
         /\ ~Serving(t)' /\ ~Awaits(from)' /\ Answers(from)' /\ ~Answers(from)
         /\ \A k \in Threads \ {t} :
              /\ Serving(k)' = Serving(k) /\ (Serving(k) => Top(k)' = Top(k))
              /\ Len(stack'[k]) = Len(stack[k])
         /\ \A k \in Threads \ {from} :
              Awaits(k)' = Awaits(k) /\ Answers(k)' = Answers(k)
<1>1. /\ Serving(t) /\ Serves(Top(t)) /\ Top(t) = stack[t][Depth(t)]
      /\ stack[t] \in Seq(Frames) /\ Depth(t) \in {1, 2}
      /\ Depth(t) = 2 => Sends(stack[t][1]) /\ stack[t][1].at = "drain"
  BY WhereIs DEF Return, Serving
<1>2. Awaits(from)
  BY <1>1 DEF SyncInv, Referred, Out
<1>3. PICK e : e = stack[from][1]
  OBVIOUS
<1>4. /\ stack[from] \in Seq(Frames) /\ Len(stack[from]) \in {1, 2}
      /\ e \in Frames /\ Sends(e) /\ e.at # "queue" /\ ~e.handled
      /\ Len(stack[from]) = 2 => e.at = "drain" /\ Serves(stack[from][2])
  <2>1. stack[from] \in Seq(Frames) /\ Shape(stack[from])
    BY DEF SyncInv, Types, Shapes
  <2>2. Len(stack[from]) >= 1 /\ e.fn = "send" /\ e.at # "queue" /\ ~e.handled
    BY <1>2, <1>3 DEF Awaits, Outstanding, Depth
  <2>3. Len(stack[from]) \in {1, 2} /\ Sends(e)
    BY <1>3, <2>1, <2>2 DEF Shape, Serves
  <2>4. e \in Frames
    BY <1>3, <2>1, <2>3
  <2>5. Len(stack[from]) = 2 => e.at = "drain" /\ Serves(stack[from][2])
    BY <1>3, <2>1 DEF Shape
  <2> QED
    BY <2>1, <2>2, <2>3, <2>4, <2>5
<1>5. PICK g : g = [e EXCEPT !.handled = TRUE]
  OBVIOUS
<1>6. /\ g \in Frames /\ Sends(g) /\ g.fn = "send" /\ g.at = e.at /\ g.handled
  BY <1>4, <1>5 DEF Frames, Sends
<1>7. PICK s : s = Pop(stack[t])
  OBVIOUS
<1>8. /\ s \in Seq(Frames) /\ Len(s) = Depth(t) - 1
      /\ Len(s) = 1 => s[1] = stack[t][1]
  <2>1. PICK q : q = stack[t]
    OBVIOUS
  <2>2. q \in Seq(Frames) /\ Len(q) \in {1, 2} /\ Depth(t) = Len(q)
        /\ s = SubSeq(q, 1, Len(q) - 1)
    BY <1>1, <1>7, <2>1 DEF Pop, Depth
  <2>3. s \in Seq(Frames) /\ Len(s) = Len(q) - 1
    BY <2>2
  <2>4. Len(s) = 1 => s[1] = q[1]
    BY <2>2, <2>3
  <2> QED
    BY <2>1, <2>2, <2>3, <2>4
<1>9. PICK popped : popped = [stack EXCEPT ![t] = s]
  OBVIOUS
<1>10. /\ popped \in [Threads -> Seq(Frames)] /\ popped[t] = s
       /\ \A k \in Threads \ {t} : popped[k] = stack[k]
  BY <1>8, <1>9 DEF SyncInv, Types
<1>11. from = t => Len(s) = 1 /\ s[1] = e
  <2> SUFFICES ASSUME from = t PROVE Len(s) = 1 /\ s[1] = e
    OBVIOUS
  <2>1. e.fn = "send"
    BY <1>4 DEF Sends
  <2>2. Depth(t) # 1
    BY <1>1, <1>3, <2>1 DEF Serves
  <2> QED
    BY <1>1, <1>3, <1>8, <2>2
<1>12. popped[from] \in Seq(Frames) /\ 1 <= Len(popped[from]) /\ popped[from][1] = e
  BY <1>3, <1>4, <1>10, <1>11
<1>13. PICK r : r = [popped[from] EXCEPT ![1] = g]
  OBVIOUS
<1>14. /\ r \in Seq(Frames) /\ Len(r) = Len(popped[from]) /\ r[1] = g
       /\ Len(r) = 2 => r[2] = popped[from][2]
  BY <1>6, <1>12, <1>13
<1>15. stack' = [popped EXCEPT ![from] = r]
  <2>1. Top(t).level = 1
    BY <1>1 DEF Serves
  <2>2. stack' = [popped EXCEPT ![from][1].handled = TRUE]
    BY <1>7, <1>9, <1>12, <2>1 DEF Return
  <2> QED
    BY <1>5, <1>12, <1>13, <2>2
<1>16. /\ stack' \in [Threads -> Seq(Frames)] /\ stack'[from] = r
       /\ \A k \in Threads \ {from} : stack'[k] = popped[k]
  BY <1>10, <1>14, <1>15
<1>17. Shape(r)
  <2>1. CASE from = t
    BY <1>6, <1>10, <1>11, <1>14, <2>1 DEF Shape
  <2>2. CASE from # t
    <3>1. Len(r) = Len(stack[from]) /\ (Len(r) = 2 => r[2] = stack[from][2])
      BY <1>10, <1>14, <2>2
    <3> QED
      BY <1>4, <1>6, <1>14, <3>1 DEF Shape
  <2> QED
    BY <2>1, <2>2
<1>18. Shape(s)
  BY <1>1, <1>8 DEF Shape
<1>19. Shapes'
  <2>1. ASSUME NEW k \in Threads PROVE Shape(stack'[k])
    <3>1. stack'[k] \in {r, s, stack[k]}
      BY <1>10, <1>16
    <3> QED
      BY <1>17, <1>18, <3>1 DEF SyncInv, Shapes
  <2> QED
    BY <2>1 DEF Shapes
<1>20. ~Serving(t)'
  <2>1. CASE from = t
    <3>1. Len(stack'[t]) = 1 /\ stack'[t][1] = g
      BY <1>10, <1>11, <1>14, <1>16, <2>1
    <3> QED
      BY <1>6, <3>1 DEF Serving, Top, Depth
  <2>2. CASE from # t
    <3>1. stack'[t] = s
      BY <1>10, <1>16, <2>2
    <3>2. Len(s) = 0 \/ (Len(s) = 1 /\ s[1].fn = "send")
      BY <1>1, <1>8 DEF Sends
    <3> QED
      BY <3>1, <3>2 DEF Serving, Top, Depth
  <2> QED
    BY <2>1, <2>2
<1>21. ~Awaits(from)' /\ Answers(from)'
  BY <1>6, <1>12, <1>14, <1>16 DEF Awaits, Outstanding, Answers, Depth
<1>22. ~Answers(from)
  BY <1>3, <1>4 DEF Answers
<1>23. ASSUME NEW k \in Threads \ {t}
       PROVE  Serving(k)' = Serving(k) /\ (Serving(k) => Top(k)' = Top(k))
  <2>1. CASE k = from
    <3>1. /\ Len(r) = Len(stack[from]) /\ r[1] = g
          /\ Len(r) = 2 => r[2] = stack[from][2]
      BY <1>10, <1>14, <2>1
    <3>2. stack'[k] = r
      BY <1>16, <2>1
    <3>3. CASE Len(r) = 1
      <4>1. ~Serving(k)' /\ ~Serving(k)
        BY <1>3, <1>4, <1>6, <2>1, <3>1, <3>2, <3>3 DEF Serving, Top, Depth, Sends
      <4> QED
        BY <4>1 DEF Serving
    <3>4. CASE Len(r) = 2
      BY <2>1, <3>1, <3>2, <3>4 DEF Serving, Top, Depth
    <3> QED
      BY <1>4, <3>1, <3>3, <3>4
  <2>2. CASE k # from
    BY <1>10, <1>16, <1>23, <2>2, StackKept
  <2> QED
    BY <2>1, <2>2
<1>24. ASSUME NEW k \in Threads \ {from}
       PROVE  Awaits(k)' = Awaits(k) /\ Answers(k)' = Answers(k)
  <2>1. CASE k = t
    <3>1. stack'[t] = s
      BY <1>10, <1>16, <1>24, <2>1
    <3>2. CASE Depth(t) = 1
      <4>1. ~Awaits(t) /\ ~Answers(t)
        BY <1>1, <3>2 DEF Awaits, Outstanding, Answers, Serves
      <4>2. ~Awaits(t)' /\ ~Answers(t)'
        BY <1>8, <3>1, <3>2 DEF Awaits, Outstanding, Answers, Depth
      <4> QED
        BY <2>1, <4>1, <4>2 DEF Awaits, Outstanding, Answers
    <3>3. CASE Depth(t) = 2
      <4>1. Len(s) = 1 /\ s[1] = stack[t][1]
        BY <1>8, <3>3
      <4> QED
        BY <2>1, <3>1, <3>3, <4>1 DEF Awaits, Outstanding, Answers, Depth
    <3> QED
      BY <1>1, <3>2, <3>3
  <2>2. CASE k # t
    BY <1>10, <1>16, <1>24, <2>2, StackKept
  <2> QED
    BY <2>1, <2>2
<1>25. \A k \in Threads \ {t} : Len(stack'[k]) = Len(stack[k])
  BY <1>10, <1>14, <1>16
<1> QED
  BY <1>25, <1>1, <1>2, <1>16, <1>19, <1>20, <1>21, <1>22, <1>23, <1>24


LEMMA ReturnStep ==
  ASSUME SyncInv, NEW t \in Threads, Return(t)
  PROVE  SyncInv'
<1>1. Serving(t)
  BY WhereIs DEF Return
<1>2. PICK from \in Threads : from = Top(t).peer
  BY <1>1, ServedPeer DEF SyncInv
<1>3. /\ Awaits(from)
      /\ stack' \in [Threads -> Seq(Frames)] /\ Shapes'
      /\ ~Serving(t)' /\ ~Awaits(from)' /\ Answers(from)' /\ ~Answers(from)
      /\ \A k \in Threads \ {t} :
           Serving(k)' = Serving(k) /\ (Serving(k) => Top(k)' = Top(k))
      /\ \A k \in Threads \ {from} :
           Awaits(k)' = Awaits(k) /\ Answers(k)' = Answers(k)
  BY <1>2, ReturnStack
<1>4. list' = list /\ flag' = flag /\ sem' = [sem EXCEPT ![from] = @ + 1]
  BY <1>2 DEF Return
<1>5. Types'
  BY <1>3, <1>4 DEF SyncInv, Types
<1>6. Out' = Out \ {from}
  BY <1>3 DEF Out
<1>7. \A k \in Threads : Serving(k)' => k # t /\ Serving(k) /\ Top(k)' = Top(k)
  BY <1>3
<1>8. Referred'
  <2>1. \A u \in Threads : \A i \in DOMAIN list'[u] : list'[u][i][1] \in Out'
    BY <1>1, <1>2, <1>4, <1>6 DEF SyncInv, Referred, Unlisted
  <2>2. \A u \in Threads : Serving(u)' => Top(u)'.peer \in Out'
    BY <1>1, <1>2, <1>6, <1>7 DEF SyncInv, Referred, Alone
  <2> QED
    BY <2>1, <2>2 DEF Referred
<1>9. Listed'
  BY <1>4 DEF SyncInv, Listed
<1>10. Unlisted'
  BY <1>4, <1>7 DEF SyncInv, Unlisted
<1>11. Alone'
  BY <1>7 DEF SyncInv, Alone
<1>12. Counted'
  BY <1>3, <1>4 DEF SyncInv, Counted, Types
<1> QED
  BY <1>3, <1>5, <1>8, <1>9, <1>10, <1>11, <1>12 DEF SyncInv

LEMMA NextSync == ASSUME SyncInv, Plain, [Next]_vars PROVE SyncInv'
<1>1. CASE UNCHANGED vars
  <2>1. Types' /\ Shapes'
    BY <1>1 DEF SyncInv, Types, Shapes, Shape, vars
  <2>2. \A k \in Threads :
          /\ Serving(k)' = Serving(k) /\ Top(k)' = Top(k)
          /\ Awaits(k)' = Awaits(k) /\ Answers(k)' = Answers(k)
    BY <1>1, StackKept DEF vars
  <2> QED
    BY <1>1, <2>1, <2>2, SameRefs DEF vars
<1>2. ASSUME NEW t \in Threads, SendSyncMessage(t)
      PROVE  SyncInv'
  BY <1>2, SendStep
<1>3. ASSUME NEW t \in Threads, Queue(t)
      PROVE  SyncInv'
  BY <1>3, QueueStep
<1>4. ASSUME NEW t \in Threads, DrainTake(t)
      PROVE  SyncInv'
  BY <1>4, TakeStep DEF DrainTake
<1>5. ASSUME NEW t \in Threads, DrainEmpty(t)
      PROVE  SyncInv'
  BY <1>5, MoveStep DEF DrainEmpty, SyncInv, Types
<1>6. ASSUME NEW t \in Threads, DrainClear(t)
      PROVE  SyncInv'
  BY <1>6, MoveStep DEF DrainClear, SyncInv, Types
<1>7. ASSUME NEW t \in Threads, Wake(t)
      PROVE  SyncInv'
  BY <1>7, WakeStep
<1>8. ASSUME NEW t \in Threads, Peek(t)
      PROVE  SyncInv'
  <2>1. CASE list[t] # << >> /\ TakeFirst(t)
    BY <1>8, <2>1, TakeStep DEF Peek
  <2>2. CASE flag' = [flag EXCEPT ![t] = FALSE] /\ UNCHANGED <<list, sem, stack, sent>>
    <3>1. Types' /\ Shapes'
      BY <2>2 DEF SyncInv, Types, Shapes, Shape
    <3>2. \A k \in Threads :
            /\ Serving(k)' = Serving(k) /\ Top(k)' = Top(k)
            /\ Awaits(k)' = Awaits(k) /\ Answers(k)' = Answers(k)
      BY <2>2, StackKept
    <3> QED
      BY <2>2, <3>1, <3>2, SameRefs
  <2> QED
    BY <1>8, <2>1, <2>2 DEF Peek
<1>9. ASSUME NEW t \in Threads, Return(t)
      PROVE  SyncInv'
  BY <1>9, ReturnStep
<1> QED
  BY <1>1, <1>2, <1>3, <1>4, <1>5, <1>6, <1>7, <1>8, <1>9 DEF Next, Proceeds

\* message.c, SendSyncMessage and what serves it: as long as handlers do not
\* send, every SYNCMSG is being queued, in one list once, being handled or
\* answered, and its sender's stack and semaphore agree with where it is.
THEOREM SyncInvariant == ASSUME Plain PROVE Spec => []SyncInv
<1>1. SyncInv /\ [Next]_vars => SyncInv'
  BY NextSync
<1> QED
  BY <1>1, InitSync, PTL DEF Spec


-----------------------------------------------------------------------------
(* The properties.                                                         *)

\* message.c, SendSyncMessage and DispatchMessage: as long as handlers do not
\* send, a SYNCMSG that is in a list or being handled lies in a stack frame
\* its sender has not left.
THEOREM DanglingCorrect == ASSUME Plain PROVE Spec => []NoDangling
<1>1. SyncInv => NoDangling
  <2> SUFFICES ASSUME SyncInv PROVE NoDangling
    OBVIOUS
  <2>1. ASSUME NEW u \in Threads, NEW i \in DOMAIN list[u]
        PROVE  Outstanding(list[u][i][1], list[u][i][2])
    <3>1. list[u][i] \in Threads \X {1}
      BY <2>1 DEF SyncInv, Types
    <3>2. Awaits(list[u][i][1])
      BY <2>1 DEF SyncInv, Referred, Out
    <3> QED
      BY <3>1, <3>2 DEF Awaits
  <2>2. ASSUME NEW u \in Threads, NEW i \in DOMAIN stack[u],
               stack[u][i].fn = "handle"
        PROVE  Outstanding(stack[u][i].peer, stack[u][i].level)
    <3>1. Shape(stack[u]) /\ stack[u] \in Seq(Frames)
      BY DEF SyncInv, Types, Shapes
    <3>2. i = Len(stack[u]) /\ Len(stack[u]) > 0 /\ Serves(stack[u][i])
      <4>1. PICK q : q = stack[u]
        OBVIOUS
      <4>2. q \in Seq(Frames) /\ i \in 1 .. Len(q) /\ q[i].fn = "handle"
        BY <2>2, <3>1, <4>1
      <4>3. ~Sends(q[i]) /\ Shape(q)
        BY <3>1, <4>1, <4>2 DEF Sends
      <4>4. CASE Len(q) = 1
        BY <4>1, <4>2, <4>3, <4>4 DEF Shape
      <4>5. CASE Len(q) = 2
        BY <4>1, <4>2, <4>3, <4>5 DEF Shape
      <4> QED
        BY <4>2, <4>3, <4>4, <4>5 DEF Shape
    <3>3. Serving(u) /\ Top(u) = stack[u][i] /\ stack[u][i].level = 1
      BY <2>2, <3>2 DEF Serving, Top, Depth, Serves
    <3>4. Awaits(stack[u][i].peer)
      BY <3>3 DEF SyncInv, Referred, Out
    <3> QED
      BY <3>3, <3>4 DEF Awaits
  <2> QED
    BY <2>1, <2>2 DEF NoDangling
<1> QED
  BY <1>1, SyncInvariant, PTL

\* message.c, DispatchMessage's sem_post and SendSyncMessage's sem_wait: as
\* long as handlers do not send, the semaphore of a thread counts the answer
\* of the send the thread is in and nothing else.
THEOREM AnswersCorrect == ASSUME Plain PROVE Spec => []AnswersCounted
<1>1. SyncInv => AnswersCounted
  <2> SUFFICES ASSUME SyncInv, NEW t \in Threads
               PROVE  sem[t] = IF \E i \in DOMAIN stack[t] : stack[t][i].handled
                                 THEN 1 ELSE 0
    BY DEF AnswersCounted
  <2>1. Shape(stack[t]) /\ stack[t] \in Seq(Frames)
    BY DEF SyncInv, Types, Shapes
  <2>2. (\E i \in DOMAIN stack[t] : stack[t][i].handled) <=> Answers(t)
    BY <2>1 DEF Shape, Answers, Depth, Serves
  <2> QED
    BY <2>2 DEF SyncInv, Counted
<1> QED
  BY <1>1, SyncInvariant, PTL

\* message.c:1212, "suspend until the message has been handled": as long as
\* handlers do not send, a send returns only after the handler of its own
\* message has written the return value.
THEOREM ReturnsCorrect == ASSUME Plain PROVE Spec => ReturnsHandled
<1> DEFINE Step == \A t \in Threads :
                     In(t, "wait") /\ Len(stack'[t]) < Depth(t) => Top(t).handled
<1>1. SyncInv /\ [Next]_vars => [Step]_vars
  <2> SUFFICES ASSUME SyncInv, Next, NEW t \in Threads,
                      In(t, "wait"), Len(stack'[t]) < Depth(t)
               PROVE  Top(t).handled
    OBVIOUS
  <2>1. /\ Depth(t) = 1 /\ Top(t) = stack[t][1] /\ Top(t).at = "wait"
        /\ Sends(Top(t)) /\ ~Serving(t)
    BY WhereIs DEF In, Serving, Sends
  <2>2. stack' # stack /\ stack'[t] # stack[t]
    BY DEF Depth
  <2>3. stack \in [Threads -> Seq(Frames)]
    BY DEF SyncInv, Types
  <2>4. PICK k \in Threads : SendSyncMessage(k) \/ Proceeds(k)
    BY DEF Next
  <2>5. CASE Return(k)
    <3>1. Serving(k)
      BY <2>5, WhereIs DEF Return
    <3>2. PICK from \in Threads : from = Top(k).peer
      BY <3>1, ServedPeer DEF SyncInv
    <3>3. Len(stack'[t]) = Len(stack[t])
      BY <2>1, <2>5, <3>1, <3>2, ReturnStack
    <3> QED
      BY <3>3 DEF Depth
  <2>6. CASE k # t
    BY <2>2, <2>3, <2>4, <2>5, <2>6
       DEF SendSyncMessage, Proceeds, Queue, DrainTake, TakeFirst, DrainEmpty,
           DrainClear, Wake, Peek, Move
  <2>7. CASE k = t
    <3>1. Wake(t) \/ Return(t)
      BY <2>1, <2>2, <2>4, <2>7
         DEF SendSyncMessage, Proceeds, Queue, DrainTake, DrainEmpty,
             DrainClear, Peek, In, Plain
    <3>2. CASE Wake(t)
      <4>1. sem[t] > 0
        BY <3>2 DEF Wake
      <4> QED
        BY <2>1, <4>1 DEF SyncInv, Counted, Answers
    <3> QED
      BY <2>5, <2>7, <3>1, <3>2
  <2> QED
    BY <2>6, <2>7
<1> QED
  BY <1>1, SyncInvariant, PTL DEF Spec, ReturnsHandled
=============================================================================
