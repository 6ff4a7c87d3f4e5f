----------------------------- MODULE PostQueue ------------------------------
(***************************************************************************)
(* What the posted messages of a queue are meant to be: a bounded FIFO in  *)
(* which a message that supersedes a queued one takes its place, and the   *)
(* messages of a window can be cancelled where they stand.  MsgQueue's     *)
(* ring implements it.                                                     *)
(***************************************************************************)
EXTENDS Integers, Sequences

CONSTANTS Capacity,
          Cancel(_),          \* a message, addressed to no window any more
          Supersedes(_, _)    \* Supersedes(m, n): posting m replaces a queued n

VARIABLE q

Init == q = <<>>

\* A new message replaces the one it supersedes, or joins at the end.
Put(m) ==
  LET old == {i \in DOMAIN q : Supersedes(m, q[i])} IN
    \/ \E i \in old : q' = [q EXCEPT ![i] = m]
    \/ old = {} /\ Len(q) < Capacity /\ q' = Append(q, m)

Take == q # <<>> /\ q' = Tail(q)

ThrowAway(w) ==
  q' = [i \in DOMAIN q |-> IF q[i].hwnd = w THEN Cancel(q[i]) ELSE q[i]]
=============================================================================
