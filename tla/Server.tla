------------------------------- MODULE Server -------------------------------
(***************************************************************************)
(* The server of MiniGUI-Processes: its table of clients                   *)
(* (src/server/client.c), the list of layers with the clients of each      *)
(* (src/server/layer.c), and the requests that change them                 *)
(* (src/server/request.c, src/server/server.c).                            *)
(*                                                                         *)
(* The table grows with realloc and may move; the clients of a layer are   *)
(* linked by pointers into it.  A pointer is <<address of the table,       *)
(* index>>, so that one which was not moved along is seen.  The server is  *)
(* one thread: a request is handled in one step.  A process may end at any *)
(* time, and the server learns of it later.  cli_active is left out: the   *)
(* only function that sets it, __mg_set_active_client, has no caller.      *)
(***************************************************************************)
EXTENDS Integers, FiniteSets, Sequences

CONSTANTS Procs,        \* processes that may become clients
          Layers,       \* the names of layers, the default one included
          Default,      \* NAME_DEF_LAYER
          NALLOC,       \* entries the table grows by
          MaxSize,      \* bound: the table grows no further
          MaxMoves,     \* bound: times that realloc moves the table
          MaxLayers,    \* MAX_NR_LAYERS
          MaxKeys       \* keys get_layer_shm_key gives out in all

ASSUME DefaultAssumption == Default \in Layers
ASSUME SizesAssumption ==
  /\ NALLOC \in Nat \ {0} /\ MaxSize \in Nat /\ NALLOC <= MaxSize
  /\ MaxMoves \in Nat /\ MaxLayers \in Nat \ {0} /\ MaxKeys \in Nat \ {0}
ASSUME NamesAssumption == {"server", "free", "null"} \cap (Procs \cup Layers) = {}

Free   == "free"        \* fd = -1
Itself == "server"      \* entry 0 is the server's own
NULL   == "null"        \* no layer
Nil    == <<>>          \* the null pointer to an entry

VARIABLES
  client,   \* mgClients: per index proc (fd), layer, next, prev
  base,     \* the address of the table
  head,     \* per layer of the list its cli_head
  chain,    \* the list mgLayers
  topmost,  \* mgTopmostLayer
  sem,      \* per layer of the list its zi_semnum
  usage,    \* the semaphore slots that sem_usage marks used
  keys,     \* shared memory keys given out
  running,  \* processes that have not ended since they connected
  windows,  \* clients that have windows or menus
  missed,   \* running clients the last broadcast did not reach
  crash     \* what ended the server, or "no"

lists == <<client, base, head>>
layers == <<chain, topmost, sem, usage, keys>>
vars == <<lists, layers, running, windows, missed, crash>>
up == crash = "no"
-----------------------------------------------------------------------------
(* The client table.                                                       *)

Entries == DOMAIN client
EntryOf(p) == CHOOSE i \in Entries : client[i].proc = p
Connected(p) == \E i \in Entries : client[i].proc = p
Ptr(i) == <<base, i>>
LayerList == {chain[k] : k \in DOMAIN chain}
Members(l) == {i \in Entries \ {0} : client[i].layer = l}
Empty == [proc |-> Free, layer |-> NULL, next |-> Nil, prev |-> Nil]
Least(S) == CHOOSE i \in S : \A j \in S : i <= j

\* off_pointer
Off(ptr, to) == IF ptr = Nil THEN Nil ELSE <<to, ptr[2]>>

\* Fault: the pointers of the layers are left as they were.
OffHeadNone(h, to) == h

\* offset_pointers, the loop over mgLayers
OffHead(h, to) == [l \in DOMAIN h |-> Off(h[l], to)]

\* client_alloc: realloc, offset_pointers and new empty entries.
Grown(to) ==
  [i \in 0 .. Cardinality(Entries) + NALLOC - 1 |->
     IF i \in Entries
     THEN [client[i] EXCEPT !.next = Off(@, to), !.prev = Off(@, to)]
     ELSE Empty]

\* __mg_client_add for a new connection, when an entry is free.
Accept(p) ==
  LET free == {i \in Entries : client[i].proc = Free}
  IN  /\ up /\ ~Connected(p)
      /\ free # {}
      /\ client' = [client EXCEPT ![Least(free)] = [@ EXCEPT !.proc = p, !.layer = NULL]]
      /\ running' = running \cup {p}
      /\ missed' = {}
      /\ UNCHANGED <<base, head, layers, windows, crash>>

\* __mg_client_add when none is: the table grows, and may move.
AcceptGrow(p, to) ==
  /\ up /\ ~Connected(p)
  /\ \A i \in Entries : client[i].proc # Free
  /\ Cardinality(Entries) + NALLOC <= MaxSize
  /\ to \in base .. base + 1 /\ to <= MaxMoves
  /\ client' = [Grown(to) EXCEPT ![Cardinality(Entries)] = [@ EXCEPT !.proc = p]]
  /\ base' = to
  /\ head' = OffHead(head, to)
  /\ running' = running \cup {p}
  /\ missed' = {}
  /\ UNCHANGED <<layers, windows, crash>>

\* realloc fails: the table is lost with the only pointer to it, and the next
\* look at it ends the server.
AcceptNoMemory(p) ==
  /\ up /\ ~Connected(p)
  /\ \A i \in Entries : client[i].proc # Free
  /\ crash' = "memory"
  /\ missed' = {}
  /\ UNCHANGED <<lists, layers, running, windows>>

\* The list of a layer after the entry i has left it (__mg_client_del).
Unlinked(c, i) ==
  [j \in DOMAIN c |->
     CASE j = i -> Empty
       [] j # i /\ c[i].next = Ptr(j) -> [c[j] EXCEPT !.prev = c[i].prev]
       [] j # i /\ c[i].prev = Ptr(j) /\ c[i].next # Ptr(j) -> [c[j] EXCEPT !.next = c[i].next]
       [] OTHER -> c[j]]

\* Fault: cli_head is not looked at.
HeadKept(c, h, i) == h

\* cli_head of the layer the entry i leaves.
HeadWithout(c, h, i) ==
  [l \in DOMAIN h |-> IF h[l] = Ptr(i) THEN c[i].next ELSE h[l]]

\* A process ends; its socket is closed.
Die(p) ==
  /\ p \in running
  /\ running' = running \ {p}
  /\ missed' = {}
  /\ UNCHANGED <<lists, layers, windows, crash>>

\* The server reads from the closed socket, or fails to answer: __mg_remove_client.
RemoveClient(p) ==
  LET i == EntryOf(p)
  IN  /\ up /\ Connected(p) /\ p \notin running
      /\ client' = Unlinked(client, i)
      /\ head' = HeadWithout(client, head, i)
      /\ windows' = windows \ {p}
      /\ missed' = {}
      /\ UNCHANGED <<base, layers, running, crash>>
-----------------------------------------------------------------------------
(* Layers.                                                                 *)

\* Fault: one layer too many.
RoomForLayerPlus == Len(chain) <= MaxLayers /\ keys < MaxKeys

\* The tests of alloc_layer, ServerCreateLayer and do_alloc_layer.
RoomForLayer == Len(chain) < MaxLayers /\ keys < MaxKeys

\* do_alloc_layer, and the new layer put first in the list.
NewLayer(l) ==
  LET slot == Least(0 .. Cardinality(usage) \ usage)
  IN  /\ chain' = <<l>> \o chain
      /\ sem' = [x \in LayerList \cup {l} |-> IF x = l THEN slot ELSE sem[x]]
      /\ usage' = usage \cup {slot}
      /\ keys' = keys + 1

\* do_client_join_layer of an entry that is in no layer.
Joined(i, l) ==
  LET first == IF l \in DOMAIN head THEN head[l] ELSE Nil
  IN  /\ client' = [j \in Entries |->
            CASE j = i -> [client[i] EXCEPT !.layer = l, !.prev = Nil, !.next = first]
              [] j # i /\ first = Ptr(j) -> [client[j] EXCEPT !.prev = Ptr(i)]
              [] OTHER -> client[j]]
      /\ head' = [x \in DOMAIN head \cup {l} |-> IF x = l THEN Ptr(i) ELSE head[x]]

\* join_layer: a client asks to join a layer by its name (its own library
\* sends this request once).  A new layer becomes the topmost one.
JoinLayer(p, l) ==
  /\ up /\ p \in running /\ Connected(p) /\ client[EntryOf(p)].layer = NULL
  /\ \/ /\ l \in LayerList
        /\ UNCHANGED layers
     \/ /\ l \notin LayerList /\ RoomForLayer
        /\ NewLayer(l)
        /\ topmost' = l
  /\ Joined(EntryOf(p), l)
  /\ missed' = {}
  /\ UNCHANGED <<base, running, windows, crash>>

\* The same when no layer can be made: alloc_layer returns NULL, which is the
\* layer of a client that has joined none, so the request is taken for a
\* repeated one, and the shared memory id is read through NULL.
JoinLayerFull(p, l) ==
  /\ up /\ p \in running /\ Connected(p) /\ client[EntryOf(p)].layer = NULL
  /\ l \notin LayerList /\ ~RoomForLayer
  /\ crash' = "join"
  /\ missed' = {}
  /\ UNCHANGED <<lists, layers, running, windows>>

\* ServerCreateLayer, called by the server's program: not the topmost one.
ServerCreateLayer(l) ==
  /\ up /\ l \notin LayerList /\ RoomForLayer
  /\ NewLayer(l)
  /\ head' = [x \in DOMAIN head \cup {l} |-> IF x = l THEN Nil ELSE head[x]]
  /\ missed' = {}
  /\ UNCHANGED <<client, base, topmost, running, windows, crash>>

\* ServerSetTopmostLayer, by a client (ID_LAYEROP_SETTOP) or the program.
ServerSetTopmostLayer(l) ==
  /\ up /\ l \in LayerList /\ l # topmost
  /\ topmost' = l
  /\ missed' = {}
  /\ UNCHANGED <<lists, chain, sem, usage, keys, running, windows, crash>>

\* Fault: the layer on the screen is not changed first.
NextTopmostKept(k) == topmost

\* ServerDeleteLayer makes another layer the topmost one, whichever was.
NextTopmost(k) == IF k # 1 THEN chain[1] ELSE chain[2]

\* ServerDeleteLayer, by a client (ID_LAYEROP_DELETE) or the program: its
\* clients are disconnected, which ends them.
ServerDeleteLayer(k) ==
  LET l == chain[k]
      gone == {client[i].proc : i \in Members(l)}
  IN  /\ up /\ l # Default
      /\ gone \cap windows = {}
      /\ topmost' = NextTopmost(k)
      /\ client' = [i \in Entries |-> IF i \in Members(l) THEN Empty ELSE client[i]]
      /\ chain' = SubSeq(chain, 1, k - 1) \o SubSeq(chain, k + 1, Len(chain))
      /\ head' = [x \in DOMAIN head \ {l} |-> head[x]]
      /\ sem' = [x \in DOMAIN sem \ {l} |-> sem[x]]
      /\ usage' = usage \ {sem[l]}
      /\ running' = running \ gone
      /\ missed' = {}
      /\ UNCHANGED <<base, keys, windows, crash>>

\* SetTopmostClient is given a client that has joined no layer: the layer
\* NULL is made the topmost one and read.
SetTopmostClientUnjoined(p) ==
  /\ up /\ Connected(p) /\ client[EntryOf(p)].layer = NULL
  /\ crash' = "topmost"
  /\ missed' = {}
  /\ UNCHANGED <<lists, layers, running, windows>>

\* A client opens its first window or menu, or closes its last.
OpenWindows(p) ==
  /\ up /\ p \in running \ windows /\ Connected(p) /\ client[EntryOf(p)].layer # NULL
  /\ windows' = windows \cup {p}
  /\ missed' = {}
  /\ UNCHANGED <<lists, layers, running, crash>>

CloseWindows(p) ==
  /\ up /\ p \in running \cap windows
  /\ windows' = windows \ {p}
  /\ missed' = {}
  /\ UNCHANGED <<lists, layers, running, crash>>

\* The entry a walk through a layer's list meets after n steps, or Nil.
Walk(l) ==
  LET walk[n \in 0 .. Cardinality(Entries)] ==
        IF n = 0 THEN head[l]
        ELSE IF walk[n - 1] = Nil THEN Nil
        ELSE client[walk[n - 1][2]].next
  IN  walk

Visited(l) == {Walk(l)[n][2] : n \in {m \in DOMAIN Walk(l) : Walk(l)[m] # Nil}}

\* Send2Client to CLIENTS_TOPMOST: the first client that cannot be written to
\* ends the walk.
Send2TopMostClients ==
  LET walk == Walk(topmost)
      to(n) == client[walk[n][2]].proc
      steps == {n \in DOMAIN walk : walk[n] # Nil}
      failed == {n \in steps : to(n) \notin running}
  IN  /\ up
      /\ missed' = {to(n) : n \in {m \in steps : to(m) \in running
                                                 /\ \E f \in failed : f < m}}
      /\ UNCHANGED <<lists, layers, running, windows, crash>>
-----------------------------------------------------------------------------
\* ServerStartup: the default layer, and entry 0 for the server.
Init ==
  /\ client = [i \in 0 .. NALLOC - 1 |->
                 IF i = 0 THEN [Empty EXCEPT !.proc = Itself, !.layer = Default] ELSE Empty]
  /\ base = 0
  /\ head = [l \in {Default} |-> Nil]
  /\ chain = <<Default>> /\ topmost = Default
  /\ sem = [l \in {Default} |-> 0] /\ usage = {0} /\ keys = 1
  /\ running = {} /\ windows = {} /\ missed = {} /\ crash = "no"

Next ==
  \/ \E p \in Procs :
       \/ Accept(p) \/ AcceptNoMemory(p)
       \/ \E to \in base .. base + 1 : AcceptGrow(p, to)
       \/ Die(p) \/ RemoveClient(p)
       \/ \E l \in Layers : JoinLayer(p, l) \/ JoinLayerFull(p, l)
       \/ SetTopmostClientUnjoined(p)
       \/ OpenWindows(p) \/ CloseWindows(p)
  \/ \E l \in Layers : ServerCreateLayer(l) \/ ServerSetTopmostLayer(l)
  \/ \E k \in DOMAIN chain : ServerDeleteLayer(k)
  \/ Send2TopMostClients

Spec == Init /\ [][Next]_vars
-----------------------------------------------------------------------------
Pointers == {Nil} \cup ((0 .. MaxMoves) \X (1 .. MaxSize - 1))

\* Every field holds a value of its C type, within the limits of the code.
TypeOK ==
  /\ \E n \in 1 .. MaxSize : client \in
       [0 .. n - 1 -> [proc : Procs \cup {Free, Itself}, layer : Layers \cup {NULL},
                       next : Pointers, prev : Pointers]]
  /\ base \in 0 .. MaxMoves
  /\ head \in [LayerList -> Pointers]
  /\ Len(chain) \in 1 .. MaxLayers /\ LayerList \subseteq Layers
  /\ topmost \in Layers /\ sem \in [LayerList -> 0 .. MaxLayers - 1]
  /\ usage \subseteq 0 .. MaxLayers - 1 /\ keys \in 1 .. MaxKeys
  /\ running \subseteq Procs /\ windows \subseteq Procs /\ missed \subseteq Procs
  /\ crash \in {"no", "memory", "join", "topmost"}

\* No pointer into the client table is left behind when realloc moves it.
PointersCurrent ==
  \A ptr \in {head[l] : l \in DOMAIN head} \cup {client[i].next : i \in Entries}
               \cup {client[i].prev : i \in Entries} :
    ptr = Nil \/ (ptr[1] = base /\ ptr[2] \in Entries)

\* The list of a layer holds the clients that joined it and no other, each
\* once, and prev undoes next, whatever joins, ends, deletions and moves of
\* the table came before.
ListsSound ==
  /\ \A l \in LayerList :
       /\ Visited(l) = Members(l)
       /\ Walk(l)[Cardinality(Members(l))] = Nil
  /\ \A i \in Entries :
       /\ client[i].next # Nil => client[client[i].next[2]].prev = Ptr(i)
       /\ client[i].prev # Nil => client[client[i].prev[2]].next = Ptr(i)
       /\ client[i].proc = Free => client[i] = Empty

\* The topmost layer, and the layer of every client, is in the list; a layer
\* is there once, the default layer always, and no two layers share a
\* semaphore, which a slot given back too early or twice would bring about.
LayersSound ==
  /\ topmost \in LayerList /\ Default \in LayerList
  /\ \A i \in Entries : client[i].layer \in LayerList \cup {NULL}
  /\ \A j, k \in DOMAIN chain :
       j # k => chain[j] # chain[k] /\ sem[chain[j]] # sem[chain[k]]
  /\ usage = {sem[l] : l \in LayerList}

\* include/window.h, Send2TopMostClients: "Sends a message to all clients in
\* the topmost layer".
BroadcastComplete == missed = {}

\* include/minigui.h, JoinLayer: "The handle to the layer on success,
\* INV_LAYER_HANDLE on error": a join that finds no room is answered.
JoinAnswered == crash # "join"
=============================================================================
