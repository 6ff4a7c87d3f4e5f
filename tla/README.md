# A TLA+ model of the MiniGUI 2.0.4 core

This directory models the parts of MiniGUI in which threads or processes meet.
From MiniGUI-Threads (`_LITE_VERSION` not defined): message queues, synchronous
messages, timers, the invalidation of windows, and the block heap under them
(`MsgQueue`, `PostQueue`, `SyncMsg`, `Timer`, `BlockHeap`). From
MiniGUI-Processes (`_LITE_VERSION` without `_STAND_ALONE`): the z-order table
that the processes share, the server's clients and layers, and the way of input
from the devices to a client (`ZOrder`, `Server`, `LWEvent`). Paths are relative
to the repository, with its root called `src/`, as in `PROJECT.json`.

## 1. The system

| Component | State | Operations | Hard because |
|---|---|---|---|
| Message queue, `src/src/kernel/message.c`, `struct _MSGQUEUE` in `src/src/include/internals.h` | ring of posted messages, notification list, list of `SYNCMSG`, flag word `dwState`, `TimerMask`, `FirstTimerSlot`, `loop_depth`, semaphore `wait` | `PostMessage`, `SendNotifyMessage`, `SendSyncMessage`, `PostQuitMessage`; `GetMessage`, `PeekMessage`, `PeekPostMessage`, `WaitMessage`, `HavePendingMessage`, `DispatchMessage`, `ThrowAwayMessages` | many writers, one sleeper, flags that say what the lists hold, and some updates outside the lock |
| Synchronous messages, `message.c` | a `SYNCMSG` in the sender's stack frame, one semaphore per GUI thread | `SendSyncMessage`, the drain loop, `DispatchMessage` | threads that wait for each other; list nodes that live in other threads' stacks |
| Timers, `src/src/kernel/timer.c` | table `timerstr`, `count`, `tick_count`, bits in the queues' masks | `SetTimerEx`, `ResetTimerEx`, `KillTimer`, `DispatchTimerMessage`, `__mg_remove_timer` | two locks, and words written under either |
| Window invalidation and destruction, `src/src/gui/window.c` | invalid region and data type of each window | `InvalidateRect`, `UpdateWindow`, `BeginPaint`, `DestroyMainWindow` | the region and `QS_PAINT` are under different locks; windows die while calls are on their way |
| Block heap, `src/src/kernel/blockheap.c` | status words, cursor | `BlockDataAlloc`, `BlockDataFree`, init, destroy | the cursor must not pass a free block; overflow into `calloc` |
| Z-order shared between processes, `src/src/kernel/desktop-procs.c`, `slotset.c` | per layer a table in shared memory: nodes with rectangle, visibility, owner, age and dirty rectangle, three lists, a slot bitmap, counts, active window, popup menus; per window a clip region and the age it was computed at | allocate, free, raise, show, hide, move, activate, start and end a menu, remove what a client owned | the server changes the table for everybody; each process draws by a region it has cached, and learns late what has been uncovered |
| Server, `src/src/server` | client table that grows and moves, list of layers with a list of clients each, topmost layer, semaphore slots | connect, join, create, raise and delete a layer, broadcast, remove a client | pointers into a table that moves; clients that die between requests; limits |
| Low level events and their routing, `src/src/kernel/event.c`, `ParseEvent` in `src/src/server/server.c`, `src/src/ial` | last key table, buttons, status word, time stamps of clicks, last event; capturing client, dragged window, mouse hook | `GetLWEvent`, `ParseEvent`, drag and hook requests | state kept from one update to the next and from one client to the next |
| Desktop and z-order of the Threads build, `desktop-comm.c`, `desktop-ths.c` | list of main windows, active window, clip regions | show, hide, activate, move, remove | not modelled |
| Client side, `src/src/client`, `sharedres.c` | connection, shared resources | `ClientRequest` | a blocking exchange, of which the server's half is modelled |
| Caret, cursor, string heap, clipboard | small state machines | | not modelled yet |
| Regions, `src/src/newgdi/region.c` | lists of rectangles | union, intersection, difference | pure algorithms, not modelled yet |
| Drawing, fonts, bitmaps, graphics engines, controls, input methods, `ext`, `vcongui`, `rtos` | | | out of reach or of no interest to a model checker: pixels, file formats, device I/O, widgets that live in one thread |

How they interact. Every thread with windows has a queue. Other threads find it
through the window handle (`GetMsgQueue`), change it under `LOCK_MSGQ`, and then
post the semaphore `wait` if its value is 0 (`POST_MSGQ`). The desktop thread
walks the timer table once per tick and sets bits in `TimerMask` of the queues.
`InvalidateRect` marks the region of a window and then sets `QS_PAINT` in the
queue of its thread. The owner of a queue takes one message at a time out of it
in `PeekMessageEx`, in a fixed order of classes, and dispatches it; a synchronous
message is answered with a `sem_post` when its handler returns. Destroying a
window throws away what is queued for it.

In MiniGUI-Processes one server handles the requests of all clients, one at a
time. A client asks it for every change of the z-order; the server changes the
table under a semaphore and tells the owners of windows that have been uncovered,
at once or by a dirty rectangle that is sent when the client next says that it is
live. All processes read the table when they draw. The server reads the devices
and sends an event to the client at the pointer, or to the one that has captured
the mouse. A client ends by closing its socket; the server then takes its entry,
its windows and its menus out of its tables.

What makes the components correct:

- queue: nothing queued is slept through, hidden by a flag, duplicated or
  reordered; every quit ends one loop; nothing is delivered to a dead window;
- synchronous messages: every sender is answered once, after its own message
  has been handled; no thread touches a stack frame that has been left; no two
  threads wait for each other;
- timers: every expiry reaches its own thread, with its tick count, and none is
  starved; a freed slot leaves no bit behind;
- invalidation: an invalid window is painted in the end;
- block heap: a block has one holder, and the heap overflows only when full;
- z-order: nobody draws where another window is on top, what has been uncovered
  is repainted, and nothing in the table outlives its owner;
- server: pointers, lists and limits survive every order of joins, ends,
  deletions and moves of the table;
- events: the status given out is that of the devices, and the client that was
  sent the press of a button is sent its release.

`PROJECT.json` lists the hazards line by line.

## 2. Modules

| Module | What it models |
|---|---|
| `MsgQueue` | one queue, its owner and any number of other threads |
| `PostQueue` | abstract: the posted messages as a bounded FIFO with coalescing and cancellation; `MsgQueue`'s ring implements it |
| `SyncMsg` | GUI threads that send to one another, with their stacks |
| `Timer` | timer table, desktop thread and GUI threads |
| `BlockHeap` | the heap |
| `ZOrder` | the shared z-order table of the layer on the screen, its clients, and the screen |
| `Server` | client table, layers and broadcast of the server |
| `LWEvent` | keyboard and mouse, `GetLWEvent`, and the routing of events to clients |
| `MsgQueueProofs`, `SyncMsgProofs`, `TimerProofs`, `BlockHeapProofs`, `ZOrderProofs`, `ServerProofs`, `LWEventProofs` | theorems about the module each is named after |
| `LeastNumber` | lemmas these share: least elements of sets of naturals |
| `MC...` | small sets and symmetry for TLC |

An operator marked "Fault" is a defective variant of the definition that follows
it. No specification uses it; replacing the definition by it shows that the
property named in `PROJECT.json` notices the defect.

### MsgQueue

The variables are the fields of `struct _MSGQUEUE`, under their own names where
possible: `msg`, `readpos`, `writepos`, `dwState` (a set of flags), `TimerMask`
(a set of slots), `loop_depth`, `wait`. The notification list is a sequence. The
sync list keeps its pointers (`pFirst`, `pLast`, `pNext`), because
`ThrowAwayMessages` handles them wrongly in ways a sequence cannot show; a node
is named by its sender, whose stack it lies on. `inv` holds the windows with a
non-empty invalid region and `alive` those that `GetMsgQueue` accepts.

A section between `LOCK_MSGQ` and `UNLOCK_MSGQ` is one step. Everything outside
is cut at each shared access: the window look-up, `sem_getvalue` and `sem_post`,
and the load and the store of unlocked read-modify-writes. These
(`loop_depth ++` and `dwState |= QS_QUIT` in `PostQuitMessage`, `TimerMask |=` in
`SetMsgQueueTimerFlag`, and `dwState &= ~QS_SYNCMSG` in `SendSyncMessage`,
`message.c:1201`, when the owner sends) race with locked sections; `rmw` records an
actor's loaded value. The other order, a store that falls between the load and the
store of a locked section, is `Overtakes`: the locked section may mark a pending
update as lost. `AlertDesktopTimerEvent` is one unlocked store.

`pc` says where each other thread is in its call. `opc` is the owner's: `run` is
application code, `check` the locked section of `PeekMessageEx`, `wait` and
`wwait` its two sleeps, `callback` a timer callback, `throw` the call of
`ThrowAwayMessages`, and `drain` the loop in which `SendSyncMessage` serves the
owner's own synchronous messages. The `Peek...` actions are the one locked section, split by
the class it returns from; each clears the flags that the code clears on its way
there. `stack` holds the messages being handled, so that handlers can run nested
message loops, and the owner's sends (`SendFrame`), so that a handler served by a
send may run loops and send again. The queue a send of the owner goes to is not
modelled here: its answer comes at any time (`OwnAnswered`). What application code may call is chosen by the constant
`OwnCalls` of a run, and what a timer callback may call by `ProcCalls`.

Abstractions: one thread's windows share a queue and the window tree is flat;
an invalid region is empty or not, and an invalidation may leave it as it is (a
rectangle outside the client area, or a region that `BeginPaint` has frozen);
a message is a record of kind, window and two parameters; memory is never
exhausted; a handler returns; a timer callback does not send synchronously; timers are given by the constants `TimerWnd` and
`ProcSlots`, and their table is `Timer`'s concern. `UpdateWindow` runs its
handler at once, so both are one step. What `ThrowAwayMessages` writes into the
frame of a sender that has already returned is not followed.

### SyncMsg

Each thread has a stack of frames, `send` or `handle`. A `SYNCMSG` is named by
its sender and the depth of its frame, so that a node that outlives its frame is
visible. The drain loop of `SendSyncMessage` is split where the code unlocks: the
flag `QS_SYNCMSG` is cleared after `UNLOCK_MSGQ`. That a sleeping receiver is
woken is `MsgQueue`'s part.

### Timer

The desktop thread holds `TIMER_LOCK` for its walk, one step per shared access;
a GUI thread finds, clears and serves an expired timer step by step, holding its
queue lock, which the desktop thread does not take. `passed` is a history
variable that counts how often an expired slot has been passed over. A thread
uses its own timers only, and a window stands for its thread.

### BlockHeap

Every operation runs under the heap's lock and is one step. `held` is what the
callers hold.

### ZOrder

The screen is a row of `Width` cells and a rectangle an interval of cells, which
may reach beyond the screen. `desk.win` holds the nodes, `desk.before` the order
in the three lists, and the rest of the table has the fields of `ZORDERINFO`.
Each handler of `__mg_do_zorder_operation` is one action, because it runs under
`lock_zi_for_change` and the server does nothing else meanwhile; `CloseMenu`,
`IamLive`, `Connect` and `RemoveAllZNodes` are the other requests and the end of a
client.

An age counter is abstracted to what it is for: `Aged` removes the region that a
window remembers, and `Done` lets every window without one compute it from the
table (`ClipOf`, the code of `__mg_lock_recalc_gcrinfo`). A visible window that a
handler has not aged keeps its old region. What the screen shows is kept as
`desk.stale`, the cells that do not show what is on top there: a cell becomes
stale when the top changes or when somebody else draws on it, and is right again
when its owner draws it within the region it has. `Uncover` finds the nodes to be
told as the code does, by the bounding boxes of what is left of the region
(`Touched`), and enlarges their dirty rectangles; `BoundFromOrigin` is the union
that starts with the rectangle (0, 0, 0, 0). The copy of a moved window
(`Copied`) copies stale cells too, and those that a menu closed by the same
handler has uncovered, unless the window is the server's.

Abstractions: all windows are enabled main windows; a layer in the background has
no model; an update that `__mg_send2client` drops, and a dirty part that moves
with its window, are recorded in `desk.lost` and excepted from `ScreenCorrect`,
because the code gives nobody the task to repair them.

### Server

A pointer into the client table is the address of the table and an index; the
address changes when `realloc` moves it. `client[i].proc` stands for the socket.
A process may end at any moment (`Die`) and the server learns of it later
(`RemoveClient`). The library of a client sends `REQID_JOINLAYER` once, when it
starts. `windows` holds the clients with nodes in their layer's table, which
`ServerDeleteLayer` tests. A step that ends the server sets `crash`. `missed` is
a history variable: the running clients that the last broadcast did not reach.
`MaxSize`, `MaxMoves` and `MaxKeys` bound the table, its moves and the keys of
shared memory. `cli_active` is left out: nothing sets it.

### LWEvent

`kbd` is the keyboard and the table of the input engine, `lw` the static
variables of `event.c`, `route` those of `ParseEvent` with the dragged window and
the mouse hook. One update of a device is one action: `Key` and `Mouse` are the
update of the IAL engine, `GetLWEvent` and `ParseEvent` together, with their early
returns. A point of the screen is known by the client whose window is on top
there. Time stamps are ages that stop behind the double click interval. The
history variables `owed`, `told` and `clicks` record who has been sent a press
without its release, whether the last motion was reported, and how the last press
was reported. `given` is the last key or mouse event that `GetLWEvent` returned. Its
status is that of `lw`, except for a pure motion: `event.c:301` returns before
`mouseret`, where `me->status` is assigned, so the word keeps what was in the frame
of `ParseEvent`, one of `Unassigned`, and is sent with `MSG_MOUSEMOVE`
(`server.c:121`).

Abstractions: a keyboard changes one key in an update, as the engine `native` does;
a client's mouse message is `sent`, `taken` by the server's event hook or
`dropped`, as `Outcomes` allows; the server has no window but the desktop; long
presses are disabled as they are at start-up.

## 3. Runs

Runs that pass:

| Run | Question | Instance |
|---|---|---|
| `wakeup` | is a wake-up, the flag of a class or an invalid region lost when posts, notifications, synchronous messages and invalidations interleave with every way to get and to wait for messages; does the semaphore stay bounded? | 2 threads, ring of 2 |
| `syncs` | is every synchronous sender in exactly one place, through nesting, throwing away, destruction of the only window and sends of the receiver that hide or overwrite its flags? | 3 threads, depth 3 |
| `loop` | does the ring implement `PostQueue`, without duplicates, in a program that posts to itself while another thread's quit overwrites its words? | ring of 3, 4 messages |
| `quits` | is `QS_QUIT` up at every look into the queue exactly as long as a loop has still to end, through nested loops and peeks? | 3 quits, depth 3, a timer with a callback and one with a message |
| `live` | in the desktop's queue, with its own timer rule: is every synchronous message answered, and does a queued message end the sleep, however many arrive? | 2 threads |
| `sync` | do sends return only after their handler, with exact counts and no dangling node? | 3 threads, 2 sends each |
| `timer` | do bits belong to timers of their queue through set, reset, kill and reuse; is a timer starved, or an expiry counted twice? | 2 threads, 2 slots, periods 1 and 2 |
| `heap` | is the block heap exact? | 4 blocks, 2 overflow blocks |
| `zorder` | does every window draw in its current region, is every uncovered cell told to its owner, do counts, bitmap and lists agree, and does nothing outlive its client? | 2 clients, 2 windows, 1 menu, 2 cells, windows inside and partly outside the screen |
| `server` | do pointers, lists of clients, layers and semaphores stay consistent? | 3 processes, a table of 2 that grows to 4 and may move, 3 layers of 4 names |
| `lwevent` | is the status given out that of the devices, is no key repeated that nobody holds, does a capture last as long as its button and tell its client of the release, does a press count for one double click? | left shift, caps lock, 2 buttons, 2 clients; a motion's status is all clear or all set |

One run ends in a violation, a disagreement between the code and a comment (quoted in
`PROJECT.json` under "findings"): in `sync_flag` two threads that send to each other
both sleep, because the flag cleared after the unlock hides a message.

The model also refutes the following claims. They are definitions of the modules;
the configuration named shows the behaviour (`X.cfg`, to be run with the `MC`
module of its model), or the named change of one does.

| Claim | Where it comes from | Instance | What happens |
|---|---|---|---|
| `TailIsLast` | `internals.h:198` "tail of the sync message queue" | `throw_tail.cfg` | `ThrowAwayMessages` leaves `pLastSyncMsg` on a removed node, and the next message is linked behind it (`message.c:1043`) |
| `ThrownAreUnlinked` | `message.c:1039` "remove the node from msg queue" | `throw_tail.cfg` with 3 threads | of two adjacent nodes for a window the second stays linked though its sender is woken (`message.c:1057`) |
| `NoLostWakeup` | `window.h:1920` "returns until there is a message in the message queue" | `callback_sleep.cfg` | after a timer callback `GetMessage` sleeps on a message the callback posted (`message.c:655`), or, in `quits.cfg`, on the bit of another timer that expired before the callback |
| `NoLostWakeup`, `FlagsCoverQueue` | the same | `send_clear.cfg` | the owner sends: its unlocked clear of `QS_SYNCMSG` hides what another thread queues meanwhile, and the owner sleeps on it (`message.c:1201`) |
| `QuitSeen` | `window.h:2277` "The next call to GetMessage will return 0." | `quit_race.cfg` | the unlocked `dwState \|= QS_QUIT` of the owner is overwritten by the locked update of a thread that posts, and the loop does not end (`message.c:910`) |
| `BitsAreTimers` | `timer.c:420` "already called in message.c" | `timer_oneshot.cfg` | a one-shot timer leaves behind a bit that was set during its callback, and the slot may be reused (`timer.c:423`) |
| `NothingForDead` | `window.c:3691` "make the window to be invalid for PeekMessageEx, PostMessage etc" | 1 thread that posts, `DestroyMainWindow` | `PostMessage` looks the window up before it locks the queue (`message.c:870`) |
| `PeekKeeps` | `window.h:1901` "Leave it in the message queue." | 1 thread that ticks, `PeekMessage` | the timer branch ignores `PM_NOREMOVE` (`message.c:619`) |
| `PendingIsReal` | `window.h:1966` "TRUE for pending message" | 1 thread that invalidates | `QS_PAINT` outlives the invalid region (`message.c:319`) |
| `ExpiryKept` | `timer.c:269` "we do not need to lock msgq" | 1 thread, 2 timers | the two unlocked updates of `TimerMask` overwrite each other |
| `TickIsExpiry` | `window.h:5350` "the tick count when this timer had expired" | 1 thread, 1 timer | a timer is served with tick count 0 (`timer.c:263`) |
| `ReturnsHandled` of `SyncMsg` | `message.c:1212` "suspend until the message has been handled" | `sync_flag.cfg` with `HandlersSend = TRUE` | a nested send returns with the answer of the outer one, because both wait on one semaphore (`message.c:1150`) |
| `BroadcastComplete` | `window.h:2145` "Sends a message to all clients in the topmost layer." | `broadcast.cfg` | the first client that cannot be written to ends the broadcast (`client.c:271`) |
| `JoinAnswered` | `minigui.h:412` "The handle to the layer on success, INV_LAYER_HANDLE on error" | `layers_full.cfg` | a join for which there is no room reads through a null layer and ends the server (`layer.c:415`) |
| `RightButtonShown` | `common.h:1168` "This status indicate that right button was pressed when the key or mouse message posted to the window" | `lwevent.cfg` with `Keys = {58}` | a lock key clears the button bits, and the next line sets one of them only (`event.c:463`) |
| `RepeatsHeldKey` | the purpose of auto-repeat | `console_keys.cfg`, with it as the invariant | after a key that switches consoles a release is not reported, and the key is repeated (`native.c:193`) |
| `MotionStatusTrue` | `window.h:135` "The shift key status when this message occurred." | `motion_status.cfg` | a motion is given out with a status nobody has assigned (`event.c:302`, `server.c:121`) |
| `ModifiersFollowKeys` | `minigui.h:2797` "Indicates that right Ctrl key is pressed." | `console_keys.cfg` | right control with a function key clears the control key in the engine without an event; the next update reports that change instead of its own (`native.c:193`) |
| `MovesReported` | `window.h:125` "This message is posted to the window when the user moves the mouse" | `lwevent.cfg` with `Buttons = {"L", "M"}` | while the middle button is down a motion differs from `oldbutton` and is dropped (`event.c:301`) |
| `CaptureEnds` | `server.c:194` | `lwevent.cfg` with `Chords = TRUE`, or `HookFlags = {TRUE}` | of two buttons in one update one is lost; `ParseEvent` returns before the reset when a hook stops the message (`server.c:169`) |
| `CaptureTold` | `server.c:154` | `lwevent.cfg` with `MaxConnects = 2`, or `Outcomes = {"sent", "dropped"}` | `down_client` survives its client and captures for the next one with its entry; a dropped press is followed by its release |

Why the bounds are enough. Two other threads make every race of two
signallers and of a signaller with the owner; three senders are the fewest for a
list with a first, an inner and a last node. A ring of two cells holds one
message and is full at once; one of three wraps round with a message on either
side of the end, and lets a duplicate stand before or behind another message.
`MaxDepth` counts the nested loops, handlers and sends of the owner; with `MaxQuit` 3
three quits may be on their way to three loops; `MaxDepth` 3 in `syncs` is a send inside a
handler that another send serves. `MaxNotify`, `MaxQuit`, `MaxSends` and
`MaxFrames` bound what the code leaves unbounded. The symmetry of `wakeup`,
`syncs`, `sync`, `zorder`, `server` and `lwevent` permutes threads, clients, processes and
layer names that play the same part, and these runs check no liveness. Two windows
of one list, with rectangles that overlap on the screen and one that leaves it, are the fewest for
raising, partial covering and copying from outside; two clients make a window of
one cover that of the other, and let one die while the other's menu is up. (Random
simulation of a larger instance, with two global nodes, a topmost window, two menus
and three cells, met no violation either.) A table that grows by 2 is full with
the server and one client, so that it moves with clients in lists; 3 layers are the
fewest with a first, an inner and a last one. Left shift stands for the modifiers
and caps lock for the lock keys; two buttons overlap in every order.
The passing runs avoid the defects shown by the others: in `wakeup` and
`live` nobody posts quits and the owner does not send (`quit_race.cfg`, `send_clear.cfg`),
in `wakeup` no timer ticks (after a callback a wake-up may be lost, see `callback_sleep.cfg`; that a
tick without one loses none is `NoWakeupLost`, and `ContentsWake` for the desktop),
`syncs` has one window, so that a throw empties the list and the unlinking of an
inner or the last node is left to `throw_tail.cfg`, in `quits` nobody but the owner
writes `dwState`, the handlers of `sync` do not send, the callbacks of `timer` keep
their timers, and in `lwevent` there is no key that switches consoles, one button
changes per update, hooks let messages pass, messages are delivered and an entry of
the client table serves one client. `loop` and `syncs` do not avoid them: what they
state holds although flags and counts are overwritten.

Deadlock is checked except where the system may stop: in `sync` and `sync_flag`,
whose threads have a bounded number of sends, in `server`, where a
server that has ended does nothing, in `zorder`, whose properties are about steps
and not about waiting, in `syncs`, where no window may
be left to send to and a cleared `QS_SYNCMSG` leaves senders waiting, and in `loop`,
where the quit of the other thread may overwrite a flag that the owner waits for.

Fairness (run `live`): weak fairness of the owner's message loop, because a GUI
thread runs `while (GetMessage(...)) DispatchMessage(...)` and its handlers
return; and weak fairness of every thread that has begun a call, because the
calls do not block but for the answer. No fairness is assumed of callers: nobody
has to post. `SyncAnswered` holds because the sync list is looked at before the
ring. The other runs check safety only.

## 4. Proofs

All theorems hold for any number of threads, windows, timers, processes, layers,
keys and messages and any ring, heap or table size that satisfy the named
assumptions on the constants (`ThreadsAssumption`, `SizesAssumption`,
`HeapSizeAssumption`, `TimerConstants`, `KeysAssumption` and so on), which TLC
evaluates in every run. A theorem with a further hypothesis states it in its
ASSUME; each hypothesis is met by the run that checks the same property, and,
where section 3 names one, another instance refutes the property without it.

`LeastNumber` proves that a non-empty set of naturals has a least element, from the
library's theorem that `<` is well founded on them. The other modules use it where
a textbook proof would use induction on a natural number.

`MsgQueueProofs`:

- `TypeCorrect`: `TypeOK` always holds. It is not inductive: what a pending
  update stores has the right type only if it belongs to the call the actor is
  in. `Inv` adds this as `RmwAt`.
- `FlagsCover`: with no `PostQuitMessage` and no synchronous sends of the owner, a
  class that holds a message has its flag. Both hypotheses are needed: each stands
  for one of the two unlocked updates of `dwState`, and `quit_race.cfg` and `send_clear.cfg`
  show what they do. Inductive with `Inv` and `LockedOnly` (nobody is in an
  unlocked update of `dwState`); `PastAreEmpty` says that flags are only cleared for empty classes.
- `NoWakeupLost`: with no quits, no sends of the owner and no callback timers,
  `NoLostWakeup` always holds. The invariant adds `FlagsCoverQueue`, so that a check that finds no
  flag has found no message, and `Waits`: a peek that may sleep wants every
  message and sleeps only right after a check.
- `PaintsKept`, `PaintWakesCorrect`: on the same hypotheses, the same for invalid windows, in queues
  other than the desktop's. `PaintInv` follows each invalid window to the thread
  that has marked it and has yet to set `QS_PAINT` for it. The desktop thread
  clears `QS_PAINT` together with the message it returns.
  The other theorems of this module cover an owner that sends.
- `WaitCorrect`: the value of `wait` and the threads that are about to post it
  (`Posting`) are together no more than the threads. A thread joins them only
  when it has read 0, and posting moves one unit from the one to the other.
- `QuitCorrect`: `QuitSeen` when nobody but the owner writes `dwState`
  (`OwnerAlone`); the clear in a send of the owner keeps `QS_QUIT` then. `QuitInv`
  follows the two updates of `PostQuitMessage`: what the first has loaded is still
  `loop_depth`, and between them the flag may be behind.
- `AccountingCorrect`, `TailCorrect`: `SyncAccounting` and `TailIsLast`, when the
  owner has one window or throws no messages away (`ThrowsAll`; `throw_tail.cfg`
  refutes `TailIsLast` otherwise). `SendersInv` says that the pointers link a
  sequence of different senders that ends at `pLast`, and that these, the senders
  being handled and those answered are all that wait; the recursive function
  `Walk` is shown to return that sequence.
- `UniqueCorrect`: `NoDuplicates`, without hypotheses. `RingStep` says what any
  step does to the ring: nothing, take the oldest, cancel the messages of a
  window, or `Enqueue` a message a caller holds (`RingCalls`). `Dist` numbers the
  cells from `readpos`, so that the wrap disappears from the argument.
- `RingCorrect`: the refinement `RingIsQueue`. The ring read from `readpos` to
  `writepos` is the sequence of `PostQueue`; each kind of `RingStep` is shown to
  be `Put`, `Take` or `ThrowAway` of it by comparing sequences element by
  element.

`SyncMsgProofs`, for threads whose handlers do not send (`HandlersSend = FALSE`,
as in the run `sync`; with it TRUE `AnswersCounted` and `ReturnsHandled` fail,
section 3, and so does `NoDangling`):

- `DanglingCorrect`, `AnswersCorrect` and the action property `ReturnsCorrect`.
  `SyncInv` follows a message from its sender's frame to one list, to one
  handler and to the answer: stacks have one of three shapes (`Shapes`), what a
  list or a handler refers to is a send that waits (`Referred`, `Listed`,
  `Alone`), a send that is answered is referred to no longer (`Unlisted`), and
  `Counted` relates the semaphore to it. None of the properties is inductive
  alone, because each depends on the others' part of that way.

`TimerProofs`, for callbacks that keep their timers (`Returns` without FALSE;
`timer_oneshot.cfg` is the counterexample without it):

- `TypeCorrect`, `OneTimerCorrect`, `BitsCorrect`, `CountsCorrect`,
  `NoStarvationCorrect`, all from `TimerInv`. `MaskInv` says of a loaded value of
  `TimerMask` that the store to come adds nothing that is not a timer: the
  desktop's value is not behind what the queue has, the owner's is a part of it.
  `CountInv` allows a count to have reached its period only for the timer the
  desktop thread is handling. `PassInv` adds, to how often a slot has been passed
  over, how often it will be before the search starts at it.

`ServerProofs`, without hypotheses:

- `TypeCorrect` and `LayersCorrect` from `LayersInv`;
- `PointersCorrect` and `ListsCorrect`. `ListInv` says that the list of each layer
  is some sequence of different entries that `next` and `prev` link in both
  directions with current addresses, that an entry is in the sequence of its own
  layer, and that entries without a layer have null links. The model's `Walk`, a
  recursive function, is shown to return this sequence.

`LWEventProofs`:

- `TypeCorrect`, `ButtonsCorrect` and `ClicksCorrect`, without hypotheses.
  `ButtonsCorrect` and `ModifiersCorrect` speak of the status that
  `GetShiftKeyStatus` returns and of that given out with keys, buttons and repeated
  keys; of a pure motion's status nothing holds (`motion_status.cfg`);
- `ModifiersCorrect` and `RepeatsCorrect`, for keyboards without the keys that
  switch consoles (`NoConsoleSwitch`): `KeysAgree` adds that the tables of the
  engine and of `GetLWEvent` are what is held, and that the key the keyboard
  repeats is the last that `GetLWEvent` saw go down;
- `CaptureEndsCorrect`, when a mouse changes one button per update and no hook
  stops messages (`PlainMouse`), and `CaptureToldCorrect`, when also messages
  arrive and an entry serves one client (`PlainClients`): `ToldInv` adds that
  nobody is owed a release who is not alive or was never connected.

`ZOrderProofs`, without hypotheses; of the rectangles only that they are intervals
in a bounded part of the plane:

- `TypeCorrect`, `SlotsCorrect`, `OwnersCorrect`, `CacheCorrect` and
  `ScreenAnswered` from one invariant. `Good` says it of any table, because a handler passes through tables
  that nobody sees: `ForceCloseMenu` first, `Done` last. `Fits` holds the types,
  the counts and the order of the lists, `OwnersOK` the owners, and `Sound` that a
  region remembered by a visible window is the one the table gives it now.
- `SlotFound` is the counting argument behind the search of the bitmap: fewer
  nodes of a type than the table allows leave a slot in its part of the bitmap.
- A handler is right about ages when it ages every window whose region it changes.
  The walk of the code subtracts each node from what is left of the rectangle and
  tests bounding boxes: the lemmas show that a node that gains a cell is among
  those that walk touches, and one that loses a cell is overlapped.
- `ScreenAnswered` is `ScreenCorrect`. `Screened(o, d)` says, on the way from the
  table `o` to the table `d`, that a cell which was wrong, has another window on
  top, or is drawn by somebody without a region (a copy, a menu) is a cell whose
  top window is `Told`: it draws the cell now, has it in its dirty rectangle, or
  is recorded as never told. `ScreenStep` reduces a change of the table to two
  questions: nobody told before is told less (`More`), and a window that gains a
  cell is told of it. `Uncovers` is the answer shared by the handlers that
  uncover a rectangle, with the same lemmas about the walk as for the ages;
  `PaintScreen` that of the handlers that put a window or a menu there. A move
  needs both, and `SameSize`: the cell a copied one comes from lies in the old
  rectangle, so it either showed the window or is in the part that is sent.

`BlockHeapProofs`: `HeapCorrect` and `UsedCorrect`, the cursor and the holders for
every heap size; `SpillCorrect`, a block comes from `calloc` only when the array is
full.

Only model-checked: liveness (`SyncAnswered`, `ContentsWake`), which is beyond the
prover. Every invariant of a passing run is a theorem, with the hypotheses named
above.

## 5. Not modelled, and plan

Not modelled because a model checker has nothing to say about it: drawing, fonts
and bitmaps (most of the repository's lines are font data), graphics engines and
input drivers, controls and input methods that live in one thread, and glue for
other systems.

Still to be modelled, in this order:

1. The change of layers: ages and global nodes copied from one table to another
   (`__mg_do_change_topmost_layer`), operations of clients in the background.
2. `Paint`: regions as sets of cells, `frozen`, `BeginPaint` against
   `InvalidateRect` of another thread, child windows.
3. `Region`: operators on rectangle lists against sets of points.
4. The z-order of the Threads build; the client's half of a request.
5. Long presses, console switches, and the event thread of the Threads build.
6. Small machines: string heap, caret, cursor show count, clipboard.
7. Cross-thread `KillTimer`, the end of a thread (`DestroyMsgQueue`), broadcast.

Proofs to add: those of the modules above; and weaker hypotheses where a theorem
has one, above all handlers that send (`HandlersSend`) but never to a thread that
waits for them.
