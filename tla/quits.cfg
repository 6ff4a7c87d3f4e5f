\* Nested message loops, each to be ended by a quit of the owner, while two timers tick,
\* one with a callback that queues nothing.
CONSTANTS
  Threads = {t1}
  Owner = own
  Nil = nil
  w1 = w1
  w2 = w2
  Wnds = {w1}
  HWND_INVALID = inval
  Posts <- MCNone
  OwnPosts <- MCUser
  Notifies <- MCNone
  Syncs <- MCNone
  Paints = {}
  Ticks = {0, 1}
  Quitters = {own}
  BufLen = 2
  NrTimers = 2
  TimerWnd <- MCTimerWnd
  ProcSlots = {0}
  Desktop = FALSE
  OwnCalls = {"PeekMessage", "WaitMessage", "UpdateWindow"}
  ProcCalls = {}
  Filters <- MCPaints
  MaxNotify = 1
  MaxQuit = 3
  MaxDepth = 3
SPECIFICATION Spec
INVARIANTS
  QuitSeen
