\* A program that posts to itself while another thread posts quits: a ring of
\* three cells.
CONSTANTS
  Threads = {t1}
  Owner = own
  Nil = nil
  w1 = w1
  w2 = w2
  Wnds = {w1}
  HWND_INVALID = inval
  Posts <- MCNone
  OwnPosts <- MCMoves
  Notifies <- MCNone
  Syncs <- MCNone
  Paints = {}
  Ticks = {}
  Quitters = {t1}
  BufLen = 3
  NrTimers = 1
  TimerWnd <- MCTimerWnd
  ProcSlots = {}
  Desktop = FALSE
  OwnCalls = {"PeekPostMessage", "ThrowAwayMessages"}
  ProcCalls = {}
  Filters <- MCTimeouts
  MaxNotify = 1
  MaxQuit = 1
  MaxDepth = 1
SPECIFICATION Spec
INVARIANTS
  NoDuplicates
PROPERTIES
  RingIsQueue
CHECK_DEADLOCK FALSE
