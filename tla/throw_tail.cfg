CONSTANTS
  Threads = {t1, t2}
  Owner = own
  Nil = nil
  w1 = w1
  w2 = w2
  Wnds = {w1, w2}
  HWND_INVALID = inval
  Posts <- MCNone
  OwnPosts <- MCNone
  Notifies <- MCNone
  Syncs <- MCSync2
  Paints = {}
  Ticks = {}
  Quitters = {}
  BufLen = 2
  NrTimers = 2
  TimerWnd <- MCTimerWnd
  ProcSlots = {}
  Desktop = FALSE
  OwnCalls = {"ThrowAwayMessages"}
  ProcCalls = {}
  Filters <- MCNone
  MaxNotify = 1
  MaxQuit = 1
  MaxDepth = 1
SPECIFICATION Spec
INVARIANTS
  TailIsLast
