CONSTANTS
  Threads = {t1}
  Owner = own
  Nil = nil
  w1 = w1
  w2 = w2
  Wnds = {w1}
  HWND_INVALID = inval
  Posts <- MCNone
  OwnPosts <- MCUser
  Notifies <- MCNone
  Syncs <- MCNone
  Paints = {}
  Ticks = {0}
  Quitters = {}
  BufLen = 2
  NrTimers = 1
  TimerWnd <- MCTimerWnd
  ProcSlots = {0}
  Desktop = FALSE
  OwnCalls = {}
  ProcCalls = {"PostMessage"}
  Filters <- MCNone
  MaxNotify = 1
  MaxQuit = 1
  MaxDepth = 1
SPECIFICATION Spec
INVARIANTS
  NoLostWakeup
