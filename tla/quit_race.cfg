\* The owner posts a quit to itself while another thread posts a message.
CONSTANTS
  Threads = {t1}
  Owner = own
  Nil = nil
  w1 = w1
  w2 = w2
  Wnds = {w1}
  HWND_INVALID = inval
  Posts <- MCUser
  OwnPosts <- MCNone
  Notifies <- MCNone
  Syncs <- MCNone
  Paints = {}
  Ticks = {}
  Quitters = {own}
  BufLen = 2
  NrTimers = 2
  TimerWnd <- MCTimerWnd
  ProcSlots = {}
  Desktop = FALSE
  OwnCalls = {}
  ProcCalls = {}
  Filters <- MCNone
  MaxNotify = 1
  MaxQuit = 1
  MaxDepth = 1
SPECIFICATION Spec
INVARIANTS
  QuitSeen
