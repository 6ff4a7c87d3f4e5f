\* The owner sends; the thread it shares its queue with posts or sends.
CONSTANTS
  Threads = {t1}
  Owner = own
  Nil = nil
  w1 = w1
  w2 = w2
  Wnds = {w1}
  HWND_INVALID = inval
  Posts <- MCUser
  OwnPosts <- MCNone
  Notifies <- MCNone
  Syncs <- MCSync
  Paints = {}
  Ticks = {}
  Quitters = {}
  BufLen = 2
  NrTimers = 2
  TimerWnd <- MCTimerWnd
  ProcSlots = {}
  Desktop = FALSE
  OwnCalls = {"SendSyncMessage"}
  ProcCalls = {}
  Filters <- MCNone
  MaxNotify = 1
  MaxQuit = 1
  MaxDepth = 2
SPECIFICATION Spec
INVARIANTS
  NoLostWakeup
CHECK_DEADLOCK FALSE
