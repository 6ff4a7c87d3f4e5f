\* Liveness of the message loop of the desktop thread.
CONSTANTS
  Threads = {t1, t2}
  Owner = own
  Nil = nil
  w1 = w1
  w2 = w2
  Wnds = {w1}
  HWND_INVALID = inval
  Posts <- MCUser
  OwnPosts <- MCNone
  Notifies <- MCNone
  Syncs <- MCSync
  Paints = {}
  Ticks = {0}
  Quitters = {}
  BufLen = 2
  NrTimers = 2
  TimerWnd <- MCTimerWnd
  ProcSlots = {}
  Desktop = TRUE
  OwnCalls = {}
  ProcCalls = {}
  Filters <- MCNone
  MaxNotify = 1
  MaxQuit = 1
  MaxDepth = 1
SPECIFICATION FairSpec
PROPERTIES
  SyncAnswered
  ContentsWake
