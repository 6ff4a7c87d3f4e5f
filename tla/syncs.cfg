\* Three senders; handlers nest, the main program and its handlers send, too; the
\* only window is emptied or destroyed.
CONSTANTS
  Threads = {t1, t2, t3}
  Owner = own
  Nil = nil
  w1 = w1
  w2 = w2
  Wnds = {w1}
  HWND_INVALID = inval
  Posts <- MCNone
  OwnPosts <- MCNone
  Notifies <- MCNone
  Syncs <- MCSync
  Paints = {}
  Ticks = {}
  Quitters = {}
  BufLen = 2
  NrTimers = 2
  TimerWnd <- MCTimerWnd
  ProcSlots = {}
  Desktop = FALSE
  OwnCalls = {"ThrowAwayMessages", "DestroyMainWindow", "SendSyncMessage"}
  ProcCalls = {}
  Filters <- MCNone
  MaxNotify = 1
  MaxQuit = 1
  MaxDepth = 3
SPECIFICATION Spec
SYMMETRY MCSymmetry
INVARIANTS
  SyncAccounting
  TailIsLast
CHECK_DEADLOCK FALSE
