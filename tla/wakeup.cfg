\* Two threads post, notify, send and invalidate; the owner waits in both ways, peeks
\* for one class, notifies itself and invalidates.
CONSTANTS
  Threads = {t1, t2}
  Owner = own
  Nil = nil
  w1 = w1
  w2 = w2
  Wnds = {w1}
  HWND_INVALID = inval
  Posts <- MCUser
  OwnPosts <- MCNone
  Notifies <- MCNotify
  Syncs <- MCSync
  Paints = {w1}
  Ticks = {}
  Quitters = {}
  BufLen = 2
  NrTimers = 1
  TimerWnd <- MCTimerWnd
  ProcSlots = {}
  Desktop = FALSE
  OwnCalls = {"PeekMessage", "WaitMessage", "SendNotifyMessage", "InvalidateRect"}
  ProcCalls = {}
  Filters <- MCPaints
  MaxNotify = 1
  MaxQuit = 1
  MaxDepth = 1
SPECIFICATION Spec
SYMMETRY MCSymmetry
INVARIANTS
  TypeOK
  NoLostWakeup
  FlagsCoverQueue
  WaitBounded
  PaintNotLost
  PaintWakes
