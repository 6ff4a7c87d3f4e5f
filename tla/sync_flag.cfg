\* The flag cleared after the unlock hides a message that came in between.
CONSTANTS
  Threads = {t1, t2}
  HandlersSend = FALSE
  MaxSends = 2
  MaxFrames = 3
SPECIFICATION Spec
INVARIANT NoCircularWait
CHECK_DEADLOCK FALSE
