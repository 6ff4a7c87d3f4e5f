\* Three GUI threads send to one another; handlers do not send.
CONSTANTS
  Threads = {t1, t2, t3}
  HandlersSend = FALSE
  MaxSends = 2
  MaxFrames = 3
SPECIFICATION Spec
SYMMETRY MCSymmetry
INVARIANTS
  NoDangling
  AnswersCounted
PROPERTY ReturnsHandled
CHECK_DEADLOCK FALSE
