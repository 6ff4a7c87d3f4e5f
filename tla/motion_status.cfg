\* An event of the mouse that is a motion only; the keys are those of lwevent.
CONSTANTS
  Keys = {42, 58}
  Buttons = {"L", "R"}
  Clients = {c1, c2}
  DblClick = 1
  Outcomes = {"sent"}
  HookFlags = {FALSE}
  Chords = FALSE
  Unassigned <- MCAny
  MaxConnects = 1
SPECIFICATION Spec
SYMMETRY Perms
INVARIANTS
  MotionStatusTrue
