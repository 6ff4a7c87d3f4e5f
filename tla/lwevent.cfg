\* The keys are left shift and caps lock.
CONSTANTS
  Keys = {42, 58}
  Buttons = {"L", "R"}
  Clients = {c1, c2}
  DblClick = 1
  Outcomes = {"sent"}
  HookFlags = {FALSE}
  Chords = FALSE
  Unassigned <- MCTwo
  MaxConnects = 1
SPECIFICATION Spec
SYMMETRY Perms
INVARIANTS
  TypeOK
  ModifiersFollowKeys
  RepeatsHeldKey
  ButtonsTrue
  CaptureEnds
  CaptureTold
  ClickCountsOnce
