\* The keys are A, F1 and right control, which together with F1 switches consoles.
CONSTANTS
  Keys = {30, 59, 97}
  Buttons = {"L", "R"}
  Clients = {c1, c2}
  DblClick = 1
  Outcomes = {"sent"}
  HookFlags = {FALSE}
  Chords = FALSE
  Unassigned <- MCZeroes
  MaxConnects = 1
SPECIFICATION Spec
SYMMETRY Perms
INVARIANTS
  ModifiersFollowKeys
