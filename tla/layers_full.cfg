CONSTANTS
  Procs = {p1, p2, p3}
  Default = mginit
  Layers = {mginit, a, b, c}
  NALLOC = 2
  MaxSize = 4
  MaxMoves = 1
  MaxLayers = 3
  MaxKeys = 4
SPECIFICATION Spec
SYMMETRY Perms
INVARIANT
  JoinAnswered
CHECK_DEADLOCK FALSE
