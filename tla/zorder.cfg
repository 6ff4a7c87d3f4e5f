CONSTANTS
  Clients = {c1, c2}
  Server = server
  Width = 2
  Rects <- MCRects
  MenuRects <- MCMenuRects
  MaxGlobals = 1
  MaxTopmosts = 0
  MaxNormals = 2
  MaxMenus = 1
SPECIFICATION Spec
INVARIANTS
  TypeOK
  CacheCurrent
  ScreenCorrect
  SlotsAgree
  OwnersConnected
CHECK_DEADLOCK FALSE
SYMMETRY Perms
