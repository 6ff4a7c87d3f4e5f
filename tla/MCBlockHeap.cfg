CONSTANTS
  HeapSize = 4
  Specials = {s1, s2}
SPECIFICATION Spec
INVARIANTS
  NoFreeBelowCursor
  UsedIffHeld
PROPERTY SpillsOnlyWhenFull
