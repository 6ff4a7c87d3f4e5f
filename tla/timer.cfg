\* Two threads share two slots; callbacks keep their timers.
CONSTANTS
  Guis = {g1, g2}
  Ids = {1, 2}
  Speeds = {1, 2}
  NrTimers = 2
  Procs = {TRUE}
  Returns = {TRUE}
SPECIFICATION Spec
INVARIANTS
  TypeOK
  OneTimerPerId
  BitsAreTimers
  NoStarvation
  CountsBelowSpeed
