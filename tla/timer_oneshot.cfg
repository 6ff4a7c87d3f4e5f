\* A callback that returns FALSE after its timer has expired again.
CONSTANTS
  Guis = {g1}
  Ids = {1}
  Speeds = {1}
  NrTimers = 2
  Procs = {TRUE}
  Returns = {FALSE}
SPECIFICATION Spec
INVARIANTS
  BitsAreTimers
