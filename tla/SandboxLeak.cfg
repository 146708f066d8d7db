SPECIFICATION Spec
CONSTANTS
  Works = {w1, w2}
  Procs = {p1}
  MaxWorkers = 2
  MaxAttempts = 1
  MaxMade = 4
  MaxCrashes = 0
  Cancels = FALSE
  None = None
SYMMETRY Symmetry
INVARIANTS NoContainerLost
CHECK_DEADLOCK FALSE
