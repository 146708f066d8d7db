\* Two worker slots, two processes, a crash and a cancel, every Docker call
\* failing or not.
CONSTANTS
  Works = {w1, w2}
  Procs = {p1, p2}
  MaxWorkers = 2
  MaxAttempts = 1
  MaxMade = 4
  MaxCrashes = 1
  Cancels = TRUE
  None = None
SPECIFICATION Spec
SYMMETRY Symmetry
INVARIANTS Tracked FinalizedClean BaselineKept CancelBounded
CHECK_DEADLOCK FALSE
