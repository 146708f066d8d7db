\* A cancel between the admission of a creation and its journaled intent.
CONSTANTS
  Works = {w1}
  Procs = {p1}
  MaxWorkers = 1
  MaxAttempts = 1
  MaxMade = 2
  MaxCrashes = 0
  Cancels = TRUE
  None = None
SPECIFICATION Spec
INVARIANTS CancelClosed
CHECK_DEADLOCK FALSE
