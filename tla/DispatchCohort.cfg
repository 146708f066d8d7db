CONSTANTS
    Works = {w1, w2, w3}
    Procs = {p1}
    MaxParallel = 2
    MaxRetries = 1
    MaxAttempts = 1
    MaxCalls = 0
    Local = TRUE
    Repairs = 1
    Dynamic = {w2, w3}
    First = w1
    MaxRows = 0
    MaxCrashes = 1
    Stalls = FALSE
    Cancels = FALSE
    Nobody = Nobody
SPECIFICATION Spec
INVARIANTS ResumeFunded
PROPERTIES ImplementsLifecycle
CHECK_DEADLOCK FALSE
