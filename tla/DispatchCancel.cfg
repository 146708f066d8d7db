CONSTANTS
    Works = {w1}
    Procs = {p1, p2}
    MaxParallel = 1
    MaxRetries = 0
    MaxAttempts = 1
    MaxCalls = 1
    Local = FALSE
    Repairs = 0
    Dynamic = {}
    First = w1
    MaxRows = 1
    MaxCrashes = 1
    Stalls = FALSE
    Cancels = TRUE
    Nobody = Nobody
SPECIFICATION FairSpec
INVARIANTS QuiescentClosed
PROPERTIES ImplementsLifecycle CancelSettles OrphanCleared
CHECK_DEADLOCK FALSE
