CONSTANTS
    Works = {w1}
    Procs = {p1, p2}
    MaxParallel = 1
    MaxRetries = 1
    MaxAttempts = 2
    MaxCalls = 2
    Local = FALSE
    Repairs = 0
    Dynamic = {}
    First = w1
    MaxRows = 2
    MaxCrashes = 1
    Stalls = TRUE
    Cancels = FALSE
    Nobody = Nobody
SYMMETRY ProcSymmetry
CONSTRAINT FewAborts
SPECIFICATION Spec
INVARIANTS RowsAgree NoBlindRetry OneOutcome
CHECK_DEADLOCK FALSE
