\* Crashes, timeouts, late spawns and confirmations, without a token ceiling.
CONSTANTS
    Tasks = {t1, t2}
    MaxCalls = 2
    Reserve = 1
    MaxRetries = 1
    MaxTokens = Unlimited
    MaxElapsed = Unlimited
    MaxUse = 1
    Unlimited = Unlimited
    Nobody = Nobody
SYMMETRY TaskSymmetry
SPECIFICATION Spec
INVARIANTS TypeOK NotSpawnedTruthful StoppedBeforeSettled OneChild
           RetryableMeansSettled
PROPERTIES SettledFrozen
CHECK_DEADLOCK FALSE
