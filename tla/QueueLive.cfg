\* Token and time ceilings: no blind or unbounded spending, and every call returns.
CONSTANTS
    Tasks = {t1, t2}
    MaxCalls = 4
    Reserve = 2
    MaxRetries = 1
    MaxTokens = 1
    MaxElapsed = 2
    MaxUse = 1
    Unlimited = Unlimited
    Nobody = Nobody
SPECIFICATION FairSpec
INVARIANTS NoBlindCall SpendBounded
PROPERTIES CallReturns
CHECK_DEADLOCK FALSE
