CONSTANTS
    c1 = c1
    c2 = c2
    c3 = c3
    h1 = h1
    h2 = h2
    h3 = h3
    h4 = h4
    x1 = x1
    Files <- OneFile
    Contexts = 0
    Seeds <- NoContext
    Parents <- OneChain
    SeedLimit = 1
    MaxPending = 2
    MaxDepth = 1
    MaxFaults = 1
SPECIFICATION FairSpec
PROPERTIES Completes
CHECK_DEADLOCK FALSE
