CONSTANTS
    c1 = c1
    c2 = c2
    c3 = c3
    h1 = h1
    h2 = h2
    h3 = h3
    h4 = h4
    x1 = x1
    Files <- TwoFiles
    Contexts = 1
    Seeds <- OneContext
    Parents <- OneChain
    SeedLimit = 1
    MaxPending = 2
    MaxDepth = 1
    MaxFaults = 1
SPECIFICATION FairSpec
CONSTRAINT FewHyps
INVARIANTS TerminalClosed TurnSettled QueueBounded AskedOnce
PROPERTIES TurnReturns CompletesUnlessFull
CHECK_DEADLOCK FALSE
