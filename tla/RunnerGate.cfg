\* Every Technical Gate decision, with failures of the PoC execution and of the gate; every
\* resume returns.
CONSTANTS
    MaxRecovery = 2
    Codex = TRUE
    GateDecisions <- AllGates
    FailStages = {4, 7}
    FailKinds = {"TRANSIENT"}
    MaxFailures = 12
    MaxFaults = 0
    MaxUpgrades = 0
    MaxGrants = 0
SPECIFICATION FairSpec
INVARIANTS RevisionsBounded TerminalLast ReportClosure
PROPERTIES ResumeReturns
