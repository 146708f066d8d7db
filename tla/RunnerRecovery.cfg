\* Every failure of the initial verification, the PoC execution and the final
\* verdict, recovered or granted, with a crash or a stage version bump.
CONSTANTS
    MaxRecovery = 2
    Codex = TRUE
    GateDecisions <- JustAccept
    FailStages = {2, 4, 5}
    FailKinds <- AllFailures
    MaxFailures = 2
    MaxFaults = 1
    MaxUpgrades = 1
    MaxGrants = 1
SPECIFICATION Spec
INVARIANTS TypeOK AttemptsBounded Frontier InputsCurrent EnvironmentCurrent
           OutcomeTruthful RunningFresh
PROPERTIES PocSticky
CONSTRAINT FewEvents
