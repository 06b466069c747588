SPECIFICATION FairSpec
CONSTANTS
    N = 3
    Workers = 2
    Depth = 1
    Lookahead = 2
    Limit <- SmallLimit
    Plans <- SafetyPlans
    MayCancel = TRUE
INVARIANTS
    TypeOK
    WithinLimits
    PermitsConserved
    SpeculationBounded
    PendingBounded
    OutputsCharged
    ReleasedOnReturn
    DeterministicOutcome
    CancelledOnlyIfRequested
PROPERTIES
    SequentialDelivery
    Terminates
