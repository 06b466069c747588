SPECIFICATION FairSpec
CONSTANTS
    N = 3
    Workers = 1
    Depth = 1
    Lookahead = 3
    Limit <- SmallLimit
    Plans <- CancelPlans
    MayCancel = TRUE
PROPERTIES
    PlainTerminates
    CancelReturns
