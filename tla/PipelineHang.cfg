SPECIFICATION FairSpec
CONSTANTS
    N = 2
    Workers = 1
    Depth = 1
    Lookahead = 2
    Limit <- SmallLimit
    Plans <- MissBeforePlain
    MayCancel = FALSE
PROPERTY
    Terminates
CHECK_DEADLOCK FALSE
