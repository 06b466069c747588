SPECIFICATION Spec
CONSTANTS
    MaxWord = 40
    Registered <- MCRegistered
    Packed = "packed"
    Rows = "rows"
    InputFacts <- MCInputFacts
    Operations <- MCOperations
    MaxInputs = 2
    MaxSize = 4
INVARIANT EstimateBoundsScratch
CHECK_DEADLOCK FALSE
