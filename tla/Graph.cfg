SPECIFICATION Spec
CONSTANTS
    MaxWord = 40
    Registered <- MCRegistered
    Packed = "packed"
    Rows = "rows"
    InputFacts <- MCInputFacts
    Operations <- MCOperations
    MaxInputs = 2
    MaxSize = 4
INVARIANTS FactsAddressStorage OutputIsMeaning AccountingExact NoInternalError StaticAliasHonoured EstimateBoundsOwnedOutput
CHECK_DEADLOCK FALSE
