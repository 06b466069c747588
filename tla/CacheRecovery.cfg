SPECIFICATION Spec
CONSTANTS
    w1 = w1
    w2 = w2
    w3 = w3
    r1 = r1
    e1 = e1
    c1 = c1
    c2 = c2
    old = old
    Writers = {w1}
    Readers = {r1}
    Evictors = {}
    Recoverers = {c1, c2}
    Old = old
    Contract <- TwoContracts
    Length <- EqualLengths
    Trusting = {}
    InitialEntry = {"intact"}
    MaxCrashes = 1
    Quiet = FALSE
INVARIANTS
    OneReplacementVisible
PROPERTIES
    NothingLost
