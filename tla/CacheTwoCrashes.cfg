SPECIFICATION Spec
CONSTANTS
    w1 = w1
    w2 = w2
    w3 = w3
    r1 = r1
    e1 = e1
    c1 = c1
    c2 = c2
    old = old
    Writers = {w1, w2}
    Readers = {}
    Evictors = {}
    Recoverers = {c1}
    Old = old
    Contract <- TwoContracts
    Length <- EqualLengths
    Trusting = {}
    InitialEntry = {"intact"}
    MaxCrashes = 2
    Quiet = TRUE
PROPERTIES
    NothingLost
