SPECIFICATION Spec
CONSTANTS
    w1 = w1
    w2 = w2
    w3 = w3
    r1 = r1
    e1 = e1
    c1 = c1
    c2 = c2
    old = old
    Writers = {w1, w2}
    Readers = {r1}
    Evictors = {e1}
    Recoverers = {}
    Old = old
    Contract <- TwoContracts
    Length <- EqualLengths
    Trusting = {}
    InitialEntry = {"none", "intact", "corrupt"}
    MaxCrashes = 0
    Quiet = FALSE
INVARIANTS
    TypeOK
    HitsAreWhole
    PublishedIsOwn
    LeaseExclusive
    OneReplacementVisible
