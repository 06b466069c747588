SPECIFICATION Spec
CONSTANTS
    MaxWord = 40
    Absent = Absent
    Sessions = {s1, s2}
    Requests <- MCRequests
    Limits <- MCLimits
    MaxWorkItems = 2
    MaxTampering = 1
SYMMETRY Symmetry
INVARIANTS DeliveredIsFresh AddressesDetermineBytes ReservationCovers PreparedNeverGrows  PlanIsCanonical SharedOnlyWhenTied
CHECK_DEADLOCK FALSE
