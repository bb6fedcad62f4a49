CONSTANTS
    Goroutines = {g1, g2}
    Paths = {p1, p2}
    Absent = Absent
    MaxCalls = 4
    MaxChanges = 1
SPECIFICATION FairSpec
INVARIANTS
    OffOnlyForGood
    CachedWhole
    ReadsBounded
PROPERTIES
    StaysReadable
    CallsReturn
CHECK_DEADLOCK FALSE
