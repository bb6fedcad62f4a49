CONSTANTS
    Numbers <- MCNumbers
    Highest <- MCHighest
    Round64 <- MCRound64
    Round32 <- MCRound32
    MaxFloat32 = 96
    NaN = NaN
    Infinite = Infinite
    None = None
    Redacted = Redacted
    Requests <- MCLenientRequests
SPECIFICATION Spec
INVARIANTS
    SentinelsAlwaysRestored
CHECK_DEADLOCK FALSE
