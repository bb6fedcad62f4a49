CONSTANTS
    Numbers <- MCNumbers
    Highest <- MCHighest
    Round64 <- MCRound64
    Round32 <- MCRound32
    MaxFloat32 = 96
    NaN = NaN
    Infinite = Infinite
    None = None
    Redacted = Redacted
    Requests <- MCRequests
SPECIFICATION Spec
INVARIANTS
    NothingLost
    NumbersKept
    UnknownExactly
    CausesKept
    InternalExactly
CHECK_DEADLOCK FALSE
