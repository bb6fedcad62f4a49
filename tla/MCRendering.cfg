CONSTANTS
    e0 = e0
    e1 = e1
    e2 = e2
    e3 = e3
    Errors = {e0, e1, e2, e3}
    Nil = Nil
    MaxInt = 7
    MaxDepth = 6
    Requests <- MCRequests
SPECIFICATION FairSpec
INVARIANTS
    EveryCauseShown
    DepthFirst
    ShownAsAsked
    SourcesExact
PROPERTIES
    RenderingEnds
CHECK_DEADLOCK FALSE
