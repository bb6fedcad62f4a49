CONSTANTS
    e0 = e0
    e1 = e1
    e2 = e2
    e3 = e3
    Errors = {e0, e1, e2, e3}
    Nil = Nil
    MaxInt = 7
    MaxDepth = 6
    Requests <- CyclicRequests
SPECIFICATION Spec
INVARIANTS
    NothingBelowItself
CHECK_DEADLOCK FALSE
