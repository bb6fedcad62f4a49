CONSTANTS
    e1 = e1
    e2 = e2
    e3 = e3
    Errors = {e1, e2, e3}
    Nil = Nil
    Root = Root
    Addrs <- MCAddrs
    NoAddr = NoAddr
    Absent = Absent
    Graphs <- RegularGraphs
    MaxDepth = 8
SPECIFICATION FairSpec
INVARIANTS
    TypeOK
    TreeComplete
    CycleMarks
PROPERTIES
    Terminates
CHECK_DEADLOCK FALSE
