CONSTANTS
    k1 = k1
    k2 = k2
    v1 = v1
    v2 = v2
    Foreign = Foreign
    Nil = Nil
    NotSet = NotSet
    Kinds = {"not_found"}
    Keys = {k1, k2}
    Values = {v1, v2}
    Goroutines = {1}
    Options <- MCOptions
    OptionLists <- MixedLists
    MaxContexts = 2
    MaxDefs = 3
    MaxErrors = 1
    MaxJoin = 2
SPECIFICATION Spec
PROPERTIES
    ImplementsTemplates
CHECK_DEADLOCK FALSE
