CONSTANTS
    k1 = k1
    k2 = k2
    v1 = v1
    v2 = v2
    Foreign = Foreign
    Nil = Nil
    NotSet = NotSet
    Kinds = {"not_found"}
    Keys = {k1, k2}
    Values = {v1, v2}
    Goroutines = {1, 2}
    Options <- MCOptions
    OptionLists <- FieldLists
    MaxContexts = 2
    MaxDefs = 3
    MaxErrors = 2
    MaxJoin = 1
SPECIFICATION Spec
INVARIANTS
    TypeOK
    WritersPrivate
    FieldOrder
    RootsAreDefined
PROPERTIES
    PublishedImmutable
    ErrorsImmutable
CHECK_DEADLOCK FALSE
