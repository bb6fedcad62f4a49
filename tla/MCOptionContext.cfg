CONSTANTS
    o1 = o1
    o2 = o2
    o3 = o3
    Options <- MCOptions
    OptionLists <- MCOptionLists
    MaxContexts = 5
SPECIFICATION CtxSpec
INVARIANTS
    ChildExtendsParent
PROPERTIES
    ContextsImmutable
CHECK_DEADLOCK FALSE
