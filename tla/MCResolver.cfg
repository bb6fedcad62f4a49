CONSTANTS
    d1 = d1
    d2 = d2
    d3 = d3
    Definitions = {d1, d2, d3}
    Kinds = {"not_found", "internal", "unknown"}
    Keys = {"status"}
    Values = {404, 500, 503}
    kind <- MCKind
    field <- MCField
    NotSet = NotSet
    Nil = Nil
    MaxSlices = 1
    MaxLength = 3
    MaxResolvers = 2
SPECIFICATION Spec
INVARIANTS
    ResolverTypeOK
    FirstWins
CHECK_DEADLOCK FALSE
