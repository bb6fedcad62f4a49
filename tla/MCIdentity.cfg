CONSTANTS
    Nil = Nil
    Nothing = Nothing
    Kinds = {"not_found"}
    Keys = {"id"}
    Settings <- MixedSettings
    MaxDefinitions = 3
    MaxObjects = 4
    MaxCauses = 2
SPECIFICATION Spec
INVARIANTS
    MatchesByOrigin
    NoFalseMatch
    CausesStayFound
    ExtractorsAgree
CHECK_DEADLOCK FALSE
