CONSTANTS
    Requests = {p1, p2, p3}
    Inputs <- MCInputs
    Seed <- MCSeed
    GeneratedIds = {g}
    Failing = FALSE
    MaxPanics = 1
    None = None
    p1 = p1
    p2 = p2
    p3 = p3
    alice = alice
    bob = bob
    carol = carol
    h = h
SPECIFICATION FairSpec
INVARIANTS
    ApiTypeOK
    EmailsUnique
    EffectAsTold
PROPERTIES
    SharedUsersUnchanged
    EveryRequestAnswered
    ImplementsUserService
CHECK_DEADLOCK FALSE
