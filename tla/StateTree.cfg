CONSTANTS
    Vacant = Vacant
    NoActor = NoActor
    MaxId = 2
    FirstId = 2
    Addresses = {a1, a2}
    States = {s1, s2}
    MaxDepth = 2
    MaxHistory = 4
SPECIFICATION Spec
INVARIANTS
    ResolveCoherent
    CleanIsPersisted
    RollbackIsLoop
PROPERTIES
    ImplementsStore
CHECK_DEADLOCK FALSE
