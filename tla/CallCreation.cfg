CONSTANTS
    Vacant = Vacant
    None = None
    InitActor = 1
    BurntFunds = 2
    Users = {3}
    Origin = 3
    MaxId = 4
    KeyAddresses = {k}
    EthAddresses = {e}
    OtherAddresses = {}
    Codes = {c}
    Roots = {r}
    EmptyRoot = r
    Values = {0, 1}
    Total = 1
    Starts <- MCStarts
    MaxCallDepth = 3
    MaxMemory = 2
    Growths = {1}
    MaxEvents = 0
    MaxCharges = 5
    Recipients = {1, k, e}
    CallFlags <- MCCreationFlags
SPECIFICATION Spec
INVARIANTS
    ValueConserved
    MemoryCovered
PROPERTIES
CHECK_DEADLOCK FALSE
