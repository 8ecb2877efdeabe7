CONSTANTS
    Vacant = Vacant
    None = None
    InitActor = 1
    BurntFunds = 2
    Users = {3, 4}
    Origin = 3
    MaxId = 4
    KeyAddresses = {}
    EthAddresses = {}
    OtherAddresses = {}
    Codes = {c}
    Roots = {}
    EmptyRoot = r
    Values = {0, 1}
    Total = 1
    Starts <- MCStarts
    MaxCallDepth = 2
    MaxMemory = 0
    Growths = {}
    MaxEvents = 0
    MaxCharges = 7
    Recipients = {3, 4}
    CallFlags <- MCCallFlags
SPECIFICATION Spec
INVARIANTS
    NeverFatal
CHECK_DEADLOCK FALSE
