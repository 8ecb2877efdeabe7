CONSTANTS
    Vacant = Vacant
    None = None
    InitActor = 1
    BurntFunds = 2
    Users = {3, 4}
    Origin = 3
    MaxId = 4
    KeyAddresses = {}
    EthAddresses = {}
    OtherAddresses = {}
    Codes = {c1, c2}
    Roots = {}
    EmptyRoot = r0
    Values = {0}
    Total = 0
    Starts <- MCStarts
    MaxCallDepth = 4
    MaxMemory = 0
    Growths = {}
    MaxEvents = 1
    MaxCharges = 3
    Recipients = {3, 4}
    CallFlags <- MCCallFlags
SPECIFICATION Spec
INVARIANTS
    InStep
    ReadOnlyChangesNothing
    UpdatesCharged
PROPERTIES
    NoUpgradeBeneathCalls
    CallsAreTransactions
CHECK_DEADLOCK FALSE
