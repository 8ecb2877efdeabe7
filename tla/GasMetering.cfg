CONSTANTS
    MaxGas = 7
    Precision = 2
    GasLimits = {1, 3, 7}
    CallLimits = {0, 2, 15}
    HostCharges = {0, 1, 15}
    HostCallCost = 1
    ExecCosts = {1, 3}
    MaxCallDepth = 3
SPECIFICATION FairSpec
INVARIANTS
    BooksBalance
    LimitsNest
    ReceiptWithinLimit
    CountersExact
    OutOfGasIsEmpty
PROPERTIES
    MessageEnds
CHECK_DEADLOCK FALSE
