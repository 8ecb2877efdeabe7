CONSTANTS
    MaxGas = 7
    Precision = 2
    GasLimits = {1, 3, 7}
    CallLimits = {0, 2, 15}
    HostCharges = {0, 1, 15}
    HostCallCost = 1
    ExecCosts = {1, 3}
    MaxCallDepth = 3
SPECIFICATION Spec
INVARIANTS
    ExecChargedOnce
CHECK_DEADLOCK FALSE
