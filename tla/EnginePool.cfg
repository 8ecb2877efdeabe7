CONSTANTS
    t1 = t1
    t2 = t2
    t3 = t3
    t4 = t4
    t5 = t5
    Threads = {t1, t2, t3, t4, t5}
    Concurrency = 3
    MaxCallDepth = 2
    ExpectedStackDepth = 1
    MaxInstances = 3
    Workloads <- MCWorkloads
SPECIFICATION FairSpec
INVARIANTS
    LockOwnerCanFinish
PROPERTIES
    AcquireReturns
    TakeReturns
CHECK_DEADLOCK FALSE
