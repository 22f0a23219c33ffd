SPECIFICATION StandaloneSpec
CONSTANTS
    N = 4
    Wrap = 8
    BatchMax = 4
    MaxPush = 18
    Total = 3
    Threads = {t1, t2, t3}
    Permits = {p1, p2, p3}
    Releasers = 2
    Jobs = {j1, j2, j3}
    RingTotal = 2
    CacheTotal = 3
    SpillTotal = 1
    Requests <- SmallRequests
    Keys = {"k", "l"}
    Offers <- SomeOffers
    MaxBatch = 2
    MaxOps = 2
INVARIANTS RingSafe BudgetSafe PoolSafe LedgerSafe
PROPERTIES ImplementsFifo
CHECK_DEADLOCK FALSE
