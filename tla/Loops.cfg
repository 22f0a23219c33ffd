SPECIFICATION LoopsSpec
CONSTANTS
    WorkerCount = 2
    Producers = {p1}
    Tasks = {t1, t2}
    HoardThreshold = 1
    MayShutdown = TRUE
    MayPanic = TRUE
    MaxSeq = 4
    Start = 0
    MaxBuffered = 2
    Offered <- AnyReceipt
    ClaimShards = {1, 2}
    ClaimWorkers = {0, 1, 2}
    Steady = 0
    LeaseTicks = 2
    CooldownTicks = 3
    MaxPartial = 1
INVARIANTS ExecSafe AggSafe
PROPERTIES JoinReturns SpawnedRuns PendingHeld AggregatorProgress ClaimsSettle
CHECK_DEADLOCK FALSE
