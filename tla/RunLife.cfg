SPECIFICATION RunSpec
CONSTANTS
    Worker = {w1}
    NoWorker = NoWorker
    Ops = {o1, o2}
    OpId <- MCOpId
    ShardId <- MCShardId
    NoShard = NoShard
    Derive <- MCDerive
    Reason = {r1}
    NoReason = NoReason
    K = 2
    LeaseDuration = 1
    MaxTime = 2
    MaxFence = 3
    OpLogCap = 1
    MaxSpawned = 2
    MaxShards = 3
    MaxChildren = 2
    Manifest <- OneRoot
    Offered <- OfferedOne
    RunOpLogCap = 2
    ClaimCooldown = 2
SYMMETRY Symmetry
INVARIANTS RunSound
PROPERTIES AllDoneIsFinal RunEndIsFinal ProtocolSpec
CHECK_DEADLOCK FALSE
