SPECIFICATION Spec
CONSTANTS
    Worker = {w1, w2}
    NoWorker = NoWorker
    Ops = {o1, o2, o3}
    OpId <- MCOpId
    ShardId <- MCShardId
    NoShard = NoShard
    Derive <- MCDerive
    Reason = {r1}
    NoReason = NoReason
    K = 2
    LeaseDuration = 2
    MaxTime = 4
    MaxFence = 3
    OpLogCap = 2
    MaxSpawned = 3
    MaxShards = 2
    MaxChildren = 2
    Manifest <- OneRoot
SYMMETRY Symmetry
INVARIANTS TypeOK LeaseCoherence RetryIsReplayed FencingOK
PROPERTIES TerminalFrozen ImplementsFenced
CHECK_DEADLOCK FALSE
