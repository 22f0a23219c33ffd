SPECIFICATION Spec
CONSTANTS
    Worker = {w1}
    NoWorker = NoWorker
    Ops = {o1, o2}
    OpId <- MCOpId
    ShardId <- MCShardId
    NoShard = NoShard
    Derive <- MCDerive
    Reason = {}
    NoReason = NoReason
    K = 3
    LeaseDuration = 1
    MaxTime = 2
    MaxFence = 2
    OpLogCap = 1
    MaxSpawned = 3
    MaxShards = 4
    MaxChildren = 3
    Manifest <- OneRoot
SYMMETRY Symmetry
INVARIANTS RangesSound StructuralOnce LineageSound
CHECK_DEADLOCK FALSE
