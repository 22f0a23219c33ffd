SPECIFICATION SplitSpec
CONSTANTS
    Worker = {w1}
    NoWorker = NoWorker
    Ops = {o1}
    OpId <- MCOpId
    ShardId <- MCShardId
    NoShard = NoShard
    Derive <- MCDerive
    Reason = {}
    NoReason = NoReason
    K = 4
    LeaseDuration = 1
    MaxTime = 2
    MaxFence = 2
    OpLogCap = 2
    MaxSpawned = 3
    MaxShards = 3
    MaxChildren = 2
    Manifest <- TwoRoots
    Client = {c1, c2}
    EtcdLease = {l1, l2}
    NoLease = NoLease
    NoOwner = NoOwner
    Idle = Idle
    CounterKey = CounterKey
    RunKey = RunKey
    Retries = 2
    MaxLost = 0
    MayEnd = FALSE
SYMMETRY Symmetry
INVARIANTS DerivedKeysExact
CHECK_DEADLOCK FALSE
