SPECIFICATION EtcdSpec
CONSTANTS
    Worker = {w1, w2}
    NoWorker = NoWorker
    Ops = {o1, o2}
    OpId <- MCOpId
    ShardId <- MCShardId
    NoShard = NoShard
    Derive <- MCDerive
    Reason = {r1}
    NoReason = NoReason
    K = 1
    LeaseDuration = 2
    MaxTime = 3
    MaxFence = 3
    OpLogCap = 2
    MaxSpawned = 3
    MaxShards = 2
    MaxChildren = 2
    Manifest <- OneRoot
    Client = {c1, c2}
    EtcdLease = {l1, l2}
    NoLease = NoLease
    NoOwner = NoOwner
    Idle = Idle
    CounterKey = CounterKey
    RunKey = RunKey
    Retries = 1
    MaxLost = 1
    MayEnd = TRUE
SYMMETRY Symmetry
INVARIANTS OwnersSound
PROPERTIES ImplementsFenced LiveOwnerKept EndedRunStaysShut
CHECK_DEADLOCK FALSE
