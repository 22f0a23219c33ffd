CONSTANTS
    History <- Revisions
    Fingerprint <- Packs
    Loose = {6}
    Secret = {1, 2, 4, 6}
    Corrupt = {5}
    Interval = 2
    Atomic = FALSE
    None = None
    MaxFaults = 2
SPECIFICATION FairSpec
INVARIANTS StoreSound WatermarkCovered LossesAccounted
PROPERTIES ShardSettles
