CONSTANTS
    History <- MovingRevisions
    Fingerprint <- MovingPacks
    Loose = {2}
    Secret = {1, 2}
    Corrupt = {}
    Interval = 10
    Atomic = TRUE
    None = None
    MaxFaults = 1

SPECIFICATION Spec
INVARIANT NothingHidden
