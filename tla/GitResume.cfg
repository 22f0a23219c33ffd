CONSTANTS
    History <- OneRevision
    Fingerprint <- OnePack
    Loose = {}
    Secret = {2}
    Corrupt = {}
    Interval = 10
    Atomic = TRUE
    None = None
    MaxFaults = 1

SPECIFICATION Spec
INVARIANT FindingsDelivered
