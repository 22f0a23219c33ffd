SPECIFICATION LeaseFairSpec
CONSTANTS
    Worker = {w1}
    NoWorker = NoWorker
    N = 3
    Capacity = 1
    MaxClaims = 2
    MaxFaults = 1
    MaxSeq = 4
INVARIANTS GapsHaveACause UncertainNeverAdvances
PROPERTIES ImplementsDurableScan LeaseEnds
CHECK_DEADLOCK FALSE
