SPECIFICATION LeaseSpec
CONSTANTS
    Worker = {w1, w2}
    NoWorker = NoWorker
    N = 1
    Capacity = 1
    MaxClaims = 2
    MaxFaults = 0
    MaxSeq = 3
SYMMETRY Symmetry
INVARIANTS CompletedOnce NoItemSkipped
CHECK_DEADLOCK FALSE
