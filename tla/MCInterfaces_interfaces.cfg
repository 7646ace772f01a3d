SPECIFICATION Spec
CONSTANTS
    Allocs = {a1, a2}
    Names = {n1}
    MaxPids = 3
    MaxKeys = 5
    NoAlloc = NoAlloc
CHECK_DEADLOCK FALSE
INVARIANT OneCapture
INVARIANT Stoppable
INVARIANT NothingOfOthers
INVARIANT PairsMatch
