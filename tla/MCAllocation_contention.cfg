SPECIFICATION Spec
CONSTANTS
    w1 = w1
    w2 = w2
    cleaner = cleaner
    t1 = t1
    t2 = t2
    Workers = {w1, w2}
    Cleaner = cleaner
    Targets = {t1, t2}
    Allocs <- TwoAllocs
    Groups <- OneOfTwo
    Prio <- SamePrio
    Preempt <- Nobody
    Queue <- Everybody
    Removers = {}
    Releases = FALSE
    Timeouts = FALSE
    MaxCrashes = 0
    MaxClock = 0
    NoAlloc = NoAlloc
    NoTarget = NoTarget
    NoProc = NoProc
SYMMETRY Symmetric
INVARIANT PlaceKept
INVARIANT NoMissedActivation
PROPERTY Implements
