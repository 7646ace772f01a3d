SPECIFICATION Spec
CONSTANTS
    w1 = w1
    w2 = w2
    cleaner = cleaner
    t1 = t1
    t2 = t2
    Workers = {w1}
    Cleaner = cleaner
    Targets = {t1, t2}
    Allocs <- TwoAllocs
    Groups <- AltGroups
    Prio <- SamePrio
    Preempt <- Nobody
    Queue <- OnlyFirst
    Removers = {w1}
    Releases = FALSE
    Timeouts = FALSE
    MaxCrashes = 0
    MaxClock = 0
    NoAlloc = NoAlloc
    NoTarget = NoTarget
    NoProc = NoProc
INVARIANT ActiveOwnsGroup
PROPERTY Implements
PROPERTY FirstGroupKept
