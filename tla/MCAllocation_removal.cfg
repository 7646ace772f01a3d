SPECIFICATION Spec
CONSTANTS
    w1 = w1
    w2 = w2
    cleaner = cleaner
    t1 = t1
    t2 = t2
    Workers = {w1}
    Cleaner = cleaner
    Targets = {t1}
    Allocs <- ThreeAllocs
    Groups <- AllOneTarget
    Prio <- AllSamePrio
    Preempt <- Nobody
    Queue <- Everybody
    Removers = {cleaner}
    Releases = FALSE
    Timeouts = FALSE
    MaxCrashes = 0
    MaxClock = 1
    NoAlloc = NoAlloc
    NoTarget = NoTarget
    NoProc = NoProc
PROPERTY DeleteKeepsNewOwner
PROPERTY FirstComeFirstServed
