SPECIFICATION FairSpec
CONSTANTS
    w1 = w1
    w2 = w2
    cleaner = cleaner
    t1 = t1
    t2 = t2
    Workers = {w1}
    Cleaner = cleaner
    Targets = {t1}
    Allocs <- TwoAllocs
    Groups <- OneTarget
    Prio <- FirstUrgent
    Preempt <- Everybody
    Queue <- Everybody
    Removers = {cleaner}
    Releases = TRUE
    Timeouts = TRUE
    MaxCrashes = 1
    MaxClock = 0
    NoAlloc = NoAlloc
    NoTarget = NoTarget
    NoProc = NoProc
PROPERTY OrphansFreed
PROPERTY FreeTargetsServed
INVARIANT TypeOK
INVARIANT ExclusiveSections
PROPERTY EvictsLessUrgent
