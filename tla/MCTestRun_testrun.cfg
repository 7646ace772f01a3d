SPECIFICATION FairSpec
CONSTANTS
    Methods <- MCMethods
    Serial <- MCSerial
    Parallel <- MCParallel
    Isolated <- MCIsolated
    Repeats = 2
    Plans <- MCPlans
    Ways = {"passed", "failed"}
    MaxPosts = 1
    MayInterrupt = TRUE
CHECK_DEADLOCK FALSE
INVARIANT FailureCounts
INVARIANT HeldWhileUsed
PROPERTY RunEnds
