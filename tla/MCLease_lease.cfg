SPECIFICATION FairSpec
CONSTANTS
    Clients = {c1, c2}
    Daemon = daemon
    Nobody = nobody
    Urgent = {c2}
    EndTimes <- MayBeStatic
    NoEnd = NoEnd
    Static = static
    c1 = c1
    c2 = c2
    MaxIdle = 1
    IdleOff = 1
    IdleFullyOff = 2
    SleepPeriod = 1
    ScanMax = 1
    Minute = 1
    Day = 5
    Queues = {c1}
    Impatient = {c1}
    Lossy = {c1}
    Period = 1
    RetryTimeout = 1
INVARIANT ReclaimedInTime
PROPERTY KeptAlive
PROPERTY PoweredOffIdle
PROPERTY WaitersServed
