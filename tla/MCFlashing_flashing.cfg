SPECIFICATION FairSpec
CONSTANTS
    Owner = owner
    Reader = reader
    NoPid = nopid
    ReEnable = TRUE
    MaxGen = 2
    MaxLen = 1
    MaxOps = 1
    MaxFaults = 1
    Flashers = {f1}
    Images = {i1}
    Retries = 1
    Looks = 2
    NoImage = none
    Torn = torn
INVARIANT NothingMissed
INVARIANT RunningIsRecorded
INVARIANT SuccessMeansFlashed
INVARIANT NoFlasherLeft
PROPERTY ConsoleBack
PROPERTY RevivedWhenRead
PROPERTY FlashEnds
