SPECIFICATION Spec
CONSTANTS
    none = none
    v1 = v1
    v2 = v2
    u1 = u1
    u2 = u2
    Parts <- AllParts
    Keys <- Fields
    Values = {v1, v2}
    Odd <- OddParts
    Calls <- SomeCalls
    Absent = none
    Writers = {u1, u2}
    MaxCalls = 4
    MaxCrashes = 1
SYMMETRY Symmetric
PROPERTY OnlyConflictsRemoved
PROPERTY CallTakesEffect
CHECK_DEADLOCK FALSE
