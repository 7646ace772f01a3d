SPECIFICATION Spec
CONSTANTS
    p1 = p1
    p2 = p2
    t1 = t1
    t2 = t2
    a1 = a1
    a2 = a2
    Procs = {p1, p2}
    Removers = {p1}
    Targets = {t1, t2}
    Allocs = {a1, a2}
    Groups <- EitherThenOne
    Urgent = {a2}
    Releases = TRUE
    Hooks = {"things", "capture"}
    Properties = "properties"
    MaxFaults = 1
    MaxUses = 1
    NoAlloc = NoAlloc
    NoProc = NoProc
PROPERTY FreshClean
PROPERTY InUseKept

