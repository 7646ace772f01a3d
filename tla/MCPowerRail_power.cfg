SPECIFICATION FairSpec
CONSTANTS
    Workers = {w1}
    Users = {alice}
    RailLength = 4
    Explicit <- ServerRail
    Reads = {1, 2, 3}
    Recovers = {2}
    RetriesAll = {3}
    OffOnRelease = {4}
    Faulty = {1, 2, 3, 4}
    NoUser = NoUser
PROPERTY RailOrder
PROPERTY ReverseOrder
PROPERTY OnDelivers
PROPERTY ExplicitLeftAlone
PROPERTY OperationsEnd
