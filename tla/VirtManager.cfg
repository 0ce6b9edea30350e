SPECIFICATION FairSpec
CONSTANTS
    c1 = c1
    c2 = c2
    Clients = {c1, c2}
    DebugAllowed = {c1}
    FIRST_GUEST_CID = 10
    MaxCid = 12
    MaxRestarts = 1
    MaxVms = 2
INVARIANTS
    TypeOK
    CidsUnique
    KilledOnlyWhenUnwanted
    ReferencedVmsListed
PROPERTIES
    UnreferencedVmsEnd
    RegisteredWaitersReturn
CHECK_DEADLOCK FALSE
