SPECIFICATION FairSpec
CONSTANTS
    c1 = c1
    Clients = {c1}
    DebugAllowed = {c1}
    FIRST_GUEST_CID = 10
    MaxCid = 12
    MaxRestarts = 0
    MaxVms = 1
PROPERTY WaitEndsWithVm
CHECK_DEADLOCK FALSE
