SPECIFICATION Spec
CONSTANTS
    CHUNK_SIZE = 2
    HASH_SIZE = 1
    Byte <- MCByte
    Versions <- MCVersions
    Requests <- MCRequests
    should_allow = TRUE
INVARIANTS
    TypeOK
    DeliversPinnedVersion
    FaithfulRepliesSucceed
    DigestsAgree
CHECK_DEADLOCK FALSE
