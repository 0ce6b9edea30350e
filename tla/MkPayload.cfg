SPECIFICATION PayloadSpec
CONSTANTS
    Paths = {"a", "s", "k"}
    Links = {"s"}
    Sizes = {2, 3, 8}
    ApexInfo <- MCApexInfo
    Configs <- MCConfigs
    WORD = 7
    SIZEOF = 2
    ALIGN = 4
    MaxRuns = 2
INVARIANTS
    PayloadTypeOK
    SizesRecoverable
    SignatureDescribesDisk
CHECK_DEADLOCK FALSE
