SPECIFICATION Spec
CONSTANTS
    Fds <- MCFds
    Verity = {3}
    InitLens <- MCInitLens
    ServerArgs <- MCServerArgs
    LocalLen <- MCLocalLen
    LocalVerity = {"a"}
    FsArgs <- MCFsArgs
    MaxLen = 2
    MaxStarts = 4
    MaxHandles = 1
INVARIANTS
    TypeOK
    EditorsKnowTheirFiles
PROPERTIES
    VerifiedFilesUntouched
CHECK_DEADLOCK FALSE
