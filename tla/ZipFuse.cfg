\* All archives of up to three entries are mounted; the files and directories
\* of one larger archive are opened and read.
SPECIFICATION Spec
CONSTANTS
    h1 = h1
    h2 = h2
    DEFAULT_DIR_MODE = 5
    NO_MODE = NO_MODE
    Archives <- MCArchives
    Browsed <- MCOneArchive
    Handles = {h1, h2}
    ReadSizes = {1, 2}
    MaxOpenCount = 3
INVARIANTS
    TypeOK
    PathsResolve
    InodesFormTree
    DirectoryModes
    OpenHandlesServed
    PiecesMakeTheWhole
\* Open counts do not come down once two opens overlapped: at MaxOpenCount
\* the model stops opening.
CHECK_DEADLOCK FALSE
