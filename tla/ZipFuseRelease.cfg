SPECIFICATION Spec
CONSTANTS
    h1 = h1
    h2 = h2
    DEFAULT_DIR_MODE = 5
    NO_MODE = NO_MODE
    Archives <- MCOneArchive
    Browsed <- MCOneArchive
    Handles = {h1, h2}
    ReadSizes = {1, 2}
    MaxOpenCount = 3
INVARIANT ClosedBuffersReleased
CHECK_DEADLOCK FALSE
