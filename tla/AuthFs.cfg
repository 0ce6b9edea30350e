SPECIFICATION FsSpec
CONSTANTS
    CHUNK_SIZE = 2
    Byte <- MCByte
    Threads = {t1, t2}
    NoThread = NoThread
    Chunks <- MCChunks
    Buffers <- MCBuffers
    Offsets <- MCOffsets
    Sizes <- MCSizes
    Faults = {}
    Readers = {r1}
    ReadSizes = {2, 4}
SYMMETRY Symmetry
INVARIANTS
    QuietSizesAgree
    QuietReadsReturnTree
PROPERTY ImplementsIntegrityFile
