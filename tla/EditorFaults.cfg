SPECIFICATION Spec
CONSTANTS
    CHUNK_SIZE = 2
    Byte <- MCByte
    Threads = {t1, t2}
    NoThread = NoThread
    Chunks <- MCChunks
    Buffers <- MCBuffers
    Offsets <- MCOffsets
    Sizes <- MCSizes
    Faults <- MCFaults
SYMMETRY Symmetry
INVARIANTS
    TypeOK
    AcknowledgedChunksVerify
    TreeWithinSize
