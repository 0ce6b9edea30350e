SPECIFICATION Spec
CONSTANTS
    CHUNK_SIZE = 2
    Byte <- MCByte
    Threads = {t1}
    NoThread = NoThread
    Chunks <- MCChunks
    Buffers <- MCBuffers
    Offsets <- MCOffsets
    Sizes <- MCSizes
    Faults <- MCWriteFaults
PROPERTY TruncationVerifiesTail
