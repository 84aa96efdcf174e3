CONSTANTS
    ChunkDataSize = 2
    PreferredChunkSize = 2
    Sizes = {0, 15}
    WindowBytes = {0, 12}
    OtherTransfers = TRUE
SPECIFICATION Spec
CHECK_DEADLOCK FALSE
INVARIANT AbortHasCause
