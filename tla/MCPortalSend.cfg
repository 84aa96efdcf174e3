CONSTANTS
    ChunkDataSize = 2
    PreferredChunkSize = 2
    Sizes = {0, 15}
    WindowBytes = {0, 12}
    OtherTransfers = FALSE
SPECIFICATION Spec
CHECK_DEADLOCK FALSE
INVARIANTS
    WindowRespected
    NeverStarved
    DoneIsComplete
    AbortHasCause

    
