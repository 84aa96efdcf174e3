CONSTANTS
    ChunkDataSize = 2
    PreferredChunkSize = 5
    MaxChunkBytes = 5
    Sizes = {0, 13}
    FileSizes = {0, 12, 13, 14}
    RelayMaxes = {0, 1, 9}
    WindowAds = {0, 5, 12}
    Patient = TRUE
SPECIFICATION Spec
CHECK_DEADLOCK FALSE
INVARIANTS
    WindowRespected
    NeverStuck
    WholeFile
    NeverOutOfRange
    InboundOneVerdict
PROPERTIES
    Settles
    Completes
