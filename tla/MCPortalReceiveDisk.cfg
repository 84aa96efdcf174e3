CONSTANTS
    ChunkDataSize = 2
    PreferredChunkSize = 2
    Announced = 5
    Actual = {3, 5, 6, 7}
    WindowBytes = 5
    Disks = {TRUE}
    OtherTransfers = FALSE
    MaxDups = 1
SPECIFICATION Spec
CHECK_DEADLOCK FALSE
PROPERTY CompleteIsNotAborted
