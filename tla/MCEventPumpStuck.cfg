CONSTANTS
    EventBuffer = 1
    WriteBuffer = 1
    Chunks = 1
    Starts <- Receiving
SPECIFICATION Spec
CHECK_DEADLOCK FALSE
PROPERTIES
    ReaderGoesOn
