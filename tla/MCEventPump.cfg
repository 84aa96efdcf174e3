CONSTANTS
    EventBuffer = 1
    WriteBuffer = 1
    Chunks = 1
    Starts <- Each
SPECIFICATION Spec
CHECK_DEADLOCK FALSE
INVARIANTS
    DisconnectedOnce
    OffersAreLive
PROPERTIES
    EventsInOrder
    StopsWhenCancelled
    HandlersEnd
    EventsAreSeen
