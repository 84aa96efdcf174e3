CONSTANTS
    MaxFrames = 3
SPECIFICATION Spec
CHECK_DEADLOCK FALSE
INVARIANTS
    TimerSparesTheServed
    NoOrphanSocket
    ClosedIsShown
PROPERTIES
    Settles
    StreamSpec
