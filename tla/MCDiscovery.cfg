CONSTANTS
    Peers = {p1, p2, p3}
    Conns = {c1, c2, c3}
    NoPeer = NoPeer
    NoConn = NoConn
SPECIFICATION Spec
CHECK_DEADLOCK FALSE
INVARIANTS
    SnapshotIsBacked
    NobodyMissing
PROPERTY EveryHandlerProceeds
