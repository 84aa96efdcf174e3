CONSTANTS
    Peers = {p1, p2, p3, p4}
    Addrs = {ip1, ip2}
    Conns = {c1, c2, c3, c4}
    LastPeer = p4
    LastConn = c4
    NoConn = NoConn
    NoPeer = NoPeer
SPECIFICATION Spec
SYMMETRY Symmetry
CONSTRAINT Bounded
CHECK_DEADLOCK FALSE
INVARIANTS
    OneInviteInFlight
    NoStrandedQueue
    NoInviteBetweenFriends
    GoneAreForgotten
PROPERTIES
    NoSilentDrop
    NoOvertaking
