CONSTANTS
    Peers = {p1, p2}
    Addrs = {ip1}
    Conns = {c1, c2, c3}
    LastPeer = NoPeer
    LastConn = NoConn
    NoConn = NoConn
    NoPeer = NoPeer
SPECIFICATION Spec
SYMMETRY Symmetry
CHECK_DEADLOCK FALSE
PROPERTY FriendshipSurvivesReconnect
