CONSTANTS
    Me = me
    Them = {bob}
    Addrs = {lan}
    Conns = {c1, c2}
    NoConn = NoConn
    NoPeer = NoPeer
    MyConn = c1
    MaxJoins = 2
    MaxAir = 3
    MaxQueued = 2
SPECIFICATION Spec
CHECK_DEADLOCK FALSE
INVARIANTS
    KeysOfFriendsOnly
    InvitesAreOpen
    AgreeAtRest
