SPECIFICATION Spec
CONSTANTS
    k1 = k1
    k2 = k2
    c1 = c1
    c2 = c2
    c3 = c3
    u1 = u1
    u2 = u2
    Client = {k1, k2}
    Names = {u1, u2}
    NoUser = NoUser
    Unauthorized = Unauthorized
    NoAddr = NoAddr
    NoClient = NoClient
    NoConn = NoConn
    NoSess = NoSess
    Conn = {c1, c2, c3}
    SessId = {s1, s2, s3}
    s1 = s1
    s2 = s2
    s3 = s3
    Family <- Dual
    Subnet <- SubnetDual
    Reserved <- ReservedDual
    Hash <- HashColliding
    Dials <- TwoLanesAndOne
    PeerKey = NoClient
    InitialDB <- Reserved4
    UserLists <- RevokeOther
    Requests <- AskFor2or4
    MaxInFlight = 2
    MayFail = {c3}
    MayIdle = FALSE
    MayStop = FALSE
INVARIANTS
    AddressExclusive
    LaneAgrees
    NoAddressLeak
PROPERTIES
    NoFalseExhaustion
    RespectsReservations
SYMMETRY SessSymmetry
