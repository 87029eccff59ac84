SPECIFICATION Spec
CONSTANTS
    k1 = k1
    k2 = k2
    c1 = c1
    c2 = c2
    c3 = c3
    u1 = u1
    u2 = u2
    Client = {k1, k2}
    Names = {u1, u2}
    NoUser = NoUser
    Unauthorized = Unauthorized
    NoAddr = NoAddr
    NoClient = NoClient
    NoConn = NoConn
    NoSess = NoSess
    Conn = {c1, c2, c3}
    SessId = {s1, s2, s3}
    s1 = s1
    s2 = s2
    s3 = s3
    Family <- V4
    Subnet <- Subnet30
    Reserved <- Reserved30
    Hash <- HashColliding
    Dials <- TwoLanesAndOne
    PeerKey = NoClient
    InitialDB <- TwoUsers
    UserLists <- NoReload
    Requests <- NoRequest
    MaxInFlight = 2
    MayFail = {c1, c2, c3}
    MayIdle = TRUE
    MayStop = FALSE
INVARIANTS
    AddressExclusive
