SPECIFICATION FairSpec
CONSTANTS
    ClientLane = {1}
    ServerLane = {1}
    Conn = {1, 2, 3, 4}
    NoConn = 0
    BackoffMax = 1
    Assigns = TRUE
    MaxFaults = 3
INVARIANTS
    TypeOK
    SingleOwner
PROPERTIES
    Reconnects
    ShutdownCompletes
CHECK_DEADLOCK FALSE
