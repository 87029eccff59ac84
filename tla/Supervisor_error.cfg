SPECIFICATION FairSpec
CONSTANTS
    ClientLane = {1}
    ServerLane = {1}
    Conn = {1, 2}
    NoConn = 0
    BackoffMax = 1
    Assigns = FALSE
    MaxFaults = 1
PROPERTY
    LaneEndsOnError
CHECK_DEADLOCK FALSE
