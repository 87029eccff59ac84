SPECIFICATION FairSpec
CONSTANTS
    Src = {client}
    Dst = {outside, peer, self}
    PoolNet = {peer, self}
    ServerIP = {self}
    EnforceIsolation = TRUE
    UDPIdleTimeout = 2
    udpBatchSize = 2
    FlowId = {f1, f2}
    NoFlow = NoFlow
    Tcp = {t1}
INVARIANTS
    TableSound
    UdpDrained
PROPERTIES
    IdleFlowsEnd
    StopTerminates
CHECK_DEADLOCK FALSE
