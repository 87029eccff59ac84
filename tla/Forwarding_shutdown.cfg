SPECIFICATION FairSpec
CONSTANTS
    CommandLines <- OnlyKeys
    Files <- PoolForward
    MayReconfigure = FALSE
    MaxFaults = 0
PROPERTY
    RemovedOnShutdown
