SPECIFICATION Spec
CONSTANTS
    CommandLines <- OnlyKeys
    Files <- OnAndOff
    MayReconfigure = TRUE
    MaxFaults = 0
INVARIANT
    PureTunnel
