SPECIFICATION Spec
CONSTANTS
    CommandLines <- Flags
    Files <- Consistent
    MayReconfigure = FALSE
    MaxFaults = 2
INVARIANTS
    PostureExact
    StaleNeverBlocks
    NothingLeft
