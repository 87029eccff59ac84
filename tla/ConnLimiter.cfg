SPECIFICATION Spec
CONSTANTS
    a1 = a1
    a2 = a2
    a3 = a3
    IP = {a1, a2, a3}
    Rate = 1
    Burst = 2
    MaxEntries = 2
    TTL = 2
    GCInterval = 2
    MaxTime = 5
INVARIANTS
    TypeOK
    TableBounded
    Throttled
PROPERTIES
    DeniedOnlyIfFast
SYMMETRY AddressSymmetry
CHECK_DEADLOCK FALSE
