SPECIFICATION Spec
CONSTANTS
    Sizes = {10, 29998, 65517}
    MaxPackets = 4
    QueueCap = 3
    maxBatch = 3
INVARIANTS
    Lockstep
    LengthFits
PROPERTY
    ImplementsPipe
CHECK_DEADLOCK FALSE
