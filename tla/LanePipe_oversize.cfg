SPECIFICATION Spec
CONSTANTS
    Sizes = {100, 65519}
    MaxPackets = 2
    QueueCap = 3
    maxBatch = 3
INVARIANT
    LengthFits
CHECK_DEADLOCK FALSE
