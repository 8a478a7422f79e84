SPECIFICATION Spec
CONSTANTS
    LengthSize = 2
    BufSize = 6
    PayloadLens = {1, 2, 3}
    MaxPackets = 3
CHECK_DEADLOCK FALSE
INVARIANT
    PacketsInOrder
