CONSTANTS
    Positions <- MCPositions
    Unusable = {0, 1, 1000, 2000000}
    Offsets <- MCOffsets
    LENGTH_HEADER_BITS = 32
    POSITIONS_PER_HEADER_BIT = 64
    FRAME_OVERHEAD_BYTES = 8
    MAC_OVERHEAD_BYTES = 16
SPECIFICATION Spec
INVARIANT AcceptedIsCoded
