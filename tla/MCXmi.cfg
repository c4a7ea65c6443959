SPECIFICATION Spec
CONSTANTS
    Files <- MCFiles
    Conversions = {0, 1, 2, 5}
    DstChunk = 16
INVARIANTS
    ListInOrder
    RefusedForCause
    PlaysInTempo
    PlaysTheSong
PROPERTIES
    Ends
CHECK_DEADLOCK FALSE
