CONSTANTS
    N = 6
    Fails = TRUE
    None = {2}
    BufferSize = 1

SPECIFICATION FairSpec

INVARIANTS
    NoGaps
    EndIsEnd
    StopsSoon
    RoomForProducer

PROPERTIES
    JoinReturns

CHECK_DEADLOCK FALSE
