CONSTANTS
    DEF_MSG_HEAD_SIZE = 2
    MAX_MSG_SIZE = 4
    Streams <- MCStreams
    MaxConns = 2
SPECIFICATION Spec
CHECK_DEADLOCK FALSE
INVARIANTS TypeOK FramesExact ClosedOnBadHead
