SPECIFICATION Spec
CONSTANTS
    MAX_FRAME_PAYLOAD_SIZE = 16384
    MAX_FRAME_SIZE = 16640
    TlsOverhead = 29
    Lengths <- Boundaries
    MaxMessages = 3
    MaxFailures = 3
INVARIANTS TypeOK MessagesWhole FramesFit ZeroMeansDelivered
PROPERTIES SendReturns
CHECK_DEADLOCK FALSE
