SPECIFICATION Spec
CONSTANTS
    c1 = c1
    c2 = c2
    Callers <- OneCaller
    PipeCapacity = 2
    MaxPosts = 1
    MaxWriteFailures = 3
    StackLimit = 3
    MaxSessions = 1
    MaxCallbackOps = 1
    TransportTypes <- Network
    SelectMayFail = FALSE
    RestartNeedsShutdown = TRUE
INVARIANT SendErrorStops
CHECK_DEADLOCK FALSE
