SPECIFICATION Spec
CONSTANTS
    c1 = c1
    c2 = c2
    Callers <- OneCaller
    PipeCapacity = 4
    MaxPosts = 2
    MaxWriteFailures = 1
    StackLimit = 2
    MaxSessions = 2
    MaxCallbackOps = 1
    TransportTypes <- Usb
    SelectMayFail = FALSE
    RestartNeedsShutdown = TRUE
INVARIANT CommandsStayInSession
CHECK_DEADLOCK FALSE
