SPECIFICATION FairSpec
CONSTANTS
    c1 = c1
    c2 = c2
    Callers <- OneCaller
    PipeCapacity = 2
    MaxPosts = 2
    MaxWriteFailures = 2
    StackLimit = 2
    MaxSessions = 2
    MaxCallbackOps = 1
    TransportTypes <- Usb
    SelectMayFail = FALSE
    RestartNeedsShutdown = TRUE
INVARIANTS NoTerminate JoinedThreadWillEnd
PROPERTIES SessionSpec ShutdownReturns StartReturns QueueCommandReturns DisconnectReported QueuedCommandsRun
CHECK_DEADLOCK FALSE
