SPECIFICATION Spec
CONSTANTS
    c1 = c1
    c2 = c2
    Callers <- TwoCallers
    PipeCapacity = 1
    MaxPosts = 2
    MaxWriteFailures = 2
    StackLimit = 2
    MaxSessions = 2
    MaxCallbackOps = 2
    TransportTypes <- Both
    SelectMayFail = TRUE
    RestartNeedsShutdown = FALSE
SYMMETRY Symmetry
INVARIANTS TypeOK HuThreadOwnsSession StoppedIsClean StackBounded
CHECK_DEADLOCK FALSE
