SPECIFICATION Spec
CONSTANTS
    MaxFd = 5
    Modes <- BothModes
INVARIANTS TypeOK StartedIsConnected NoLeak StealsOnlyWhenConnecting
PROPERTIES StartReturns
