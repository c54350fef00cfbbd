SPECIFICATION Spec
CONSTANTS
    d1 = d1
    d2 = d2
    Devices <- TwoDevices
    PipeCapacity = 2
    BufferSize = 2
    MaxBuffer = 8
    MaxUnits = 3
    MaxSends = 1
INVARIANTS TypeOK StreamInOrder StoppedIsClean
PROPERTIES BufferStable StopReturns StreamSpec
