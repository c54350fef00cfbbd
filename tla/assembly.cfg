SPECIFICATION Spec
CONSTANTS
    video = video
    audio = audio
    control = control
    own = own
    none = none
    null = null
    b1 = b1
    b2 = b2
    b3 = b3
    b4 = b4
    Channels <- ThreeChannels
    Fragmented <- OnlyVideo
    Own <- own
    Buffers <- FourBuffers
    NULL <- null
    NoChannel <- none
    MaxFrames = 3
    MaxMessages = 2
INVARIANTS AssemblyTypeOK MessagesIntact PartialsPreserved
CHECK_DEADLOCK FALSE
