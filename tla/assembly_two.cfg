SPECIFICATION Spec
CONSTANTS
    video = video
    audio = audio
    control = control
    own = own
    none = none
    null = null
    b1 = b1
    b2 = b2
    b3 = b3
    b4 = b4
    Channels <- TwoChannels
    Fragmented <- TwoChannels
    Own <- own
    Buffers <- FourBuffers
    NULL <- null
    NoChannel <- none
    MaxFrames = 3
    MaxMessages = 3
INVARIANT MessagesIntact
CHECK_DEADLOCK FALSE
