SPECIFICATION Spec
CONSTANTS
    MediaChannels = {"Video"}
    OtherMessages <- Others
    Filtered = {"NavigationFocusRequest"}
    MaxOthers = 2
    MaxStreams = 2
    MaxPending = 3
    MaxConnections = 2
INVARIANTS TypeOK SessionKeys AnswersAskedFor NothingForgotten EndsForCause
CHECK_DEADLOCK FALSE
