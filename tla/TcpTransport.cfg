SPECIFICATION TSpec
CONSTANTS
    Size <- MCSize
    Buffer = 3
    MaxSenders = 2
PROPERTIES
    ImplementsLossyLink
    FramesArrive
CHECK_DEADLOCK FALSE
