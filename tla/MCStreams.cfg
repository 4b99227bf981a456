SPECIFICATION Spec
CONSTANTS
    Radix = 8
    wsMaxFrameBytes = 100
    Inputs <- Sent
    Lengths <- WriteLengths
    IsClient = TRUE
    MaxSends = 1
    MaxFailures = 1
    Values <- Typed
    Secret = "s"
    EventType = "t"
    MaxBlock = 2
    MaxLines = 4
INVARIANTS FramesWhole ReadsMeanInput EventsSurviveRelay
PROPERTIES RelayEnds
CHECK_DEADLOCK FALSE
