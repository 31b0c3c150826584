SPECIFICATION SourceSpec
CONSTANTS
    Viewers = {v1, v2}
    MaxProcs = 2
    MaxFrames = 2
    Gop = 2
    QueueLength = 2
INVARIANT KilledWithTheLast
CHECK_DEADLOCK FALSE
