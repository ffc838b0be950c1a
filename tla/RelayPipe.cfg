SPECIFICATION PipeFairSpec
CONSTANTS
    MaxFrames = 3
    EarlyCap = 2
CHECK_DEADLOCK FALSE
INVARIANTS
    FramesKept
PROPERTIES
    HostLearns
