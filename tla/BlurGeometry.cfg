SPECIFICATION PageSpec
CONSTANTS
    MaxSession = 3
    MaxOut = 2
    MaxTurns = 3
    MaxQueue = 3
    Worlds <- OneWorld
CHECK_DEADLOCK FALSE
INVARIANTS
    BlurReleases
