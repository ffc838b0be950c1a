SPECIFICATION PageSpec
CONSTANTS
    MaxSession = 3
    MaxOut = 2
    MaxTurns = 3
    MaxQueue = 3
    Worlds <- SomeWorlds
CHECK_DEADLOCK FALSE
INVARIANTS
    
    
    
    FollowersTrack
    ModifiersStay
