SPECIFICATION FairSpec
CONSTANTS
    Dial = {d1, d2}
    Users = {TRUE, FALSE}
    MaxTimers = 2
    MaxFaults = 2
    None = None
    Other = Other
CHECK_DEADLOCK FALSE
INVARIANTS
    NeverStranded
    PipesHangOnLiveSockets
PROPERTIES
    EndsUpRegistered
