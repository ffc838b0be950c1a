SPECIFICATION FairSpec
CONSTANTS
    s1 = s1
    s2 = s2
    Session = {s1}
    Modes <- EveryMode
    Cap = 1
    MaxConns = 3
    MaxOps = 3
CHECK_DEADLOCK FALSE
INVARIANTS
    OrderlyDelivery
    SameSessions
PROPERTIES
    RefusedPageStops
