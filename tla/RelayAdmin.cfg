SPECIFICATION AdminSpec
CONSTANTS
    Key = {k1, k2, k3}
    Window = 2
    Lock = 3
    MaxFailures = 2
    MaxKeys = 2
    MaxTime = 3
    MaxLog = 4
    MaxMaster = 2
    MaxSub = 2
    MaxTok = 2
    MaxStops = 1
    Slots = {r1, r2, r3}
    TokenTerm = 1
    SubTerm = 1
    Worlds <- SomeWorlds
SYMMETRY Symmetry
CHECK_DEADLOCK FALSE
INVARIANTS
    LocksAreSound
    EndedStaysEnded
    PaidTimeKept
    ShownIdsNameTheirCodes
