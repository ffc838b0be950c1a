SPECIFICATION FairSpec
CONSTANTS
    Ctl = {c1, c2}
    Joiner = {j1}
    SubCode = {s1}
    MaxPipes = 1
    Kinds = {"legacy", "proto2"}
    Worlds = {{"vanish", "master"}, {"restart", "expire", "master"}}
    None = None
    Heartbeat = Heartbeat
CHECK_DEADLOCK FALSE
INVARIANTS
    OneLiveController
    NoServiceWithoutControl
    PipesUnderGoodCodes
PROPERTIES
    HalfOpenReaped
    LapsedMasterStopsChannel
