SPECIFICATION Spec
CONSTANTS
    Relay = {"a", "b"}
    Req = {q1, q2}
    Slot = {1, 2, 3}
    None = None
    Worlds <- SomeWorlds
    Code = {s1}
    MaxTokens = 1
    MaxMasks = 1
    Missing = Missing
    Broken = Broken
CHECK_DEADLOCK FALSE
INVARIANTS
    OnePluginBehindItsGate
    StopIsFinal
    SavedIsRunning
    ClearedOnExit
    TakeoverOffered
    InfoIsCurrent
