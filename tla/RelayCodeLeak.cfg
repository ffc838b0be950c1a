SPECIFICATION Spec
CONSTANTS
    Ctl = {c1}
    Joiner = {j1}
    SubCode = {s1}
    MaxPipes = 1
    Kinds = {"force"}
    Worlds = {{}}
    None = None
    Heartbeat = Heartbeat
CHECK_DEADLOCK FALSE
SYMMETRY Symmetry
PROPERTIES
    SweepEndsDeadPipes
