SPECIFICATION Spec
CONSTANTS
    Ip = {ip1}
    Relay = relay
    Nonce = {1, 2, 3}
    Cookie = {k1}
    Post = {q1, q2, q3}
    Window = 2
    Lock = 2
    MaxFailures = 2
    NonceTtl = 2
    NonceCap = 2
    SessionTtl = 1
    AuthTimeout = 1
    Visits <- SomeVisits
    MaxTime = 3
    MaxEpoch = 1
    None = None
SYMMETRY Symmetry
CHECK_DEADLOCK FALSE
INVARIANTS
    CookiesOfCurrentToken
    LocksFollowGuesses
    RefusedOnlyAtCap
