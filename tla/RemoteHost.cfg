SPECIFICATION FairSpec
CONSTANTS
    c1 = c1
    c2 = c2
    Client = {c1, c2}
    Session = {t1}
    MaxSessions = 1
    Paths <- Populations
    Frail <- FrailPopulations
    Kind = {"create", "close", "attach", "detach", "resize", "claim", "force", "release"}
    MaxInFlight = 1
    Local = Local
CHECK_DEADLOCK FALSE
INVARIANTS
    OwnersAreReal
    DesktopKnowsOwner
    OwnersSizeStands
PROPERTIES
    VanishedOwnsNothing
