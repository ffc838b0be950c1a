SPECIFICATION FairSpec
CONSTANTS
    Session = {t1, t2}
    Request = {0, 3}
    MaxSize = 2
    DefaultSize = 1
    Name = {"Terminal", "vim"}
    FirstTitle = "Terminal"
    None = None
CHECK_DEADLOCK FALSE
INVARIANTS
    ExitExactlyOnce
    NoChangeForgotten
    LastResizeKept
PROPERTIES
    ImplementsService
    ServiceCatchesUp
