SPECIFICATION Spec
CONSTANTS
    Guid = {1, 2}
    Bay = {1, 2}
    Proc = {p, q}
    Health = {"ONLINE", "FAULTED"}
    None = None
    Corrupt = Corrupt
    InitHealth <- TwoHealthy
    InitBay <- OwnBays
    Limit <- RaceLimit
CHECK_DEADLOCK FALSE
INVARIANTS QuietOnlineIsDark
