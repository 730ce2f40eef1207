SPECIFICATION Spec
CONSTANTS
    Guid = {1}
    Bay = {1}
    Proc = {p}
    Health = {"ONLINE", "FAULTED"}
    None = None
    Corrupt = Corrupt
    InitHealth <- TwoHealthy
    InitBay <- OwnBays
    Limit <- OverriddenLimit
CHECK_DEADLOCK FALSE
INVARIANTS QuietFaultedIsLit
