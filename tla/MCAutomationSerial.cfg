SPECIFICATION FairSpec
CONSTANTS
    Guid = {1, 2}
    Bay = {1, 2}
    Proc = {p}
    Health = {"ONLINE", "FAULTED", "OFFLINE"}
    None = None
    Corrupt = Corrupt
    InitHealth <- TwoHealthy
    InitBay <- OwnBays
    Limit <- SerialLimit
CHECK_DEADLOCK FALSE
INVARIANTS SerialInv SettledFaultedIsLit QuietOnlineIsDark
PROPERTIES FaultEndsLit
