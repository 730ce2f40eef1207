SPECIFICATION Spec
CONSTANTS
    Guid = {1, 2}
    Bay = {1, 2}
    Proc = {p}
    Health = {"ONLINE", "FAULTED"}
    None = None
    Corrupt = Corrupt
    InitHealth <- BothFaulted
    InitBay <- SecondMissing
    Limit <- BootLimit
CHECK_DEADLOCK FALSE
INVARIANTS LitIsRecorded
