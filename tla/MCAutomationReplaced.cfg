SPECIFICATION Spec
CONSTANTS
    Guid = {1, 2}
    Bay = {1, 2}
    Proc = {p}
    Health = {"ONLINE", "FAULTED"}
    None = None
    Corrupt = Corrupt
    InitHealth <- SecondSpare
    InitBay <- SecondMissing
    Limit <- ReplaceLimit
CHECK_DEADLOCK FALSE
INVARIANTS QuietOnlineIsDark
