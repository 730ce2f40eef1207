SPECIFICATION Spec
CONSTANTS
    Guid = {1, 2}
    Bay = {1, 2, 3}
    Proc = {p, q}
    Health = {"ONLINE", "FAULTED"}
    None = None
    Corrupt = Corrupt
    InitHealth <- TwoHealthy
    InitBay <- OwnBays
    Limit <- SharedLimit
CHECK_DEADLOCK FALSE
SYMMETRY Helpers
INVARIANTS TypeOK IInv LedsMatchRecords VerifiedOwnership NobodyIsStuck
PROPERTIES CommittedEventIsInert ReconcileConverges CommitsKeepTheRest
