SPECIFICATION FairSpec
CONSTANTS
    Proc = {p, q}
    Update = {u, v, w}
    None = None
    Limit <- MCLimit
CHECK_DEADLOCK FALSE
INVARIANTS TypeOK AckedSurvives NeverTorn FailureHasNoEffect IInv
PROPERTIES EveryCallReturns Atomic
