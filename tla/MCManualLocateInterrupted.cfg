SPECIFICATION Spec
CONSTANTS
    d1 = d1
    d2 = d2
    b1 = b1
    b2 = b2
    b3 = b3
    n1 = n1
    n2 = n2
    shared = shared
    Run = {p, q}
    Disk = {d1, d2}
    Bay = {b1, b2, b3}
    Name = {n1, n2, shared}
    Names <- MCNames
    Placed <- MCPlaced
    None = None
    Limit <- MCLimit
CHECK_DEADLOCK FALSE
INVARIANT CancellationCleansUp
