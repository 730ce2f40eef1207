SPECIFICATION Spec
CONSTANTS
    d1 = d1
    d2 = d2
    d3 = d3
    n1 = n1
    n2 = n2
    n3 = n3
    p1 = p1
    p2 = p2
    p3 = p3
    s1 = s1
    s2 = s2
    s3 = s3
    w1 = w1
    w2 = w2
    w3 = w3
    Guid = {1, 2, 3, 4}
    Drive = {d1, d2, d3}
    DriveOf <- MCDriveOf
    Node = {n1, n2, n3}
    Place = {p1, p2, p3}
    Controller = {p1}
    Enclosure = {p1, p2}
    Enabled = {"storcli", "ses", "ledctl"}
    Label = {s1, s2, s3, w1, w2, w3}
    Printed <- MCPrinted
    Shape = {"ok", "bad"}
    Layout <- MCLayout
    Start <- MCWirings
    Identities <- MCIdentities
    None = None
    Limit <- MCLimit
CONSTRAINT Running
ACTION_CONSTRAINT OneDisturbed
CHECK_DEADLOCK FALSE
INVARIANTS TypeOK OwnBay UniqueBay CalmDiscoveryIsExact
