SPECIFICATION Spec
CONSTANTS
    ann = ann
    bob = bob
    nsk42 = nsk42
    r1 = r1
    r2 = r2
    p1 = p1
    p2 = p2
    p3 = p3
    Identities = {ann, bob}
    Principals = {nsk42}
    None = None
    Requests = {r1, r2}
    Workers = {p1, p2, p3}
    Ttl = 1
    MaxTime = 2
INVARIANTS
    Inv
    OneActiveRequest
    LinkedByOneApproval
PROPERTIES
    DecisionsStand
CHECK_DEADLOCK FALSE
SYMMETRY Interchangeable
