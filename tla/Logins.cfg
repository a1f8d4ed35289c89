SPECIFICATION Spec
CONSTANTS
    ann = ann
    p1 = p1
    p2 = p2
    s1 = s1
    s2 = s2
    s3 = s3
    Identities = {ann}
    Nobody = Nobody
    Clients = {tasks, energy}
    tasks = tasks
    energy = energy
    Administration = "administration"
    Portal = "portal"
    Codes = {"code"}
    Links = {"link"}
    NoProof = "none"
    Sessions = {s1, s2, s3}
    Requests = {p1, p2}
    CodeTtl = 1
    LinkTtl = 1
    MaxTime = 1
    MaxLag = 1
    MaxTurns = 2
INVARIANTS
    Inv
    SingleUse
PROPERTIES
    ActiveSinceProven
CHECK_DEADLOCK FALSE
SYMMETRY Interchangeable
