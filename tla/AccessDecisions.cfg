SPECIFICATION Spec
CONSTANTS
    ann = ann
    bob = bob
    tasks = tasks
    energy = energy
    p1 = p1
    p2 = p2
    r1 = r1
    r2 = r2
    g1 = g1
    g2 = g2
    Identities = {ann, bob}
    None = None
    Applications = {tasks, energy}
    Emails = {"a@example"}
    Requests = {r1, r2}
    Workers = {p1, p2}
    Gaps = {g1, g2}
    Elsewhere <- AnnOnTasks
    MaxVersion = 2
INVARIANTS
    Inv
    StatusIsSummary
    NoTwins
    MutualWaitsAreKnown
PROPERTIES
    DecidedOnce
    ApprovedWithGrant
CHECK_DEADLOCK FALSE
SYMMETRY Interchangeable
