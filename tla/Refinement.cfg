SPECIFICATION Spec
CONSTANTS
    op = op
    u = u
    s1 = s1
    s2 = s2
    s3 = s3
    w1 = w1
    w2 = w2
    Nobody = Nobody
    NoSid = NoSid
    IdleTtl = 2
    AbsoluteTtl = 3
    TouchInterval = 1
    Workers = {w1, w2}
    AppRoles = {"app"}
    MaxLag = 0
    MaxVersion = 2
    Identities = {op, u}
    Sessions = {s1, s2}
    Kinds = {"login", "suspend", "reactivate", "disable", "grant", "withdraw"}
    Enrolled <- OperatorSession
    Granted <- DecisionGrants
    MaxTime = 0
PROPERTY
    ImplementsAccessLifecycle
CHECK_DEADLOCK FALSE
SYMMETRY SameWorkers
