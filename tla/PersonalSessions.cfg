SPECIFICATION Spec
CONSTANTS
    op = op
    u = u
    s1 = s1
    s2 = s2
    s3 = s3
    w1 = w1
    w2 = w2
    Nobody = Nobody
    NoSid = NoSid
    IdleTtl = 2
    AbsoluteTtl = 3
    TouchInterval = 1
    Workers = {w1, w2}
    AppRoles = {"app"}
    MaxLag = 1
    MaxVersion = 2
    Identities = {u}
    Sessions = {s1, s2, s3}
    Kinds = {"logout", "access", "revoke_one", "revoke_others"}
    Enrolled <- ThreeSessions
    Granted <- PersonalGrants
    MaxTime = 2
INVARIANT
    ActivityWindow
    ConfirmedClosure
PROPERTY
    ClosedForever
    NoLostUpdate
    PassImpliesOpen
CHECK_DEADLOCK FALSE
SYMMETRY SameWorkers
