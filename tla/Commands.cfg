SPECIFICATION Spec
CONSTANTS
    p1 = p1
    p2 = p2
    Commands = {p1, p2}
    Campaigns <- Shared
    MaxGrants = 2
    None = None
INVARIANTS
    Inv
    ChainVerifies
    AccessWithdrawnFirst
    TwinsAreBounded
PROPERTIES
    OnlyStaleMemoryRevives
    TextsAreKept
CHECK_DEADLOCK FALSE
