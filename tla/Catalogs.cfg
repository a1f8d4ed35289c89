SPECIFICATION Spec
CONSTANTS
    ann = ann
    p1 = p1
    p2 = p2
    Identities = {ann}
    Roles = {"reader", "writer"}
    Permissions = {"read", "write"}
    None = None
    Workers = {p1, p2}
    Offered <- Contents
    Chain <- Versions
    Inherited <- Older
    MaxCatalogs = 3
    MaxVersion = 3
INVARIANTS
    Inv
    Interpretable
    BootstrapSucceeds
CHECK_DEADLOCK FALSE
SYMMETRY SameWorkers
