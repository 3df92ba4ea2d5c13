SPECIFICATION Spec
CONSTANTS
    Users = {u1, u2, u3}
    Roles = {"OWNER", "ADMIN", "STAFF"}
    Statuses = {"ACTIVE", "INVITED"}
    Txs = {t1, t2}
    None = None
SYMMETRY Symmetry
INVARIANT OwnerRemains
PROPERTIES
    OwnershipByOwners
    AuditTellsChanges
CHECK_DEADLOCK FALSE
