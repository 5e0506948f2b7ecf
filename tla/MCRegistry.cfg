SPECIFICATION Spec
CONSTANTS
    n1 = n1
    n2 = n2
    Nodes = {n1, n2}
    ReapAge = 1
    MaxMinted = 3
    MaxActive = 2
    MaxFinished = 2
    MaxRestarts = 1
SYMMETRY Symmetry
CHECK_DEADLOCK FALSE
INVARIANTS IndexConsistent RowFollowsRecord
PROPERTIES IdentityIsStable RecordNeverRolledBack
