SPECIFICATION Spec
CONSTANTS
    j1 = j1
    n1 = n1
    s1 = s1
    s2 = s2
    Jobs = {j1}
    Nodes = {n1}
    Slots = {s1, s2}
    MaxVersions = 2
    MaxOutages = 1
    MaxRestarts = 1
CHECK_DEADLOCK FALSE
INVARIANTS MissedIsPending
PROPERTIES MongoNeverRollsBack PendingDrains
