SPECIFICATION FairSpec
CONSTANTS
    j1 = j1
    j2 = j2
    Jobs = {j1, j2}
    MaxRuns = 2
    MaxInbox = 1
    MaxFaults = 1
    Capacity = 1
CHECK_DEADLOCK FALSE
INVARIANTS CleanedWhenOver OneOutcome WithinCapacity
PROPERTIES RunsEnd
ACTION_CONSTRAINT FirstIsJ1
