SPECIFICATION FairSpec
CONSTANTS
    p1 = p1
    p2 = p2
    j1 = j1
    Providers = {p1, p2}
    Quoted = {p1}
    Streaming = {p1}
    Jobs = {j1}
    None = None
    Capacity = 1
    MaxRuns = 1
    MaxQueue = 1
    MaxFaults = 1
CHECK_DEADLOCK FALSE
INVARIANTS InProgressWasSent
PROPERTIES  OutcomeIsFinalWhenQuiet NoProviderKeepsJob
