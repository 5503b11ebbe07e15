SPECIFICATION Spec
CONSTANTS
    Kbs = {k1}
    Items = {a}
    Prune = FALSE
    Slots = {1}
    MaxClock = 2
    MaxFaults = 0
    MaxRequests = 2
INVARIANT RebuildFetchesAll
CHECK_DEADLOCK FALSE
