SPECIFICATION FairSpec
CONSTANTS
    Kbs = {k1}
    Items = {a}
    Prune = TRUE
    Slots = {1, 2}
    MaxClock = 2
    MaxFaults = 1
    MaxRequests = 2
INVARIANTS TypeOK  
 
CHECK_DEADLOCK FALSE
