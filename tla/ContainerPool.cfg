SPECIFICATION FairSpec
CONSTANTS
    Languages = {python, nodejs}
    Size = 1
    Requests = {r1, r2}
    None = None
    MaxFaults = 2
    MaxBoots = 2
INVARIANTS TypeOK Exclusive 
PROPERTIES PoolImplemented 
CHECK_DEADLOCK FALSE
