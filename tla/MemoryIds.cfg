SPECIFICATION Spec
CONSTANTS
    Savers = {s1, s2}
    Server = server
    Updater = updater
    Limit = 2
    Sizes = {1, 3}
    MaxSaves = 2
    MaxId = 4
    MaxBoots = 2
    MaxUpdates = 1
    MaxForgets = 1
    MaxDrops = 1
    MaxFails = 1
SYMMETRY Symmetry
INVARIANTS TypeOK 
CHECK_DEADLOCK FALSE
