SPECIFICATION Spec
CONSTANTS
    Savers = {s1}
    Server = server
    Updater = updater
    Limit = 3
    Sizes = {1}
    MaxSaves = 3
    MaxId = 5
    MaxBoots = 1
    MaxUpdates = 0
    MaxForgets = 0
    MaxDrops = 1
    MaxFails = 0

INVARIANT MessagesKept
CHECK_DEADLOCK FALSE
