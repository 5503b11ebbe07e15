SPECIFICATION Spec
CONSTANTS
    Docs = {1, 2}
    Tasks = {t1, t2}
    With = {}
    Attempts = 2
    MaxFaults = 0
    MaxRequests = 3
    Nobody = Nobody
PROPERTY Regenerates
CHECK_DEADLOCK FALSE
