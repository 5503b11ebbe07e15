SPECIFICATION FairSpec
CONSTANTS
    Docs = {1, 2}
    Tasks = {t1, t2}
    With = {"resolution", "community"}
    Attempts = 2
    MaxFaults = 1
    MaxRequests = 3
    Nobody = Nobody
INVARIANTS TypeOK OneWriter
PROPERTIES Finishes Completes
CHECK_DEADLOCK FALSE
