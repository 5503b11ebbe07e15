SPECIFICATION FairSpec
CONSTANTS
    Tasks = {t1, t2}
    Server = server
    Executors = {e1}
    MaxReceives = 2
    MaxRequests = 3
INVARIANTS TypeOK EndsAgree
PROPERTIES CancelKept DoneIsShown
CHECK_DEADLOCK FALSE
