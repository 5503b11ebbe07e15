SPECIFICATION FairSpec
CONSTANTS
    Tasks = {t1}
    Consumers = {c1, c2}
    Slots = {s1, s2}
    MaxAttempts = 2
    MaxXadd = 2
    MaxMsgs = 2
    MaxCrashes = 2
    MaxErrors = 1
    None = None
INVARIANTS TypeOK SingleHandler AttemptBound AckedIsSettled StrandedOnlyByError
 
CHECK_DEADLOCK FALSE
