SPECIFICATION Spec
CONSTANTS
    MaxParts = 1
    EmptyParts = {}
    Batches = 1
    Requests = {r1}
    Kinds = {"documents", "remove"}
    MaxTasks = 2
    MaxStops = 1
    MaxCrashes = 0
    MaxErrors = 0
INVARIANT AllRunningCancelled
CHECK_DEADLOCK FALSE
