SPECIFICATION Spec
CONSTANTS
    MaxParts = 2
    EmptyParts = {2}
    Batches = 1
    Requests = {r1}
    Kinds = {"run", "stop"}
    MaxTasks = 4
    MaxStops = 1
    MaxCrashes = 0
    MaxErrors = 0
INVARIANT ReusedAreValid
CHECK_DEADLOCK FALSE
