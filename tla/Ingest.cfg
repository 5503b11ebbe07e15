SPECIFICATION Spec
CONSTANTS
    MaxParts = 1
    EmptyParts = {}
    Batches = 2
    Requests = {r1}
    Kinds = {"documents", "chunks", "run", "stop", "cancel", "remove"}
    MaxTasks = 2
    MaxStops = 1
    MaxCrashes = 1
    MaxErrors = 2
INVARIANTS TypeOK CancelLeavesNothing FinishedHasChunks
CHECK_DEADLOCK FALSE
