SPECIFICATION Spec
CONSTANTS
    Entries = {e1, e2}
    WriteFaults = {}
    SyncFaults = TRUE
    MaxRotations = 0
    MaxFailures = 0
CHECK_DEADLOCK FALSE
INVARIANT PrevIsPreviousLine
