SPECIFICATION Spec
CONSTANTS
    Entries = {e1, e2, e3, e4}
    WriteFaults = {"none", "short"}
    SyncFaults = TRUE
    MaxRotations = 2
    MaxFailures = 2
CHECK_DEADLOCK FALSE
SYMMETRY Symmetry
INVARIANTS AckedDurable ShortWriteCostsOne
