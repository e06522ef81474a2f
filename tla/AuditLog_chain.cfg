SPECIFICATION Spec
CONSTANTS
    Entries = {e1, e2, e3, e4}
    WriteFaults = {"none"}
    SyncFaults = FALSE
    MaxRotations = 2
    MaxFailures = 3
CHECK_DEADLOCK FALSE
SYMMETRY Symmetry
INVARIANTS FilesChained UnrotatedVerifies
PROPERTY LedgerSpec
