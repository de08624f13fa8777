CONSTANTS
    Labs = {"plain", "improved"}
    MaxIrqs = 2
SPECIFICATION Spec
INVARIANT NoOrphanThread
CHECK_DEADLOCK FALSE
