CONSTANTS
    Labs = {"improved"}
    MaxIrqs = 2
SPECIFICATION Spec
INVARIANT QueueCleanedUp
CHECK_DEADLOCK FALSE
