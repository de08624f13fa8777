CONSTANTS
    Labs = {"plain", "improved"}
    MaxIrqs = 2
SPECIFICATION Spec
INVARIANT LiveHasThread
CHECK_DEADLOCK FALSE
