CONSTANTS
    Labs = {"all"}
    W = 3
    MaxIrqs = 2
SPECIFICATION Spec
INVARIANT TablesAgree
CHECK_DEADLOCK FALSE
