CONSTANTS
    MAXIRQS = 2
    MaxCalls = 2
    Labs = {"static", "dynamic"}
SPECIFICATION Spec
INVARIANT CountIsKept
CHECK_DEADLOCK FALSE
