CONSTANTS
    MAXIRQS = 2
    MaxCalls = 2
    Labs = {"static", "dynamic"}
SPECIFICATION Spec
INVARIANT BhsOfTheirLine
CHECK_DEADLOCK FALSE
