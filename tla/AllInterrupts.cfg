CONSTANTS
    MAXIRQS = 2
    MaxCalls = 2
    Labs = {"static", "dynamic", "thread"}
SPECIFICATION Spec
INVARIANTS FlagIsTrue AllFreed LineConservation
CHECK_DEADLOCK FALSE
