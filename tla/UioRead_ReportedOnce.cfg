CONSTANTS
    Readers = {r1, r2}
    MaxIrqs = 2
SPECIFICATION Spec
INVARIANT ReportedOnce
CHECK_DEADLOCK FALSE
