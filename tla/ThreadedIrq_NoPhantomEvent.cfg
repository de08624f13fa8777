CONSTANTS
    Labs = {"one"}
    W = 3
    MaxIrqs = 2
SPECIFICATION Spec
INVARIANT NoPhantomEvent
CHECK_DEADLOCK FALSE
