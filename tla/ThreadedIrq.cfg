CONSTANTS
    Labs = {"one", "all"}
    W = 4
    MaxIrqs = 5
SPECIFICATION Spec
INVARIANT ConservationMod
PROPERTIES Drained RmmodEnds
CHECK_DEADLOCK FALSE
