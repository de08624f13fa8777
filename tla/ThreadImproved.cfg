CONSTANTS
    Labs = {"plain", "improved"}
    MaxIrqs = 4
SPECIFICATION Spec
INVARIANTS Conservation FlagWakesThread UnloadedIsQuiet
PROPERTIES RmmodEnds StopComesNearer
CHECK_DEADLOCK FALSE
