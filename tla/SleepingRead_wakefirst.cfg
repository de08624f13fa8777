CONSTANTS
    Labs = {"poll"}
    Procs = {p1, p2, p3}
    Pollers = {p3}
    Writers = {w1, w2}
    MaxWrites = 2
SPECIFICATION Spec
INVARIANT SleepersAreWoken
CHECK_DEADLOCK FALSE
