CONSTANTS
    Labs = {"resolution"}
    OneWriter = {"resolution"}
    OneTimer = {}
    Writers = {w1, w2}
    First = first
    Second = second
    Others = {b3, b4}
    None = none
    MaxWrites = 3
SPECIFICATION Spec
CHECK_DEADLOCK FALSE
INVARIANT RunningTimersDeleted
