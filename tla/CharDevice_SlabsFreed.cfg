CONSTANTS
    Labs = {"cache"}
    OneOpen = {}
    LoadFirst = {}
    Files = {f1, f2}
    Buffers = {b1, b2, b3}
    None = none
    Size = 2
    MaxPos = 4
    MaxOpens = 3
SPECIFICATION Spec
INVARIANT SlabsFreed
CHECK_DEADLOCK FALSE
