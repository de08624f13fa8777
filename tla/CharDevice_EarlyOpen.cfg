CONSTANTS
    Labs = {"fwchar"}
    OneOpen = {}
    LoadFirst = {}
    Files = {f1, f2}
    Buffers = {b1, b2, b3}
    None = none
    Size = 2
    MaxPos = 4
    MaxOpens = 3
SPECIFICATION Spec
INVARIANT OpenFileServed
CHECK_DEADLOCK FALSE
