CONSTANTS
    Labs = {"usermap", "align", "mmap", "data", "vardata", "signal"}
    Procs = {p1, p2}
    Other = t1
    None = none
    PageSize = 2
    RamdiskPages = 2
    BufferPages = 3
    IntRange = 16
    UnsignedLong = 128
    MaxCalls = 2
SPECIFICATION Spec
INVARIANT SignalAsMeant
CHECK_DEADLOCK FALSE
