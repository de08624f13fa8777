CONSTANTS
    Labs = {"plain", "dynamic", "udev", "misc", "samplemisc", "memory",
            "cache", "sample", "fwchar",
            "queue", "dma", "firmware", "uio", "kprobes", "hrkprobes",
            "kset", "kobject", "platform", "usb"}
    OneOpen = {"cache"}
    LoadFirst = {"fwchar"}
    Files = {f1, f2}
    Buffers = {b1, b2, b3}
    None = none
    Size = 2
    MaxPos = 4
    MaxOpens = 3
SPECIFICATION Spec
INVARIANTS NothingLeft NeedsHeld OpenFileServed PositionCounts
CHECK_DEADLOCK FALSE
