CONSTANTS
    Labs = {"stub", "simple", "transmit", "receive"}
    Packets = {1, 2}
    None = none
    MaxUps = 2
SPECIFICATION Spec
INVARIANTS SkbFreedOnce StatsAgree
PROPERTY QueuedGoesOn
CHECK_DEADLOCK FALSE
