CONSTANTS
    Labs = {"stub", "simple", "transmit", "receive"}
    Packets = {1, 2}
    None = none
    MaxUps = 2
SPECIFICATION Spec
INVARIANT BytesAreThoseSent
CHECK_DEADLOCK FALSE
