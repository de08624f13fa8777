CONSTANTS
    Readers = {r1}
    MaxIrqs = 4
SPECIFICATION Spec
INVARIANTS Conservation NobodySleepsOnEvents
PROPERTY PollerLearns
CHECK_DEADLOCK FALSE
