CONSTANTS
    Labs = {"tasklet", "work", "tasklet_dynamic", "work_dynamic"}
    Blocks = {b1, b2, b3}
    Static = s
    None = none
    MaxIrqs = 4
SPECIFICATION Spec
INVARIANTS OwnedBlocks LastRunSawAll
PROPERTY ImplementsEventService
CHECK_DEADLOCK FALSE
