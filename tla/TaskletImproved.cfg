CONSTANT MaxIrqs = 5
SPECIFICATION Spec
INVARIANTS Conservation NoUnderflow NoStrandedEvent
PROPERTY ImplementsEventService
CHECK_DEADLOCK FALSE
