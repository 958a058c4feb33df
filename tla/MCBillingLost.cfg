SPECIFICATION Spec
CONSTANTS
    Orders = {o1, o2}
    Flushes = {f1}
    MaxTries = 3
    Faults = {"lost"}
    MaxFaults = 1
    MaxRuns = 1
    None = None
INVARIANTS
    OutboxNeverLosesEvent
CHECK_DEADLOCK FALSE
