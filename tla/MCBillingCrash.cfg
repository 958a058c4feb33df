SPECIFICATION Spec
CONSTANTS
    Orders = {o1}
    Flushes = {f1}
    MaxTries = 3
    Faults = {"erp", "worker"}
    MaxFaults = 1
    MaxRuns = 1
    None = None
INVARIANTS
    FailuresAreQueued
CHECK_DEADLOCK FALSE
