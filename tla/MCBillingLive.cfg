SPECIFICATION FairSpec
CONSTANTS
    Orders = {o1}
    Flushes = {f1}
    MaxTries = 3
    Faults = {"erp", "outbox", "worker", "broker", "mark", "db"}
    MaxFaults = 2
    MaxRuns = 0
    None = None
INVARIANTS
    NoOrderForgotten
PROPERTIES
    EveryOrderSettles
CHECK_DEADLOCK FALSE
