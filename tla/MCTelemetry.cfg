SPECIFICATION TelemetrySpec
CONSTANTS
    k1 = k1
    r1 = r1  r2 = r2  r3 = r3  r4 = r4  r5 = r5  r6 = r6
    None = None
    Requests = {r1, r2, r3, r4, r5, r6}
    Keys = {k1, r3, r4}
    Products = {1, 2, 3}
    KeyOf <- TwinKeyOf
    Body <- TwinBody
    LockId <- TwinLock
    InitialQty <- TwinQty
    InitialActive = {1, 2, 3}
    InitialPriced = {1, 2}
    Price <- TwinPrice
    MaxInt = 9
    MaxAttempts = 2
    Faults = {"ssi", "timeout", "invalidation", "crash"}
SYMMETRY Twins
CONSTRAINT Explored
INVARIANTS
    TelemetryProofInvariants
    CountersAreBounded
    OutcomesAreTruthful
    SpansNameTheOrder
    RetriesNeedCommits
