SPECIFICATION Spec
CONSTANTS
    k1 = k1  k2 = k2  k3 = k3
    r1 = r1  r2 = r2  r3 = r3  r4 = r4  r5 = r5
    None = None
    Requests = {r1, r2, r3, r4, r5}
    Keys = {r1, r2, r3, r4, r5}
    Products = {1}
    KeyOf <- HotKeyOf
    Body <- HotBody
    LockId <- HotLock
    InitialQty <- HotQty
    InitialActive = {1}
    InitialPriced = {1}
    Price <- Cheap
    MaxInt = 9
    MaxAttempts = 4
    Faults = {}
SYMMETRY Crowd
INVARIANTS
    NoServerError
