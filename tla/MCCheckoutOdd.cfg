SPECIFICATION FairSpec
CONSTANTS
    k1 = k1  k2 = k2  k3 = k3
    r1 = r1  r2 = r2  r3 = r3  r4 = r4  r5 = r5
    None = None
    Requests = {r1, r2, r3, r4, r5}
    Keys = {k1, k2, k3}
    Products = {1, 2, 3, 4}
    KeyOf <- OddKeyOf
    Body <- OddBody
    LockId <- Colliding
    InitialQty <- OddQty
    InitialActive = {1, 2, 3, 4}
    InitialPriced = {1, 2, 3}
    Price <- Dear
    MaxInt = 9
    MaxAttempts = 2
    Faults = {"crash"}
PROPERTIES
    EveryCallSettles
    ImplementsOrderDesk
