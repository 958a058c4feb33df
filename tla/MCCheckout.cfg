SPECIFICATION Spec
CONSTANTS
    k1 = k1  k2 = k2  k3 = k3
    r1 = r1  r2 = r2  r3 = r3  r4 = r4  r5 = r5
    None = None
    Requests = {r1, r2, r3, r4}
    Keys = {k1, k2}
    Products = {1, 2, 3}
    KeyOf <- MixKeyOf
    Body <- MixBody
    LockId <- Injective
    InitialQty <- MixQty
    InitialActive = {1, 2, 3}
    InitialPriced = {1, 2, 3}
    Price <- Cheap
    MaxInt = 9
    MaxAttempts = 4
    Faults = {"ssi", "timeout", "invalidation", "crash"}
PROPERTIES
    ImplementsOrderDesk
INVARIANTS
    TypeOK
    StockConserved
    ReservedMatchesOrders
    OneOrderPerKey
    TruthfulAnswers
    RepetitionsAreNotRefused
    SoldOutIsTrue
    NoLockCycle
