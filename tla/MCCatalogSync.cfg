SPECIFICATION SyncFairSpec
CONSTANTS
    k1 = k1  k2 = k2
    r1 = r1  r2 = r2
    None = None
    Requests = {r1, r2}
    Keys = {k1, k2}
    Products = {1, 2}
    KeyOf <- SyncKeyOf
    Body <- SyncBody
    LockId <- SyncLock
    InitialQty <- SyncQty
    InitialActive = {1, 2}
    InitialPriced = {1, 2}
    Price <- SyncPrice
    MaxInt = 9
    MaxAttempts = 1
    Faults = {}
    ErpCatalogs <- Catalogs
    Syncs = {s1, s2}
INVARIANTS
    SyncInv
    StockFormula
    ReservedMatchesOrders
PROPERTIES
    BumpPublishesMirror
    SyncsAndCheckoutsEnd
