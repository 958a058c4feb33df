SPECIFICATION MCSpec
CONSTANTS
    R1 = R1
    R2 = R2
    B1 = B1
    P1 = P1
    P2 = P2
    S1 = S1
    S2 = S2
    None = None
    Readers = {R1, R2}
    Products = {P1, P2}
    Queries <- MCQueries
    Targets <- MCTargets
    Normal <- MCNormal
    Looks <- MCLooks
    IdPlace <- MCIdPlace
    FirstLook <- MCFirstLook
    Offers <- MCOffers
    Syncs = {S1, S2}
    Buyers = {B1}
    Bought <- MCBought
    Stock <- MCStock
    MaxVersion = 3
    MaxExpiries = 1
    Faults = {"redis", "fetch"}
CONSTRAINT Explored
SYMMETRY Calls
CHECK_DEADLOCK FALSE
INVARIANTS CacheProofInvariants CachedUnderItsVersion ListsMatchTheirQueries StampedeBounded StaleIsExplained
