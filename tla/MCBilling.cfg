CONSTANTS
    x1 = x1
    x2 = x2
    s1 = s1
    s2 = s2
    b1 = b1
    p1 = p1
    t1 = t1
    None = None
    Restaurant = {x1, x2}
    Call = {s1, s2, b1, p1, t1}
    RestaurantOf <- Tenants
    KindOf <- Kinds
    MaxChanges = 1
    MaxLost = 1
    MaxDBErrors = 1
SPECIFICATION FairSpec
INVARIANTS
    SetupFeeFirst
    OwnSubscription
    StatusShown
PROPERTIES
    KeepsPromise
    SetupFeeCounts
CHECK_DEADLOCK FALSE
