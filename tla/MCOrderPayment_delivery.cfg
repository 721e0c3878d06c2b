CONSTANTS
    r1 = r1
    r2 = r2
    x1 = x1
    x2 = x2
    None = None
    Request = {r1, r2}
    Restaurant = {x1, x2}
    RestaurantOf <- TwoRestaurants
    Number = {n1, n2}
    AdminStatus = {"cancelled"}
    SavedCard = {r2}
    Deletable = {r2}
    DBFaults = FALSE
    Unanswered = {r2}
    MaxDeclines = 1
    MaxLostAcks = 1
    MaxCrashes = 1
SPECIFICATION FairSpec
INVARIANTS
    ChargeRecorded
    FeesMatchCharges
PROPERTIES
    ChargeEventuallyRecorded
    DraftsResolve
CHECK_DEADLOCK FALSE
