CONSTANTS
    r1 = r1
    r2 = r2
    x1 = x1
    x2 = x2
    None = None
    Request = {r1, r2}
    Restaurant = {x1, x2}
    RestaurantOf <- SameRestaurant
    Number = {n1, n2}
    AdminStatus = {"new", "cancelled"}
    SavedCard = {r2}
    Deletable = {r1}
    DBFaults = TRUE
    Unanswered = {r1}
    MaxDeclines = 1
    MaxLostAcks = 1
    MaxCrashes = 1
SPECIFICATION Spec
INVARIANTS
    TypeOK
    OrderNumbersUnique
    PaymentEvidence
    ChargedOrderKept
PROPERTY
    ImplementsPromise
CHECK_DEADLOCK FALSE
