CONSTANTS
    r1 = r1
    r2 = r2
    x1 = x1
    x2 = x2
    None = None
    Request = {r1, r2}
    Restaurant = {x1, x2}
    RestaurantOf <- TwoRestaurants
    Number = {n1, n2}
    AdminStatus = {"cancelled"}
    SavedCard = {r1, r2}
    Deletable = {}
    DBFaults = FALSE
    Unanswered = {}
    MaxDeclines = 0
    MaxLostAcks = 0
    MaxCrashes = 0
SPECIFICATION Spec
INVARIANT
    WebhookUpdatesOrder
CHECK_DEADLOCK FALSE
