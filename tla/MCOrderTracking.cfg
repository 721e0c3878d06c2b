CONSTANTS
    o1 = o1
    x1 = x1
    n1 = n1
    a1 = a1
    c1 = c1
    k1 = k1
    k2 = k2
    Nobody = Nobody
    Order = {o1}
    Restaurant = {x1}
    RestaurantOf <- InOne
    NumberOf <- ItsNumber
    Placed = {}
    Call = {k1, k2}
    Client = {a1, c1}
    ChannelOf <- AdminAndCustomer
    Slow = {a1}
SPECIFICATION FairSpec
INVARIANTS
    TypeOK
    LatestShown
PROPERTIES
    CallsEnd
    ClientsAreAdmitted
CHECK_DEADLOCK FALSE
