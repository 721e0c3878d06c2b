CONSTANTS
    o1 = o1
    o2 = o2
    k1 = k1
    k2 = k2
    k3 = k3
    east = east
    ann = ann
    bob = bob
    None = None
    Order = {o1, o2}
    RestaurantOf <- PlacedAt
    CustomerOf <- PlacedBy
    Call = {k1, k2, k3}
    CallerOf <- PostedBy
    FirstStatus <- Earlier
    AboutOf <- About
    RatingsOf <- Stars
    ReadyTimes <- Times
    MinRatings = 2
    MaxUpdates = 2
    MaxFaults = 1
SPECIFICATION Spec
SYMMETRY Twins
INVARIANTS
    InputsSettle
    RankingSound
    ReviewEarned
CHECK_DEADLOCK FALSE
