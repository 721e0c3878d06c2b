CONSTANTS
    v1 = v1
    burger = burger
    soup = soup
    large = large
    nuts = nuts
    grill = grill
    bar = bar
    east = east
    west = west
    None = None
    Visit = {v1}
    RestaurantOf <- OrdersFrom
    Item = {burger, soup}
    Home <- ItemHome
    Category = {grill, bar}
    Owner <- CategoryOwner
    Contents <- Writes
    FirstContents <- Written0
    Fees <- Settings
    Rates <- Bps
    DefaultRates <- EnvBps
    Promos <- OtherPromos
    SeedPromo <- Welcome10
    Asks <- Wishes
    Quantities = {2}
    MaxEdits = 2
SPECIFICATION Spec
INVARIANTS
    TypeOK
    OrderedAsOffered
    PriceAsShown
    MenuSound
    BillAddsUp
CHECK_DEADLOCK FALSE
