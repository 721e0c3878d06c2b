CONSTANTS
    east = east
    west = west
    soups = soups
    grill = grill
    tom = tom
    pho = pho
    ribs = ribs
    ann = ann
    None = None
    Restaurant = {east, west}
    Facts <- Places
    CategoriesOf <- Menus
    ItemsOf <- Courses
    Dish <- Dishes
    User = {ann}
    Spices = {9}
    Savable = {tom}
    Call = {k1}
    Requests <- Asked
    Cuisines <- Known
    Synonyms <- Usual
    MinutesOf <- Limits
    TasteSignals = {"spicy"}
    FoodWords = {"food"}
    Refinements <- Guesses
    Answered = 1
    Few = 2
    Many = 3
    MaxRestaurants = 2
    MaxFound = 2
    MaxChanges = 2
SPECIFICATION FairSpec
INVARIANTS
    AnswerHonest
    BestShown
PROPERTY
    StreamsEnd
CHECK_DEADLOCK FALSE
