\* A careful user and a lossy network that keeps the order of the requests.
CONSTANTS
    g1 = g1
    p1 = p1
    p2 = p2
    s1 = s1
    home = home
    Good <- MCGood
    MaxAmount = 1
    NoCart = NoCart
    NotHanded = NotHanded
    Stacked = TRUE
    InOrder = TRUE
    Lossy = TRUE
    MaxFlight = 2
    Attempt <- MCAttempt
    LoadSlot <- MCLoadSlot
    Address <- MCAddress
    NoAddress = NoAddress
    NoInfo = NoInfo
    LossyLoads = TRUE
    FastTaps = FALSE
    MayLeave = TRUE
    Patient = FALSE
    Careful = TRUE
SPECIFICATION CheckoutSpec
INVARIANTS
    SettledShowsServerCart
PROPERTIES
    ImplementsContract
