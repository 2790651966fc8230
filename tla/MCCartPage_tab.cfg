\* The tab page on a lossy network that keeps the order of the requests.
CONSTANTS
    g1 = g1
    Good <- MCOneGood
    MaxAmount = 1
    NoCart = NoCart
    NotHanded = NotHanded
    Stacked = FALSE
    InOrder = TRUE
    Lossy = TRUE
    MaxFlight = 3
SPECIFICATION FairSpec
INVARIANTS
    TypeOK
    PayGetsCart
    LoadingHasReason
    SettledShowsServerCart
PROPERTIES
    LoadingEnds
