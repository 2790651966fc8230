\* Visits to the two tabs on a lossy network that keeps the order of the requests.
SPECIFICATION Spec
CONSTANTS
    a = a
    b = b
    c = c
    d = d
    e = e
    food = food
    toys = toys
    Good = {a, b, c, d, e}
    Sales <- MCSales
    MainKind <- MCMainKind
    Catalogue <- MCCatalogue
    None = None
    NoAnswer = NoAnswer
    Failed = Failed
    Kinds <- MCKinds
    Barren <- MCBarren
    NotSet = NotSet
    Empty = Empty
    Lossy = TRUE
    HomeFlight = 2
    KindsFlight = 2
INVARIANTS
    AllTypesOK
    HotGoodsAreBest
    LoadingHasReason
    SettledShowsHighlighted
    OpensPressedKind
