\* Visits of both pages on a lossy network that keeps the order of the requests.
CONSTANTS
    w1 = w1
    w2 = w2
    Word <- MCWord
    Blank = Blank
    NewRow = NewRow
    NoList = NoList
    InOrder = TRUE
    Lossy = TRUE
    MaxFlight = 2
SYMMETRY MCSymmetry
SPECIFICATION Spec
INVARIANTS
    TypeOK
    ShownTextIsMeant
    LoadingHasReason
    SettledShowsServerList
