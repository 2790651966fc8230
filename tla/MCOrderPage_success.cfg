\* The comment at OrderPage.js:283, for a user who stays.
CONSTANTS
    p1 = p1
    p2 = p2
    p3 = p3
    s1 = s1
    s2 = s2
    home = home
    work = work
    Attempt <- MCTwoAttempts
    LoadSlot <- MCOneLoad
    Address <- MCOneAddress
    NoAddress = NoAddress
    NoInfo = NoInfo
    Lossy = TRUE
    LossyLoads = TRUE
    FastTaps = FALSE
    MayLeave = FALSE
    Patient = FALSE
SPECIFICATION FairSpec
PROPERTIES
    BoughtOpensSuccessPage
\* The visit may be over.
CHECK_DEADLOCK FALSE
