\* Payments on a lossy network, and changes of the address.
CONSTANTS
    p1 = p1
    p2 = p2
    p3 = p3
    s1 = s1
    s2 = s2
    home = home
    work = work
    Attempt <- MCThreeAttempts
    LoadSlot <- MCTwoLoads
    Address <- MCTwoAddresses
    NoAddress = NoAddress
    NoInfo = NoInfo
    Lossy = TRUE
    LossyLoads = FALSE
    FastTaps = FALSE
    MayLeave = TRUE
    Patient = TRUE
SPECIFICATION FairSpec
INVARIANTS
    TypeOK
    SuccessMeansOrdered
    ClearsFollowOrders
    NoStuckOverlay
    FirstPaymentCovered
    OneOrderUnlessRefused
    ShownAddressIsDefault
PROPERTIES
    PaymentEnds
\* The visit may be over.
CHECK_DEADLOCK FALSE
