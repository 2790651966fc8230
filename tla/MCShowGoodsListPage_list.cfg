\* Two requests under way at once.
CONSTANTS
    all = all
    gone = gone
    s1 = s1
    s2 = s2
    Query <- MCTwoQueries
    AllGoods = all
    NothingFound <- MCNoQuery
    SoldOut <- MCSoldOut
    NoList = NoList
    Failed = Failed
    Slot <- MCTwoSlots
    Free = Free
SYMMETRY MCSymmetry
SPECIFICATION Spec
INVARIANTS
    TypeOK
    ListMatchesButtons
    LoadingHasReason
