\* Visits to the page, jumps back to it from goods of any shop, failed loads.
CONSTANTS
    s1 = s1
    s2 = s2
    s3 = s3
    Shop <- MCShop
    Kinds <- MCKinds
    None = None
    NoGoods = NoGoods
    MaxLoads = 3
SPECIFICATION Spec
INVARIANTS
    TypeOK
    KindsComplete
    ChosenKindFirst
    BreaksOnlyForAnotherShop
