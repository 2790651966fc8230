\* The alerts about empty inputs, on a network without faults.
CONSTANTS
    w1 = w1
    w2 = w2
    Word <- MCWord
    Blank = Blank
    NewRow = NewRow
    NoList = NoList
    InOrder = TRUE
    Lossy = FALSE
    MaxFlight = 1
SYMMETRY MCSymmetry
SPECIFICATION Spec
PROPERTIES
    SendsOnlyEntered
