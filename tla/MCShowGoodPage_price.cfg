\* Two pieces for the price of one.
CONSTANTS
    MaxCart = 1
    MaxAmount = 2
    MaxFlight = 2
    NoAmount = NoAmount
SPECIFICATION Spec
INVARIANTS
    PriceFitsAmount
\* The model ends when the page is left or taken off the screen.
CHECK_DEADLOCK FALSE
