\* Loads and adds overlap, on a network that loses and reorders.
CONSTANTS
    MaxCart = 1
    MaxAmount = 1
    MaxFlight = 2
    NoAmount = NoAmount
SPECIFICATION Spec
INVARIANTS
    TypeOK
    LoadingHasReason
    ShutHasReason
    GateCoversAnimation
    CircleShowsCart
\* The model ends when the page is left or taken off the screen.
CHECK_DEADLOCK FALSE
