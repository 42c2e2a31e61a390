SPECIFICATION CtSpec
CONSTANTS
    PulseHz = 2
    Unit = 5
    Debounce = 2
    MaxGap = 3
    MaxEdges = 4
INVARIANTS
    ErrorBounded
    HeldIsSeen
