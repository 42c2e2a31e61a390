SPECIFICATION Spec
CONSTANTS
    Wrap = 16
    Period = 2
    MaxLag = 1
    Second = 2
    ActiveHold = 3
    StuckThreshold = 8
    MaxHzs = {0, 1}
    Gaps = {0, 5}
    MaxBurst = 2
INVARIANTS
    AlarmsJustified
    AlarmsRaised
