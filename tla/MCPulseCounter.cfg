SPECIFICATION Spec
CONSTANTS
    HLim = 8
    Drain = 5
    Rate = 2
    WindowMax = 1
    MaxPulses = 12
    MaxBoot = 3
INVARIANTS
    Conserved
    NeverOvercounts
    CutLossBounded
