SPECIFICATION PSpec
CONSTANTS
    SegRows = 2
    BatchMax = 2
    MaxOrphan = 4
    MaxSeq = 3
    MaxBoot = 3
    MaxFailed = 1
    Damages = {}
    MaxLate = 1
    BadBoots = {2}
INVARIANTS
    PrunedIsResolved
    EndToEnd
    FirstBuiltWins
    NoBurntSeq
PROPERTIES
    BacklogDrains
