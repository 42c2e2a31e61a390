SPECIFICATION PSpec
CONSTANTS
    SegRows = 2
    BatchMax = 2
    MaxOrphan = 4
    MaxSeq = 3
    MaxBoot = 1
    MaxFailed = 1
    Damages = {}
    MaxLate = 0
    BadBoots = {}
PROPERTY
    StreamContinues
