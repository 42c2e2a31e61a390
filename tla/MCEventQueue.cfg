SPECIFICATION Spec
CONSTANTS
    SegRows = 2
    BatchMax = 2
    MaxOrphan = 4
    MaxSeq = 4
    MaxBoot = 3
    MaxFailed = 2
    Damages = {"checkpoint", "ack", "recover"}
INVARIANTS
    NoLoss
    Fifo
    BacklogExact
    NewRowsDeliverable
    LostSamplesCounted
PROPERTIES
    BootReclaims
    AdoptionExposes
