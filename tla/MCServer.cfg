SPECIFICATION SSpec
CONSTANTS
    Rows <- MCRows
    Rejected <- MCRejected
    Batches <- MCBatches
    Devices = {boot, meter, other}
    Bootstrap = boot
    Meter = meter
    Threads = {t1, t2}
    Factors = {k1, k2}
    MaxKey = 3
    MaxVersion = 3
    MaxRequests = 3
SYMMETRY ThreadSymmetry
INVARIANTS
    AckCoversResolved
    SerialsUnique
    RevokedStaysDead
    VersionIdentifiesK
PROPERTIES
    RecordsImmutable
    AckNeverRegresses
