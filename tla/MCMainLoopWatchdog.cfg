SPECIFICATION Spec
CONSTANTS
    Step = 1
    TelemetryPeriod = 2
    PushPeriod = 3
    ConfigPoll = 4
    OtaPoll = 6
    Txn = 4
    Wdt = 5
    Stream = 1
    PushCap = 7
    OtaCap = 13
    Jitter = 1
INVARIANT
    EveryCallFits
