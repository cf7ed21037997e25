SPECIFICATION DaemonLiveSpec
CONSTANTS
    b1 = b1
    b2 = b2
    Blocks = {b1, b2}
    Clients = {c1, c2}
    MaxCalls = 2
    Size <- MCSize
    Target = 1
    Batch = 1
    CounterBound = 16
    MaxBlock = 1
    TtlOn = TRUE
    MaxFaults = 1
    MaxCrashes = 1
INVARIANT
    UsedAccounts
PROPERTIES
    BlocksKept
    PressureRelieved
    TransfersEnd
