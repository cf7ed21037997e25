SPECIFICATION LiveSpec
CONSTANTS
    Members = {m1, m2}
    Requests = {r1, r2}
    MaxRounds = 4
    MaxDeaths = 3
    MaxFailures = 1
    DrainCalls = {d1}
    MayStop = TRUE
    MaxBackoff = 5
CHECK_DEADLOCK FALSE
INVARIANTS
    GroupHeld
    DrainWaits
PROPERTIES
    EngineRecovers
    Stops
