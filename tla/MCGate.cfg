SPECIFICATION LiveSpec
CONSTANTS
    Key = {"k1", "k2"}
    KeyScopes <- MCKeyScopes
    Caller = {"c1", "c2"}
    Kid = {"old", "new"}
    Ip = {"ip", "proxy"}
    Proxies = {"proxy"}
    Budget = 2
    Tpm = 2
    MaxCost = 2
    Config <- MCConfig
CHECK_DEADLOCK FALSE
INVARIANTS
    MissFetchesLimited
    
    LedgerCoversFile
PROPERTIES
    
    DrainEnds
    
