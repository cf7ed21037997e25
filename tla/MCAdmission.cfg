SPECIFICATION FairSpec
CONSTANTS
    a1 = a1
    a2 = a2
    a3 = a3
    b1 = b1
    b2 = b2
    A = A
    B = B
    Requests = {a1, a2, a3, b1, b2}
    Tenants = {A, B}
    TenantOf <- MCTenantOf
    MaxQueue = 2
    QueueCap = 2
    MayHangUp = {b1}
    NoRequest = NoRequest
INVARIANTS
    SlotsAccounted
    FullWhileWaiting
    OvertakenOncePerTurn
PROPERTIES
    ImplementsSlotPool
    
