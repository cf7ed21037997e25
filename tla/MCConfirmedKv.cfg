SPECIFICATION FeedLiveSpec
CONSTANTS
    Digests = {d1, d2}
    MaxKeys = 1
    MaxPending = 2
    MaxSessions = 2
    MaxEvents = 2
    MaxFaults = 1
    NoLease = NoLease

    
PROPERTY
    FeedDelivers
