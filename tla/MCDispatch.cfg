SPECIFICATION LiveSpec
CONSTANTS
    r1 = r1
    r2 = r2
    r3 = r3
    n1 = n1
    n2 = n2
    n3 = n3
    small = small
    large = large
    Requests = {r1, r2, r3}
    Nodes = {n1, n2, n3}
    Models = {small, large}
    Chain <- MCChain
    Split <- MCSplit
    Streams = {r1}
    Embeds = {r3}
    Role <- MCRole
    Serves <- MCServes
    Fits <- MCFits
    MaxAttempts = 3
    MaxBegun = 2
    MaxQueue = 1
    Budget = 1
    NoNode = NoNode
INVARIANTS
    HeldWhileServed
    FreshNodeEachAttempt
    
PROPERTY
    EveryRequestEnds
