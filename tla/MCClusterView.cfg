SPECIFICATION GossipLiveSpec
CONSTANTS
    Nodes = {n1}
    MaxChanges = 3
    MaxCordons = 2
    MaxRuns = 2
    MaxPending = 2
    MaxSuspects = 1
    NoNode = NoNode
CHECK_DEADLOCK FALSE
INVARIANT TrackerAgrees
PROPERTIES NeverOlder ReadyNodeRoutable DeadMemberForgotten
