SPECIFICATION OperatorLiveSpec
CONSTANTS
    Router = {"r1"}
    Node = {"n1", "n2"}
    Replicas = {1, 2, 3}
    MaxQueue = 5
    MaxChanges = 3
    Slos <- MCSlos
    Present <- MCPresent
INVARIANT PlanFitsQueue
PROPERTIES
    CordonLifts
    Converges
CHECK_DEADLOCK FALSE
