SPECIFICATION FairSpec
CONSTANTS
    Ops = {o1, o2}
    Peers = {p1}
    Keys = {k1}
    Clients = {c1, c2}
    Owner = c1
    Requests <- LifecycleRequests
    NoOp = NoOp
    NoPeer = NoPeer
    NoKey = NoKey
    Nobody = Nobody
    MaxQueued = 2
    PerPeerFloor = 1
    MaxConsecutiveCritical = 1
    MaxGeneration = 2
    MaxEpoch = 2
    p1 = p1
    p2 = p2
    k1 = k1
INVARIANTS
    WorkHasItsWorker
    JoinNeverWaitsForACallback
PROPERTIES
    ImplementsSerial
    ShutdownCompletes
    CriticalBurstEnds
CHECK_DEADLOCK FALSE
