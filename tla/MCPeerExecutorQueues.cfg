SPECIFICATION Spec
CONSTANTS
    Ops = {o1, o2, o3, o4}
    Peers = {p1, p2}
    Keys = {k1}
    Clients = {c1}
    Owner = c1
    Requests <- QueueRequests
    NoOp = NoOp
    NoPeer = NoPeer
    NoKey = NoKey
    Nobody = Nobody
    MaxQueued = 3
    PerPeerFloor = 1
    MaxConsecutiveCritical = 2
    MaxGeneration = 1
    MaxEpoch = 1
    p1 = p1
    p2 = p2
    k1 = k1
SYMMETRY Symmetric
INVARIANTS
    CapacityRespected
PROPERTIES
    EvictionRespectsValue
    PerPeerOrder
CHECK_DEADLOCK FALSE
