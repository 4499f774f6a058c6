\* The worker, one other thread and the ICE callback; one candidate each way.
CONSTANTS
    Worker = worker
    Threads = {worker, t1}
    Local = {l1}
    Remote = {r1}
    NoCandidate = NoCandidate
    FallsBack = FALSE
    MaxPending = 1
    MaxOffer = 2
    MaxSession = 2
SPECIFICATION FairSpec
\* The threads stop at the bounds.
CHECK_DEADLOCK FALSE
INVARIANTS
    CandidatesMatch
    NoStrandedCandidate
PROPERTIES
    OffersComplete
