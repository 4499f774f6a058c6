\* The worker and two other threads; no candidates.
CONSTANTS
    Worker = worker
    Threads = {worker, t1, t2}
    Local = {}
    Remote = {}
    NoCandidate = NoCandidate
    FallsBack = TRUE
    MaxPending = 1
    MaxOffer = 2
    MaxSession = 2
SPECIFICATION Spec
SYMMETRY ThreadSymmetry
\* The threads stop at the bounds.
CHECK_DEADLOCK FALSE
INVARIANTS
    AnswersKeepToTheirOffer
    NoStrandedTransition
PROPERTIES
    OneOpenOffer
