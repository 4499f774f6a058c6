SPECIFICATION Spec
CONSTANTS
    h1 = h1
    h2 = h2
    Handlers <- MCHandlers
    SeqMod = 3
    MaxCached = 2
    MaxBytes = 3
    History = 1
    RepairGap = 1
    Budget = 4
    Refill = 1
    Overhead = 1
    KeyframeGap = 1
    Answers <- MCAnswers
    Reports <- MCReports
    MaxHeard = 3
    MaxTime = 2
    Frames <- MCFrames
    MaxFrames = 2
    MaxQueued = 4
    MaxAhead = 2
CHECK_DEADLOCK FALSE
INVARIANTS CacheHoldsTheNewest RepairRateBounded RtxInOrder PacedWithoutGaps CloseIsClean
PROPERTIES KeyframesAreThrottled
