SPECIFICATION Spec
CONSTANTS
  Viewers = {v1}
  MaxEntries = 3
  MaxPending = 1
  MaxCompleted = 1
  TransportStep = 2
  MaxTimestamp = 5
  MaxReady = 1
  MaxDelay = 1
  MaxSlots = 3
  MaxEvents = 2
CHECK_DEADLOCK FALSE
INVARIANTS
  PairsExact
  PairsShowOneFrame
PROPERTIES
  ChainIsUnbroken
