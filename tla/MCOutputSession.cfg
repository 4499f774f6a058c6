CONSTANTS
  MaxQueued = 2
  AudioLength = 2
  CatchUp = 2
  MaxPackets = 3
  MaxFaults = 2
SPECIFICATION Spec
\* A stopped session stays stopped.
CHECK_DEADLOCK FALSE
PROPERTY StreamIsWhole
PROPERTY StopReturns
