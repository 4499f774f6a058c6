CONSTANTS
  MaxQueued = 1
  MaxIdentities = 3
  Priming = 2
  MaxPending = 2
  PipeRoom = 2
  MaxProbes = 2
  MaxFrames = 3
  MaxEvents = 3
SPECIFICATION Spec
PROPERTY ImplementsFrameEncoder
PROPERTY CallsReturn
