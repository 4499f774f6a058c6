SPECIFICATION FairSpec
CHECK_DEADLOCK FALSE
CONSTANTS
  Clients <- Sessions
  Events = {"connected", "failed"}
  MaxTransports = 2
  MaxParked = 1
  MaxJobs = 2
  MaxInputs = 3
  MaxLives = 1
INVARIANTS
  NoRebuildAfterCancel
  NoLateCallback
PROPERTIES
  SectionsSurviveRebuild
  RechecksAndCallsEnd
