SPECIFICATION FairSpec
CONSTANTS
  Sockets = {s1, s2}
  NoSocket = NoSocket
  NoCallback = NoCallback
  MaxSessions = 3
INVARIANTS
  OwnersKeepWhatTheyUse
  RestIsConsistent
PROPERTIES
  CallsReturn
  Recovers
