SPECIFICATION Spec
CONSTANTS
  Sockets = {s1, s2}
  NoSocket = NoSocket
  NoCallback = NoCallback
  MaxSessions = 1
INVARIANT LossIsRecovered
