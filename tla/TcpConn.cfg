\* One connection: data, both ends may close, in either order or at once, losses
\* without bound.
SPECIFICATION LiveSpec
CONSTANTS
  Clients = {c1}
  MaxData = 1
  ServerCloses = TRUE
  NetRoom = 2
CHECK_DEADLOCK FALSE
INVARIANTS
  CloseAgreed
  ExpectsWhatWasSent
  NoWakeupLost
PROPERTIES
  ConnectReturns
  QueuedIsAccepted
  FinIsHeard
