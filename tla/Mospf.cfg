\* The routers r4 - r1 - r2 - r3, numbers that wrap soon; one of them stops once.
SPECIFICATION LiveSpec
CONSTANTS
  Routers = {"r1", "r2", "r3", "r4"}
  Adjacent <- MCAdjacent
  Origin = "r1"
  Followed = {"r1", "r2", "r3"}
  SeqMod = 2
  DatabaseTimeout = 1
  LinkRoom = 1
  MaxStops = 1
  None = None
CHECK_DEADLOCK FALSE
PROPERTIES
  Forgotten
  KnownAgain
