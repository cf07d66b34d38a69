SPECIFICATION LiveSpec
CONSTANTS
  Socks = {s1, s2}
  Queue = Queue
  Pending = Pending
  MaxAccepts = 2
CHECK_DEADLOCK FALSE
INVARIANTS
  FirstIsQueued
PROPERTIES
  FirstIsAccepted
