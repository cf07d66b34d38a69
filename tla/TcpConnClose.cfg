\* The client closes while its data is not acknowledged.
SPECIFICATION BestSpec
CONSTANTS
  Clients = {c1}
  MaxData = 1
  ServerCloses = FALSE
  NetRoom = 2
CHECK_DEADLOCK FALSE
PROPERTIES
  CloseCompletes
