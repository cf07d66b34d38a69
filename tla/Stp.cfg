\* A ring of four switches, the two with the lowest numbers opposite; a message on
\* the way over each link and direction.
SPECIFICATION LiveSpec
CONSTANTS
  Switches = {1, 2, 3, 4}
  Ports <- MCPorts
  Owner <- MCOwner
  Peer <- MCPeer
  Dist <- MCDist
  LinkRoom = 1
  None = None
CHECK_DEADLOCK FALSE
INVARIANTS
  CostIsOfAPath
  ParentIsCloser
  AgreedIsTree
PROPERTIES
  Converges
  Tree
