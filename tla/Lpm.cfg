\* Addresses of five bits in keys of two: nodes of two full levels and one of one bit.
SPECIFICATION Spec
CONSTANTS
  K = 2
  W = 5
  Table <- MCTable
  NULL = NULL
CHECK_DEADLOCK FALSE
INVARIANTS
  BaseIsLongestMatch
  PoptrieIsLongestMatch
