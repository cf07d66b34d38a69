\* Segments that arrive in descending order.
SPECIFICATION RingLiveSpec
CONSTANTS
  StreamLen = 9
  Segs <- MCSegs
  RcvBufSize = 4
  ReadLen = 2
PROPERTIES
  EarlyIsPended
