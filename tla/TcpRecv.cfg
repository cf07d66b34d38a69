\* rcv_buf holds fewer bytes than two of the segments together, so the network
\* thread sleeps before storing a segment and while draining early ones.
SPECIFICATION RingLiveSpec
CONSTANTS
  StreamLen = 9
  Segs <- MCSegs
  RcvBufSize = 4
  ReadLen = 2
INVARIANTS
  StreamPrefix
  RcvWndIsRoom
  OfoSortedAndMissing
  AckedIsStored
  RcvBufIsRing
PROPERTIES
  Stream
  SleeperReads
  AllAcknowledged
