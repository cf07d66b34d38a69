\* Room for all packets at the peer; cwnd lets up to four be in flight.
SPECIFICATION Spec
CONSTANTS
  N = 4
  SeqEnd <- MCSeqEnd4
  MSS = 2
  WndMod = 32
  PeerBuf = 12
  Cwnds = {6}
  AckRoom = 1
  MaxTimeouts = 1
CHECK_DEADLOCK FALSE
INVARIANTS
  NothingForgotten
  SendBufIsUnacked
  SleeperIsDue
