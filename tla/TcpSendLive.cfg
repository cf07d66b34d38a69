\* A peer whose buffer fills up, unbounded timeouts and losses.
SPECIFICATION LiveSpec
CONSTANTS
  N = 2
  SeqEnd <- MCSeqEnd2
  MSS = 2
  WndMod = 32
  PeerBuf = 3
  Cwnds = {1, 2}
  AckRoom = 1
  MaxTimeouts = 0
CHECK_DEADLOCK FALSE
PROPERTIES
  WriterReturns
  TransferCompletes
