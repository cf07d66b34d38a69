\* Three hosts announce themselves to a table of two slots; two packets go to or
\* come from one of them, or from ourselves.
SPECIFICATION LiveSpec
CONSTANTS
  Hosts = {h1, h2, h3}
  Peers = {h1}
  Self = Self
  Macs = {m1, m2}
  Packets = {p1, p2}
  Senders = {t1, t2}
  Sweeper = sweeper
  Size = 2
  MaxRetries = 2
CHECK_DEADLOCK FALSE
INVARIANTS
  EntryIsLatest
  PendingOnce
PROPERTIES
  LearnedIsFlushed
  PacketSettled
