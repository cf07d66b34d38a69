----------------------------- MODULE MCTcpRecv -----------------------------
(* A finite instance of TcpRecvRing.                                      *)
EXTENDS TcpRecvRing

\* Five segments of unequal length: one may be stored, two wait out of order in
\* either order, one be missing, and one come early when the list head is no longer
\* good.  The third crosses the end of the ring, which has five bytes.
MCSegs == {[seq |-> 0, seq_end |-> 2], [seq |-> 2, seq_end |-> 3],
           [seq |-> 3, seq_end |-> 6], [seq |-> 6, seq_end |-> 8],
           [seq |-> 8, seq_end |-> 9]}
=============================================================================
