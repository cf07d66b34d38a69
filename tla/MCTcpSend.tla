----------------------------- MODULE MCTcpSend -----------------------------
(* Finite instances of TcpSend.                                            *)
EXTENDS TcpSend

\* Packets of MSS = 2 bytes; the last one is short.
MCSeqEnd4 == [k \in 0 .. 4 |-> IF k = 4 THEN 7 ELSE 2 * k]
MCSeqEnd2 == [k \in 0 .. 2 |-> 2 * k]
=============================================================================
