------------------------------- MODULE MCStp -------------------------------
(* A finite instance of Stp.                                               *)
EXTENDS Stp

\* A ring of four as in four_node_ring.py, numbered so that 2 is opposite to 1:
\* 1 - 3, 1 - 4, 2 - 3, 2 - 4.  Port 10 s + t leads from switch s to switch t.
MCPorts == {13, 14, 23, 24, 31, 32, 41, 42}
MCOwner == [p \in MCPorts |-> p \div 10]
MCPeer  == [p \in MCPorts |-> 10 * (p % 10) + (p \div 10)]
MCDist  == [r \in 1 .. 4 |-> [s \in 1 .. 4 |->
  IF r = s THEN 0 ELSE IF {r, s} \in {{1, 2}, {3, 4}} THEN 2 ELSE 1]]
=============================================================================
