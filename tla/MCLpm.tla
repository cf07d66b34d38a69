------------------------------- MODULE MCLpm -------------------------------
(* A finite instance of Lpm.                                               *)
EXTENDS Lpm

\* Prefixes within others of the same node, of the node above and of the one above
\* that; children that take the first, the middle or the only slot of a run of leaves.
MCPrefixes == {<<0, 1>>, <<8, 2>>, <<16, 1>>, <<16, 2>>, <<12, 4>>, <<22, 4>>}
  \cup ({0, 4, 8, 12, 20} \X {3}) \cup ({1, 2, 10, 13, 21} \X {5})
MCTable ==
  {[dest |-> [i \in 1 .. W |-> (d[1] \div 2^(W - i)) % 2], mask |-> d[2], iface |-> 10 * d[1] + d[2]] :
     d \in MCPrefixes}
=============================================================================
