------------------------------ MODULE MCMospf ------------------------------
(* A finite instance of Mospf.                                             *)
EXTENDS Mospf

\* A row of four routers, Origin next to its end: r4 - r1 - r2 - r3.
MCAdjacent == LET links == {<<"r4", "r1">>, <<"r1", "r2">>, <<"r2", "r3">>}
              IN  links \cup {<<l[2], l[1]>> : l \in links}
=============================================================================
