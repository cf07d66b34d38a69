-------------------------------- MODULE Stp --------------------------------
(***************************************************************************)
(* The spanning tree of prj06 (stp.c, stp_timer.c): switches that hear     *)
(* configuration messages on their ports, and the hello timer of those     *)
(* that believe they are root.  Both threads of a switch do all they do    *)
(* under stp->lock, so a message handled and a timer expired are one step  *)
(* each; what is sent arrives later, in order on each link.                *)
(*                                                                         *)
(* Links join two ports of different switches.  The ports are numbered     *)
(* through; the program compares the numbers of one switch only.           *)
(***************************************************************************)
EXTENDS Naturals, Sequences, FiniteSets

CONSTANTS Switches,  \* the switch_id of each
          Ports,     \* the ports of all switches
          Owner,     \* the switch of a port
          Peer,      \* the port at the other end of the link
          Dist,      \* Dist[r][s]: links between r and s, for the properties
          LinkRoom,  \* bound: messages on the way over a port; others are lost
          None

ASSUME StpAssumption ==
  /\ Switches \subseteq Nat /\ Ports \subseteq Nat
  /\ Owner \in [Ports -> Switches]
  /\ Peer \in [Ports -> Ports]
  /\ \A p \in Ports : Peer[Peer[p]] = p /\ Owner[Peer[p]] # Owner[p]
  /\ LinkRoom \in Nat
  /\ None \notin Ports
  /\ Dist \in [Switches -> [Switches -> Nat]]
  /\ \A s \in Switches : Dist[s][s] = 0
  /\ \A r \in Switches, p \in Ports : Dist[r][Owner[p]] <= Dist[r][Owner[Peer[p]]] + 1

\* The network is connected, and Dist says how far it is.
ASSUME ConnectedAssumption ==
  /\ IsFiniteSet(Switches) /\ Switches # {}
  /\ \A r, s \in Switches : r # s =>
       \E p \in Ports : Owner[p] = s /\ Dist[r][s] = Dist[r][Owner[Peer[p]]] + 1

PortsOf(s) == {p \in Ports : Owner[p] = s}

\* What a port stores and a message says: the four designated_* fields.
Config == [root : Switches, cost : Nat, switch : Switches, port : Ports]

VARIABLES
  up,               \* the switches whose program runs
  designated,       \* the designated_* fields of each port
  designated_root,  \* of each switch, as are the next three
  root_path_cost,
  root_port,
  hello,            \* hello_timer is active
  link              \* messages on the way to each port

stpVars == <<up, designated, designated_root, root_path_cost, root_port, hello>>
vars    == <<stpVars, link>>

Init ==
  /\ up = {}
  /\ designated = [p \in Ports |-> [root |-> Owner[p], cost |-> 0, switch |-> Owner[p], port |-> p]]
  /\ designated_root = [s \in Switches |-> s]
  /\ root_path_cost = [s \in Switches |-> 0]
  /\ root_port = [s \in Switches |-> None]
  /\ hello = [s \in Switches |-> TRUE]
  /\ link = [p \in Ports |-> << >>]

-----------------------------------------------------------------------------
stp_is_root_switch(s) == designated_root[s] = s

\* In the fields d of all ports, p is designated.
stp_port_is_designated(d, p) == d[p].switch = Owner[p] /\ d[p].port = p

DesignatedPorts(d, s) == {p \in PortsOf(s) : stp_port_is_designated(d, p)}

\* v is worse than w, or the same.
port_cmp(v, w) ==
  \/ v.root > w.root
  \/ v.root = w.root /\ v.cost > w.cost
  \/ v.root = w.root /\ v.cost = w.cost /\ v.switch > w.switch
  \/ v.root = w.root /\ v.cost = w.cost /\ v.switch = w.switch /\ v.port >= w.port

\* The messages with which ports Q send this root and cost.
Configs(Q, root, cost) == [p \in Q |-> [root |-> root, cost |-> cost, switch |-> Owner[p], port |-> p]]

\* The links l when the ports in the domain of msgs send: what finds no room is lost.
Sent(l, msgs) ==
  [p \in Ports |-> IF Peer[p] \in DOMAIN msgs /\ Owner[p] \in up /\ Len(l[p]) < LinkRoom
                   THEN Append(l[p], msgs[Peer[p]]) ELSE l[p]]

Received(p) == [link EXCEPT ![p] = Tail(@)]

-----------------------------------------------------------------------------
\* stp_init: the switch is as Init says.
Start(s) ==
  /\ s \notin up
  /\ up' = up \cup {s}
  /\ UNCHANGED <<designated, designated_root, root_path_cost, root_port, hello, link>>

\* stp_handle_hello_timeout; the timer starts again.
HelloTimeout(s) ==
  /\ s \in up /\ hello[s]
  /\ link' = Sent(link, Configs(DesignatedPorts(designated, s), designated_root[s], root_path_cost[s]))
  /\ UNCHANGED stpVars

\* Mutant: only a message of a better root.
RenewsRoot(p) == designated_root[Owner[p]] > Head(link[p]).root

\* The message is better than what the port has, or the same.
Renews(p) == port_cmp(designated[p], Head(link[p]))

\* stp_handle_config_packet, the port knows better: it answers.
Reply(p) ==
  /\ link[p] # << >> /\ ~Renews(p)
  /\ link' = Sent(Received(p), Configs({p}, designated_root[Owner[p]], root_path_cost[Owner[p]]))
  /\ UNCHANGED stpVars

\* The best of ports Q; the switch has no two ports with the same fields.
Best(d, Q) == {p \in Q : \A q \in Q \ {p} : port_cmp(d[q], d[p])}

\* Mutant: the link to the root port costs nothing.
CostThroughFree(v) == v.cost

\* path_cost is 1.
CostThrough(v) == v.cost + 1

\* stp_handle_config_packet, the message is better, or the same.  The port is shut
\* now, and it stays so: it has no way to become designated again, because the
\* best port that is shut is the root port (stp.c 212-215).
Adopt(p) ==
  LET s    == Owner[p]
      d    == [designated EXCEPT ![p] = Head(link[p])]
      open == DesignatedPorts(d, s)
  IN  /\ link[p] # << >> /\ Renews(p)
      /\ \E best \in Best(d, PortsOf(s) \ open) :
           LET msgs == Configs(open, d[best].root, CostThrough(d[best]))
           IN  /\ root_port' = [root_port EXCEPT ![s] = best]
               /\ designated_root' = [designated_root EXCEPT ![s] = d[best].root]
               /\ root_path_cost' = [root_path_cost EXCEPT ![s] = CostThrough(d[best])]
               /\ designated' = [q \in Ports |-> IF q \in open THEN msgs[q] ELSE d[q]]
               /\ link' = Sent(Received(p), msgs)
      /\ hello' = [hello EXCEPT ![s] = @ /\ ~stp_is_root_switch(s)]
      /\ UNCHANGED up

stp_port_handle_packet(p) == Reply(p) \/ Adopt(p)

Next ==
  \/ \E s \in Switches : Start(s) \/ HelloTimeout(s)
  \/ \E p \in Ports : stp_port_handle_packet(p)

Spec == Init /\ [][Next]_vars

\* The programs are started one after another, and both threads of each go on.
Fairness ==
  /\ WF_vars(\E s \in Switches : Start(s))
  /\ \A s \in Switches : WF_vars(HelloTimeout(s))
  /\ \A p \in Ports : WF_vars(stp_port_handle_packet(p))

LiveSpec == Spec /\ Fairness

-----------------------------------------------------------------------------
(* Properties.                                                             *)

TypeOK ==
  /\ up \subseteq Switches
  /\ designated \in [Ports -> Config]
  /\ designated_root \in [Switches -> Switches]
  /\ root_path_cost \in [Switches -> Nat]
  /\ root_port \in [Switches -> Ports \cup {None}]
  /\ hello \in [Switches -> BOOLEAN]
  /\ link \in [Ports -> Seq(Config)]

\* A switch never believes in a path shorter than there is: messages that cross,
\* stored fields and a root port that changes never make up a distance
\* (stp_handle_config_packet, root_path_cost).
CostIsOfAPath == \A s \in Switches : Dist[designated_root[s]][s] <= root_path_cost[s]

Closer(r1, c1, r2, c2) == r1 < r2 \/ (r1 = r2 /\ c1 < c2)

Parent(s) == Owner[Peer[root_port[s]]]

\* A switch behind the root port always knows a better root, or a shorter way to
\* the same, although the message that said so may be old by now: the root ports
\* never lead in a circle (the choice of root_port).
ParentIsCloser ==
  \A s \in Switches : root_port[s] # None =>
    Closer(designated_root[Parent(s)], root_path_cost[Parent(s)], designated_root[s], root_path_cost[s])

Root == CHOOSE r \in Switches : \A s \in Switches : r <= s

Settled == \A s \in Switches : designated_root[s] = Root /\ root_path_cost[s] = Dist[Root][s]

\* Port p is shut, and its switch could tell the other end something better than
\* what it heard there.
Silenced(p) ==
  /\ ~stp_port_is_designated(designated, p)
  /\ Closer(designated_root[Owner[p]], root_path_cost[Owner[p]] + 1, designated[p].root, designated[p].cost)

\* All switches find the root and the shortest way, whatever the order of the
\* messages, unless a shut port that should have become designated again keeps one
\* from hearing of it (stp_handle_config_packet, stp_send_config, hello_timer).
Converges == <>[](\A p \in Ports : ~Silenced(p)) => <>[]Settled

\* stp_port_state is not ALTERNATE.
Forwards(p) == root_port[Owner[p]] = p \/ stp_port_is_designated(designated, p)

Active == {{p, Peer[p]} : p \in {q \in Ports : Forwards(q) /\ Forwards(Peer[q])}}

\* Every part of it has a switch with one link only.
IsForest(L) ==
  \A part \in (SUBSET L) \ {{}} :
    \E s \in Switches : Cardinality({l \in part : \E p \in l : Owner[p] = s}) = 1

\* The ends of every link have the same fields.
Agreed == \A p \in Ports : designated[p] = designated[Peer[p]]

\* When all ends agree no frame can go in a circle, whatever the switches still believe;
\* if no port is silenced either, there is nothing left to find out: they all know
\* the root and the shortest way (root_port, stp_port_state).
AgreedIsTree == Agreed => /\ IsForest(Active)
                          /\ (\A p \in Ports : ~Silenced(p)) => Settled

\* In the end no frame can go in a circle: every ring has a link with an alternate
\* port, whatever the order of starts and messages (the roles of stp_port_state).
Tree == <>[]IsForest(Active)
=============================================================================
