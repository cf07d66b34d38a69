-------------------------------- MODULE Nat --------------------------------
(***************************************************************************)
(* The network address translator of prj10 (nat.c): the thread that polls  *)
(* the devices translates one packet after another, the timeout thread     *)
(* sweeps the table, nat.lock is between them.  The thread that polls      *)
(* touches the table in one critical section for each packet, so that is   *)
(* one step; the sweep is one step for each mapping, the lock being held.  *)
(*                                                                         *)
(* An endpoint is an address with a port.  The lists of the hash table are *)
(* one list: a lookup compares the remote endpoint, which chooses the      *)
(* list.  Acknowledgement numbers are stored in network byte order and     *)
(* compared with numbers in host byte order (nat.c 74, 81, 184), so the    *)
(* outcome of the comparison is left open.                                 *)
(***************************************************************************)
EXTENDS Naturals, Sequences, FiniteSets

CONSTANTS Hosts,    \* internal endpoints that open connections
          Servers,  \* internal endpoints that a dnat rule leads to
          Remotes,  \* external endpoints
          Pool,     \* NAT_PORT_MIN .. NAT_PORT_MAX
          Rules,    \* external port of a dnat rule |-> internal endpoint
          None

Inside == Hosts \cup Servers
Ports  == Pool \cup DOMAIN Rules

Mapping == [remote : Remotes, internal : Inside, external_port : Ports,
            internal_fin : BOOLEAN, external_fin : BOOLEAN,
            silent : BOOLEAN]     \* update_time is TCP_ESTABLISHED_TIMEOUT ago

OutPkt  == [dir : {"out"}, remote : Remotes, internal : Inside, syn : BOOLEAN, fin : BOOLEAN]
InPkt   == [dir : {"in"}, remote : Remotes, port : Ports, syn : BOOLEAN, fin : BOOLEAN]
Invalid == [dir |-> "invalid"]    \* DIR_INVALID, or no TCP

ASSUME NatAssumption ==
  /\ Pool \subseteq Nat
  /\ DOMAIN Rules \subseteq Nat
  /\ Rules \in [DOMAIN Rules -> Servers]
  /\ \A p, q \in DOMAIN Rules : Rules[p] = Rules[q] => p = q
  /\ Hosts \cap Servers = {}
  /\ None \notin OutPkt \cup InPkt

VARIABLES
  mappings,        \* nat_mapping_list
  assigned_ports,  \* the ports marked in assigned_ports
  lock,            \* nat.lock: "free", or its holder "net" or "timeout"
  pkt,             \* the packet the polling thread is at
  pos,             \* the mapping the timeout thread is at
  met              \* met[r]: the connections r has, with the external port it knows

vars == <<mappings, assigned_ports, lock, pkt, pos, met>>

Init ==
  /\ mappings = << >> /\ assigned_ports = {}
  /\ lock = "free" /\ pkt = None /\ pos = 1
  /\ met = [r \in Remotes |-> {}]

-----------------------------------------------------------------------------
(* The packets that come.                                                  *)

\* Hosts open connections, servers answer, both go on and end.  A server answers
\* within TCP_ESTABLISHED_TIMEOUT, so its SYN | ACK finds a mapping.
Outgoing ==
  {p \in OutPkt : /\ p.syn => p.internal \in Hosts /\ ~p.fin
                  /\ p.internal \in Servers => \E c \in met[p.remote] : c[1] = p.internal}

\* A remote endpoint opens a connection to the port of a rule, or to one without,
\* or goes on with a connection it has.
Incoming ==
  {p \in InPkt : \/ p.syn /\ ~p.fin
                 \/ ~p.syn /\ \E c \in met[p.remote] : c[2] = p.port}

Arrive ==
  /\ pkt = None
  /\ pkt' \in Outgoing \cup Incoming \cup {Invalid}
  /\ UNCHANGED <<mappings, assigned_ports, lock, pos, met>>

\* nat_translate_packet, a packet it does not translate.
Refuse ==
  /\ pkt = Invalid
  /\ pkt' = None
  /\ UNCHANGED <<mappings, assigned_ports, lock, pos, met>>

-----------------------------------------------------------------------------
(* do_translation.                                                         *)

\* Mutant: the port of a packet from outside is compared with the internal one.
MatchesInternalPort(m, p) == m.remote = p.remote /\ p.dir = "out" /\ m.internal = p.internal

Matches(m, p) ==
  /\ m.remote = p.remote
  /\ \/ p.dir = "out" /\ m.internal = p.internal
     \/ p.dir = "in"  /\ m.external_port = p.port

Unmatched(p) == \A i \in 1 .. Len(mappings) : ~Matches(mappings[i], p)

\* The first mapping of the list that matches.
First(p) == {i \in 1 .. Len(mappings) :
               /\ Matches(mappings[i], p)
               /\ \A j \in 1 .. i - 1 : ~Matches(mappings[j], p)}

\* The FIN bit of the latest packet replaces the one before; update_time is now.
Updated(m, p) ==
  IF p.dir = "in" THEN [m EXCEPT !.external_fin = p.fin, !.silent = FALSE]
                  ELSE [m EXCEPT !.internal_fin = p.fin, !.silent = FALSE]

Translate(i) ==
  /\ i \in First(pkt)
  /\ mappings' = [mappings EXCEPT ![i] = Updated(@, pkt)]
  /\ UNCHANGED <<lock, met>>

\* No mapping, no SYN: an ICMP error.
Unknown ==
  /\ Unmatched(pkt) /\ ~pkt.syn
  /\ UNCHANGED <<mappings, lock, met>>

\* The fields of the other side are what malloc returned, but a SYN clears its own
\* side's FIN, and the sweep needs both; the other side's packet comes before the
\* second of them.
NewMapping(p, internal, port) ==
  [remote |-> p.remote, internal |-> internal, external_port |-> port,
   internal_fin |-> FALSE, external_fin |-> FALSE, silent |-> FALSE]

FreePorts == Pool \ assigned_ports

\* The mapping that a SYN makes, if there is one: the first free port, which is
\* not marked as assigned (nat.c 100), or the rule for the port.
NewMappings(p) ==
  IF p.dir = "out"
  THEN {NewMapping(p, p.internal, port) : port \in {q \in FreePorts : \A r \in FreePorts : q <= r}}
  ELSE {NewMapping(p, Rules[port], port) : port \in DOMAIN Rules \cap {p.port}}

Open ==
  /\ Unmatched(pkt) /\ pkt.syn
  /\ \E m \in NewMappings(pkt) :
       /\ mappings' = Append(mappings, m)
       /\ met' = [met EXCEPT ![m.remote] = @ \cup {<<m.internal, m.external_port>>}]
  /\ UNCHANGED lock

\* No port and no rule: this return leaves the lock taken.
Leak ==
  /\ Unmatched(pkt) /\ pkt.syn /\ NewMappings(pkt) = {}
  /\ lock' = "net"
  /\ UNCHANGED <<mappings, met>>

do_translation ==
  /\ pkt \notin {None, Invalid} /\ lock = "free"
  /\ Unknown \/ Open \/ Leak \/ \E i \in 1 .. Len(mappings) : Translate(i)
  /\ pkt' = None
  /\ UNCHANGED <<assigned_ports, pos>>

-----------------------------------------------------------------------------
(* nat_timeout.                                                            *)

is_flow_finished(m) == m.internal_fin /\ m.external_fin

SweepBegin ==
  /\ lock = "free" /\ lock' = "timeout"
  /\ pos' = 1
  /\ UNCHANGED <<mappings, assigned_ports, pkt, met>>

\* list_delete_entry at position i.
Without(s, i) == [j \in 1 .. Len(s) - 1 |-> IF j < i THEN s[j] ELSE s[j + 1]]

SweepDelete ==
  /\ lock = "timeout" /\ pos <= Len(mappings)
  /\ mappings[pos].silent \/ is_flow_finished(mappings[pos])
  /\ mappings' = Without(mappings, pos)
  /\ assigned_ports' = assigned_ports \ {mappings[pos].external_port}
  /\ UNCHANGED <<lock, pkt, pos, met>>

\* Mutant: a mapping that is silent stays if only one side has ended.
SweepKeepHalf ==
  /\ lock = "timeout" /\ pos <= Len(mappings)
  /\ mappings[pos].silent => mappings[pos].internal_fin # mappings[pos].external_fin
  /\ pos' = pos + 1
  /\ UNCHANGED <<mappings, assigned_ports, lock, pkt, met>>

\* A mapping stays that is not silent: not finished, or its numbers say so.
SweepKeep ==
  /\ lock = "timeout" /\ pos <= Len(mappings)
  /\ ~mappings[pos].silent
  /\ pos' = pos + 1
  /\ UNCHANGED <<mappings, assigned_ports, lock, pkt, met>>

\* Mutant: the thread ends its round with the lock.
SweepEndLocked ==
  /\ lock = "timeout" /\ pos > Len(mappings)
  /\ pos' = 1
  /\ UNCHANGED <<mappings, assigned_ports, lock, pkt, met>>

SweepEnd ==
  /\ lock = "timeout" /\ pos > Len(mappings)
  /\ lock' = "free"
  /\ UNCHANGED <<mappings, assigned_ports, pkt, pos, met>>

Sweep == SweepBegin \/ SweepDelete \/ SweepKeep \/ SweepEnd

\* Time passes: TCP_ESTABLISHED_TIMEOUT without a packet.
Silence ==
  /\ lock # "timeout"
  /\ \E i \in 1 .. Len(mappings) : /\ ~mappings[i].silent
                                   /\ mappings' = [mappings EXCEPT ![i].silent = TRUE]
  /\ UNCHANGED <<assigned_ports, lock, pkt, pos, met>>

-----------------------------------------------------------------------------
Handle == Refuse \/ do_translation
Next   == Arrive \/ Handle \/ Sweep \/ Silence

Spec == Init /\ [][Next]_vars

\* Both threads go on.  The timeout thread sleeps for a second between two rounds,
\* so the polling thread gets the lock when it waits for it.
LiveSpec == Spec /\ SF_vars(Handle) /\ WF_vars(Sweep)

-----------------------------------------------------------------------------
(* Properties.                                                             *)

TypeOK ==
  /\ mappings \in Seq(Mapping)
  /\ assigned_ports \subseteq Ports
  /\ lock \in {"free", "net", "timeout"}
  /\ pkt \in OutPkt \cup InPkt \cup {Invalid, None}
  /\ pos \in Nat \ {0}
  /\ met \in [Remotes -> SUBSET (Inside \X Ports)]

\* A connection has one mapping: otherwise its two directions may use different
\* ones (the lookup before the insertion in do_translation, from either side, while
\* the sweep takes mappings away).
OneMappingPerFlow ==
  \A i, j \in 1 .. Len(mappings) :
    /\ mappings[i].remote = mappings[j].remote
    /\ mappings[i].internal = mappings[j].internal
    => i = j

Leaked == lock = "net"

\* A packet is dealt with, unless a SYN was refused before (do_translation and
\* the lock the sweep holds again and again).
Served == pkt # None ~> pkt = None \/ Leaked

SilentFlow(r, h) ==
  \E i \in 1 .. Len(mappings) : mappings[i].remote = r /\ mappings[i].internal = h /\ mappings[i].silent

\* A mapping that is silent goes, or is used again (nat_timeout).
SilentIsSwept ==
  \A r \in Remotes, h \in Inside : SilentFlow(r, h) ~> ~SilentFlow(r, h) \/ Leaked
=============================================================================
