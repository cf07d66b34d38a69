---------------------------- MODULE Nat_proofs ----------------------------
(* For any hosts, servers, remote endpoints, pool and rules: the types,    *)
(* and a connection has one mapping.                                       *)
EXTENDS Nat, TLAPS

\* A packet from inside that would make a mapping comes from a host.
PktOK == pkt \in OutPkt => (pkt.syn => pkt.internal \in Hosts)

\* A mapping of a server has the port of its rule.
ServersByRule ==
  \A i \in 1 .. Len(mappings) :
    mappings[i].internal \in Servers =>
      /\ mappings[i].external_port \in DOMAIN Rules
      /\ Rules[mappings[i].external_port] = mappings[i].internal

IInv == TypeOK /\ PktOK /\ ServersByRule /\ OneMappingPerFlow

-----------------------------------------------------------------------------
\* Deleting a position leaves the other elements, in order.
LEMMA WithoutDef ==
  ASSUME NEW S, NEW s \in Seq(S), NEW i \in 1 .. Len(s)
  PROVE  /\ Without(s, i) \in Seq(S)
         /\ Len(Without(s, i)) = Len(s) - 1
         /\ \A j \in 1 .. Len(s) - 1 : Without(s, i)[j] = IF j < i THEN s[j] ELSE s[j + 1]
<1>1. Len(s) - 1 \in Nat
  OBVIOUS
<1>2. \A j \in 1 .. Len(s) - 1 : s[j] \in S /\ s[j + 1] \in S
  OBVIOUS
<1>3. Without(s, i) \in [1 .. Len(s) - 1 -> S]
  BY <1>2 DEF Without
<1>4. Without(s, i) \in Seq(S)
  BY <1>1, <1>3
<1>5. Len(Without(s, i)) = Len(s) - 1
  BY <1>1, <1>3, <1>4
<1>6. QED
  BY <1>4, <1>5 DEF Without

LEMMA InitIInv == Init => IInv
<1>1. Init => TypeOK
  BY DEF Init, TypeOK
<1>2. Init => PktOK
  BY NatAssumption DEF Init, PktOK
<1>3. Init => ServersByRule /\ OneMappingPerFlow
  BY DEF Init, ServersByRule, OneMappingPerFlow
<1>4. QED
  BY <1>1, <1>2, <1>3 DEF IInv

-----------------------------------------------------------------------------
LEMMA ArriveIInv == IInv /\ Arrive => IInv'
<1> SUFFICES ASSUME IInv, Arrive PROVE IInv'
  OBVIOUS
<1>1. TypeOK'
  BY DEF IInv, TypeOK, Arrive, Outgoing, Incoming
<1>2. PktOK'
  BY DEF PktOK, Arrive, Outgoing, Incoming, OutPkt, InPkt, Invalid
<1>3. ServersByRule' /\ OneMappingPerFlow'
  BY DEF IInv, Arrive, ServersByRule, OneMappingPerFlow
<1>4. QED
  BY <1>1, <1>2, <1>3 DEF IInv

LEMMA RefuseIInv == IInv /\ Refuse => IInv'
<1> SUFFICES ASSUME IInv, Refuse PROVE IInv'
  OBVIOUS
<1>1. TypeOK'
  BY DEF IInv, TypeOK, Refuse
<1>2. PktOK'
  BY NatAssumption DEF PktOK, Refuse
<1>3. ServersByRule' /\ OneMappingPerFlow'
  BY DEF IInv, Refuse, ServersByRule, OneMappingPerFlow
<1>4. QED
  BY <1>1, <1>2, <1>3 DEF IInv

\* A new mapping is the first of its connection.
LEMMA OpenIInv == IInv /\ do_translation /\ Open => IInv'
<1> SUFFICES ASSUME IInv, do_translation, Open PROVE IInv'
  OBVIOUS
<1> DEFINE n == Len(mappings)
<1>1. pkt \in OutPkt \cup InPkt
  BY DEF IInv, TypeOK, do_translation
<1>2. PICK m \in NewMappings(pkt) :
        /\ mappings' = Append(mappings, m)
        /\ met' = [met EXCEPT ![m.remote] = @ \cup {<<m.internal, m.external_port>>}]
  BY DEF Open
<1>3. /\ m \in Mapping
      /\ m.remote = pkt.remote
      /\ m.internal \in Servers => m.external_port \in DOMAIN Rules /\ Rules[m.external_port] = m.internal
      /\ pkt.dir = "out" => m.internal = pkt.internal /\ m.internal \in Hosts
      /\ pkt.dir = "in" => m.internal \in Servers /\ m.external_port = pkt.port
  <2>1. CASE pkt \in OutPkt
    <3>1. pkt.dir = "out" /\ pkt.remote \in Remotes /\ pkt.internal \in Hosts
      BY <2>1 DEF OutPkt, IInv, PktOK, Open
    <3>2. PICK port \in FreePorts : m = NewMapping(pkt, pkt.internal, port)
      BY <3>1 DEF NewMappings
    <3>3. QED
      BY <3>1, <3>2, NatAssumption DEF NewMapping, FreePorts, Mapping, Inside, Ports
  <2>2. CASE pkt \in InPkt
    <3>1. pkt.dir = "in" /\ pkt.remote \in Remotes
      BY <2>2 DEF InPkt
    <3>2. PICK port \in DOMAIN Rules \cap {pkt.port} : m = NewMapping(pkt, Rules[port], port)
      BY <3>1 DEF NewMappings
    <3>3. QED
      BY <3>1, <3>2, NatAssumption DEF NewMapping, Mapping, Inside, Ports
  <2>3. QED
    BY <1>1, <2>1, <2>2
<1>4. mappings \in Seq(Mapping) /\ met \in [Remotes -> SUBSET (Inside \X Ports)]
  BY DEF IInv, TypeOK
<1>5. /\ mappings' \in Seq(Mapping) /\ Len(mappings') = n + 1
      /\ \A i \in 1 .. n : mappings'[i] = mappings[i]
      /\ mappings'[n + 1] = m
  BY <1>2, <1>3, <1>4
<1>6. met' \in [Remotes -> SUBSET (Inside \X Ports)]
  <2>1. m.remote \in Remotes /\ m.internal \in Inside /\ m.external_port \in Ports
    BY <1>3 DEF Mapping
  <2>2. QED
    BY <1>2, <1>4, <2>1
<1>7. TypeOK'
  BY <1>5, <1>6 DEF IInv, TypeOK, do_translation, Open
<1>8. PktOK'
  BY NatAssumption DEF PktOK, do_translation
<1>11. ServersByRule'
  BY <1>3, <1>4, <1>5 DEF IInv, ServersByRule
<1>12. \A i \in 1 .. n : ~(mappings[i].remote = m.remote /\ mappings[i].internal = m.internal)
  <2>1. ASSUME NEW i \in 1 .. n, mappings[i].remote = m.remote, mappings[i].internal = m.internal
        PROVE  FALSE
    <3>1. ~Matches(mappings[i], pkt)
      BY DEF Open, Unmatched
    <3>2. CASE pkt.dir = "out"
      BY <2>1, <1>3, <3>1, <3>2 DEF Matches
    <3>3. CASE pkt.dir = "in"
      <4>1. mappings[i].external_port \in DOMAIN Rules /\ Rules[mappings[i].external_port] = m.internal
        BY <2>1, <1>3, <3>3 DEF IInv, ServersByRule
      <4>2. m.external_port \in DOMAIN Rules /\ Rules[m.external_port] = m.internal
        BY <1>3, <3>3
      <4>3. mappings[i].external_port = pkt.port
        BY <4>1, <4>2, <1>3, <3>3, NatAssumption
      <4>4. QED
        BY <2>1, <1>3, <3>1, <3>3, <4>3 DEF Matches
    <3>4. QED
      BY <1>1, <3>2, <3>3 DEF OutPkt, InPkt
  <2>2. QED
    BY <2>1
<1>13. OneMappingPerFlow'
  <2>1. ASSUME NEW i \in 1 .. n + 1, NEW j \in 1 .. n + 1,
               mappings'[i].remote = mappings'[j].remote,
               mappings'[i].internal = mappings'[j].internal
        PROVE  i = j
    <3>1. CASE i \in 1 .. n /\ j \in 1 .. n
      BY <2>1, <3>1, <1>5 DEF IInv, OneMappingPerFlow
    <3>2. CASE i = n + 1 /\ j \in 1 .. n
      BY <2>1, <3>2, <1>5, <1>12
    <3>3. CASE i \in 1 .. n /\ j = n + 1
      BY <2>1, <3>3, <1>5, <1>12
    <3>4. CASE i = n + 1 /\ j = n + 1
      BY <3>4
    <3>5. QED
      BY <3>1, <3>2, <3>3, <3>4, <1>4
  <2>2. QED
    BY <2>1, <1>5 DEF OneMappingPerFlow
<1>14. QED
  BY <1>7, <1>8, <1>11, <1>13 DEF IInv

\* A mapping that is found keeps its endpoints and its port.
LEMMA TranslateIInv == IInv /\ do_translation /\ (\E i \in 1 .. Len(mappings) : Translate(i)) => IInv'
<1> SUFFICES ASSUME IInv, do_translation, NEW i \in 1 .. Len(mappings), Translate(i) PROVE IInv'
  OBVIOUS
<1>1. pkt \in OutPkt \cup InPkt /\ mappings \in Seq(Mapping)
  BY DEF IInv, TypeOK, do_translation
<1>2. pkt.fin \in BOOLEAN
  BY <1>1 DEF OutPkt, InPkt
<1>3. mappings[i] \in Mapping
  BY <1>1
<1>4. /\ Updated(mappings[i], pkt) \in Mapping
      /\ Updated(mappings[i], pkt).remote = mappings[i].remote
      /\ Updated(mappings[i], pkt).internal = mappings[i].internal
      /\ Updated(mappings[i], pkt).external_port = mappings[i].external_port
  BY <1>2, <1>3 DEF Updated, Mapping
<1>5. mappings' \in Seq(Mapping) /\ Len(mappings') = Len(mappings)
  BY <1>1, <1>4 DEF Translate
<1>6. \A j \in 1 .. Len(mappings) :
        /\ mappings'[j].remote = mappings[j].remote
        /\ mappings'[j].internal = mappings[j].internal
        /\ mappings'[j].external_port = mappings[j].external_port
  BY <1>1, <1>4 DEF Translate
<1>7. TypeOK'
  BY <1>5 DEF IInv, TypeOK, do_translation, Translate
<1>8. PktOK'
  BY NatAssumption DEF PktOK, do_translation
<1>10. ServersByRule'
  BY <1>5, <1>6 DEF IInv, ServersByRule
<1>11. OneMappingPerFlow'
  BY <1>5, <1>6 DEF IInv, OneMappingPerFlow
<1>12. QED
  BY <1>7, <1>8, <1>10, <1>11 DEF IInv

\* The table stays: no mapping, no port or rule, the bounds of a round, one that is kept.
LEMMA SameTableIInv ==
  IInv /\ ((do_translation /\ (Unknown \/ Leak)) \/ SweepBegin \/ SweepKeep \/ SweepEnd) => IInv'
<1> SUFFICES ASSUME IInv, (do_translation /\ (Unknown \/ Leak)) \/ SweepBegin \/ SweepKeep \/ SweepEnd
             PROVE  IInv'
  OBVIOUS
<1>1. mappings' = mappings /\ met' = met /\ assigned_ports' = assigned_ports
  BY DEF do_translation, Unknown, Leak, SweepBegin, SweepKeep, SweepEnd
<1>2. pkt' = None \/ pkt' = pkt
  BY DEF do_translation, SweepBegin, SweepKeep, SweepEnd
<1>3. lock' \in {"free", "net", "timeout"} /\ pos' \in Nat \ {0}
  BY DEF IInv, TypeOK, do_translation, Unknown, Leak, SweepBegin, SweepKeep, SweepEnd
<1>4. TypeOK'
  BY <1>1, <1>2, <1>3 DEF IInv, TypeOK
<1>5. PktOK'
  BY <1>1, <1>2, NatAssumption DEF IInv, PktOK
<1>6. ServersByRule' /\ OneMappingPerFlow'
  BY <1>1 DEF IInv, ServersByRule, OneMappingPerFlow
<1>7. QED
  BY <1>4, <1>5, <1>6 DEF IInv

\* The sweep takes one mapping and leaves the others.
LEMMA SweepDeleteIInv == IInv /\ SweepDelete => IInv'
<1> SUFFICES ASSUME IInv, SweepDelete PROVE IInv'
  OBVIOUS
<1> DEFINE n == Len(mappings)
<1> DEFINE from(j) == IF j < pos THEN j ELSE j + 1
<1>1. mappings \in Seq(Mapping) /\ pos \in Nat \ {0}
  BY DEF IInv, TypeOK
<1>3. pos \in 1 .. n
  BY <1>1 DEF SweepDelete
<1>4. /\ mappings' \in Seq(Mapping) /\ Len(mappings') = n - 1
      /\ \A j \in 1 .. n - 1 : mappings'[j] = IF j < pos THEN mappings[j] ELSE mappings[j + 1]
  BY <1>1, <1>3, WithoutDef DEF SweepDelete
<1>5. \A j \in 1 .. n - 1 : from(j) \in 1 .. n /\ mappings'[j] = mappings[from(j)]
  BY <1>1, <1>3, <1>4
<1>6. \A j, k \in 1 .. n - 1 : from(j) = from(k) => j = k
  BY <1>1, <1>3
<1> HIDE DEF from
<1>7. TypeOK'
  BY <1>4 DEF IInv, TypeOK, SweepDelete
<1>8. PktOK'
  BY DEF IInv, PktOK, SweepDelete
<1>10. ServersByRule'
  BY <1>4, <1>5 DEF IInv, ServersByRule
<1>11. OneMappingPerFlow'
  <2> SUFFICES ASSUME NEW i \in 1 .. n - 1, NEW j \in 1 .. n - 1,
                      mappings'[i].remote = mappings'[j].remote,
                      mappings'[i].internal = mappings'[j].internal
               PROVE  i = j
    BY <1>4 DEF OneMappingPerFlow
  <2>1. /\ from(i) \in 1 .. Len(mappings) /\ mappings'[i] = mappings[from(i)]
        /\ from(j) \in 1 .. Len(mappings) /\ mappings'[j] = mappings[from(j)]
    BY <1>5
  <2>2. from(i) = from(j)
    BY <2>1 DEF IInv, OneMappingPerFlow
  <2> QED BY <1>6, <2>2
<1>12. QED
  BY <1>7, <1>8, <1>10, <1>11 DEF IInv

LEMMA SilenceIInv == IInv /\ Silence => IInv'
<1> SUFFICES ASSUME IInv, Silence PROVE IInv'
  OBVIOUS
<1>1. PICK i \in 1 .. Len(mappings) : mappings' = [mappings EXCEPT ![i].silent = TRUE]
  BY DEF Silence
<1>2. mappings \in Seq(Mapping)
  BY DEF IInv, TypeOK
<1>3. mappings[i] \in Mapping
  BY <1>2
<1>4. [mappings[i] EXCEPT !.silent = TRUE] \in Mapping
  BY <1>3 DEF Mapping
<1>5. mappings' \in Seq(Mapping) /\ Len(mappings') = Len(mappings)
  BY <1>1, <1>2, <1>4
<1>6. \A j \in 1 .. Len(mappings) :
        /\ mappings'[j].remote = mappings[j].remote
        /\ mappings'[j].internal = mappings[j].internal
        /\ mappings'[j].external_port = mappings[j].external_port
  BY <1>1, <1>2, <1>3 DEF Mapping
<1>7. TypeOK'
  BY <1>5 DEF IInv, TypeOK, Silence
<1>8. PktOK'
  BY DEF IInv, PktOK, Silence
<1>9. ServersByRule' /\ OneMappingPerFlow'
  BY <1>5, <1>6 DEF IInv, ServersByRule, OneMappingPerFlow, Silence
<1>10. QED
  BY <1>7, <1>8, <1>9 DEF IInv

-----------------------------------------------------------------------------
LEMMA NextIInv == IInv /\ [Next]_vars => IInv'
<1>1. IInv /\ UNCHANGED vars => IInv'
  BY DEF vars, IInv, TypeOK, PktOK, ServersByRule, OneMappingPerFlow
<1>2. do_translation => \/ do_translation /\ (Unknown \/ Leak)
                        \/ do_translation /\ Open
                        \/ do_translation /\ \E i \in 1 .. Len(mappings) : Translate(i)
  BY DEF do_translation
<1>3. QED
  BY <1>1, <1>2, ArriveIInv, RefuseIInv, OpenIInv, TranslateIInv, SameTableIInv, SweepDeleteIInv,
     SilenceIInv DEF Next, Handle, Sweep

LEMMA SpecIInv == Spec => []IInv
  BY InitIInv, NextIInv, PTL DEF Spec

\* The table, the lock and the packet are what nat.h declares.
THEOREM TypeCorrect == Spec => []TypeOK
<1>1. IInv => TypeOK
  BY DEF IInv
<1>2. QED
  BY <1>1, SpecIInv, PTL

\* do_translation makes a mapping only when there is none for the connection, from
\* whichever side the SYN comes, and the sweep takes mappings one by one.
THEOREM OneMapping == Spec => []OneMappingPerFlow
<1>1. IInv => OneMappingPerFlow
  BY DEF IInv
<1>2. QED
  BY <1>1, SpecIInv, PTL
=============================================================================
