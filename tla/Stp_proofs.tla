----------------------------- MODULE Stp_proofs -----------------------------
(* For any switches, links and numbers: costs are those of paths, and the  *)
(* root ports lead nearer to the root.                                     *)
EXTENDS Stp, FiniteSetTheorems, WellFoundedInduction, TLAPS

NoFarther(r1, c1, r2, c2) == r1 < r2 \/ (r1 = r2 /\ c1 <= c2)

\* v is a message that the other end of p sent: where switches know `roots` and
\* `costs`, it knows that, or better.
ToldBy(roots, costs, p, v) ==
  /\ v.switch = Owner[Peer[p]] /\ v.port = Peer[p]
  /\ Dist[v.root][v.switch] <= v.cost
  /\ v.cost = 0 => v.root = v.switch
  /\ NoFarther(roots[v.switch], costs[v.switch], v.root, v.cost)

Told(p, v) == ToldBy(designated_root, root_path_cost, p, v)

LinksTold == \A p \in Ports : \A i \in 1 .. Len(link[p]) : Told(p, link[p][i])

\* A designated port says what the switch knows, a shut one what it was told.
PortsOK ==
  \A p \in Ports :
    \/ /\ stp_port_is_designated(designated, p)
       /\ designated[p].root = designated_root[Owner[p]]
       /\ designated[p].cost = root_path_cost[Owner[p]]
    \/ Told(p, designated[p])

\* Without a root port the switch believes it is root; with one it knows what that
\* port was told.
RootPortOK ==
  \A s \in Switches :
    \/ /\ root_port[s] = None
       /\ designated_root[s] = s /\ root_path_cost[s] = 0
       /\ \A p \in PortsOf(s) : stp_port_is_designated(designated, p)
    \/ /\ root_port[s] \in PortsOf(s)
       /\ ~stp_port_is_designated(designated, root_port[s])
       /\ designated_root[s] = designated[root_port[s]].root
       /\ root_path_cost[s] = designated[root_port[s]].cost + 1

\* No shut port was told of anything nearer than the root port.
RootPortBest ==
  \A s \in Switches : root_port[s] # None =>
    \A q \in PortsOf(s) : ~stp_port_is_designated(designated, q) =>
      NoFarther(designated[root_port[s]].root, designated[root_port[s]].cost,
                designated[q].root, designated[q].cost)

\* A switch knows itself, or something better.
OwnRoot == \A s \in Switches : NoFarther(designated_root[s], root_path_cost[s], s, 0)

IInv == /\ TypeOK /\ LinksTold /\ PortsOK /\ RootPortOK /\ RootPortBest /\ OwnRoot
        /\ CostIsOfAPath

-----------------------------------------------------------------------------
\* A link holds what it held, and what was sent over it.
LEMMA SentElements ==
  ASSUME NEW l \in [Ports -> Seq(Config)], NEW msgs,
         \A q \in DOMAIN msgs : msgs[q] \in Config, NEW p \in Ports
  PROVE  /\ Sent(l, msgs)[p] \in Seq(Config)
         /\ \A i \in 1 .. Len(Sent(l, msgs)[p]) :
              \/ i \in 1 .. Len(l[p]) /\ Sent(l, msgs)[p][i] = l[p][i]
              \/ Peer[p] \in DOMAIN msgs /\ Sent(l, msgs)[p][i] = msgs[Peer[p]]
<1>1. l[p] \in Seq(Config)
  OBVIOUS
<1>2. CASE Peer[p] \in DOMAIN msgs /\ Sent(l, msgs)[p] = Append(l[p], msgs[Peer[p]])
  BY <1>1, <1>2
<1>3. CASE Sent(l, msgs)[p] = l[p]
  BY <1>1, <1>3
<1>4. QED
  BY <1>2, <1>3 DEF Sent

\* Receiving the first message leaves the others.
LEMMA ReceivedElements ==
  ASSUME link \in [Ports -> Seq(Config)], NEW p \in Ports, link[p] # << >>
  PROVE  /\ Received(p) \in [Ports -> Seq(Config)]
         /\ \A q \in Ports : \A i \in 1 .. Len(Received(p)[q]) :
              \E j \in 1 .. Len(link[q]) : Received(p)[q][i] = link[q][j]
<1>1. Tail(link[p]) \in Seq(Config) /\ Len(Tail(link[p])) = Len(link[p]) - 1
  OBVIOUS
<1>2. \A i \in 1 .. Len(Tail(link[p])) : Tail(link[p])[i] = link[p][i + 1] /\ i + 1 \in 1 .. Len(link[p])
  BY <1>1
<1>3. Received(p) \in [Ports -> Seq(Config)]
  BY <1>1 DEF Received
<1>4. ASSUME NEW q \in Ports, NEW i \in 1 .. Len(Received(p)[q])
      PROVE  \E j \in 1 .. Len(link[q]) : Received(p)[q][i] = link[q][j]
  <2>1. CASE q = p
    BY <2>1, <1>2, <1>4 DEF Received
  <2>2. CASE q # p
    BY <2>2, <1>4 DEF Received
  <2>3. QED
    BY <2>1, <2>2
<1>5. QED
  BY <1>3, <1>4

LEMMA InitIInv == Init => IInv
<1> SUFFICES ASSUME Init PROVE IInv
  OBVIOUS
<1> USE StpAssumption
<1>1. TypeOK
  <2>1. designated \in [Ports -> Config]
    BY DEF Init, Config
  <2>2. link \in [Ports -> Seq(Config)]
    BY DEF Init
  <2>3. QED
    BY <2>1, <2>2 DEF Init, TypeOK
<1>2. LinksTold
  BY DEF Init, LinksTold
<1>3. PortsOK
  BY DEF Init, PortsOK, stp_port_is_designated
<1>4. RootPortOK
  BY DEF Init, RootPortOK, stp_port_is_designated, PortsOf
<1>5. CostIsOfAPath
  BY DEF Init, CostIsOfAPath
<1>6. RootPortBest /\ OwnRoot
  BY DEF Init, RootPortBest, OwnRoot, NoFarther
<1>7. QED
  BY <1>1, <1>2, <1>3, <1>4, <1>5, <1>6 DEF IInv

-----------------------------------------------------------------------------
\* What was told stays true while switches only learn better.
LEMMA ToldStays ==
  ASSUME NEW roots \in [Switches -> Switches], NEW costs \in [Switches -> Nat],
         NEW roots2 \in [Switches -> Switches], NEW costs2 \in [Switches -> Nat],
         \A s \in Switches : NoFarther(roots2[s], costs2[s], roots[s], costs[s]),
         NEW p \in Ports, NEW v \in Config, ToldBy(roots, costs, p, v)
  PROVE  ToldBy(roots2, costs2, p, v)
<1>1. v.switch \in Switches /\ v.root \in Nat /\ v.cost \in Nat
  BY StpAssumption DEF Config
<1>2. /\ roots[v.switch] \in Nat /\ roots2[v.switch] \in Nat
      /\ costs[v.switch] \in Nat /\ costs2[v.switch] \in Nat
  BY <1>1, StpAssumption
<1>3. NoFarther(roots2[v.switch], costs2[v.switch], v.root, v.cost)
  BY <1>1, <1>2 DEF ToldBy, NoFarther
<1>4. QED
  BY <1>3 DEF ToldBy

\* A switch that sends what it knows leaves the links with messages that are told.
LEMMA SendTold ==
  ASSUME NEW roots \in [Switches -> Switches], NEW costs \in [Switches -> Nat],
         \A s \in Switches : Dist[roots[s]][s] <= costs[s],
         NEW l \in [Ports -> Seq(Config)],
         \A q \in Ports : \A i \in 1 .. Len(l[q]) : ToldBy(roots, costs, q, l[q][i]),
         NEW s \in Switches, costs[s] = 0 => roots[s] = s,
         NEW Q, Q \subseteq PortsOf(s),
         NEW k, k = Sent(l, Configs(Q, roots[s], costs[s]))
  PROVE  /\ k \in [Ports -> Seq(Config)]
         /\ \A q \in Ports : \A i \in 1 .. Len(k[q]) : ToldBy(roots, costs, q, k[q][i])
<1> DEFINE msgs == Configs(Q, roots[s], costs[s])
<1>1. \A q \in DOMAIN msgs : msgs[q] \in Config /\ q \in PortsOf(s)
  BY StpAssumption DEF Configs, Config, PortsOf
<1>2. \A q \in Ports : Peer[q] \in DOMAIN msgs => ToldBy(roots, costs, q, msgs[Peer[q]])
  <2>1. ASSUME NEW q \in Ports, Peer[q] \in DOMAIN msgs PROVE ToldBy(roots, costs, q, msgs[Peer[q]])
    <3>1. /\ msgs[Peer[q]].switch = s /\ msgs[Peer[q]].port = Peer[q] /\ Owner[Peer[q]] = s
          /\ msgs[Peer[q]].root = roots[s] /\ msgs[Peer[q]].cost = costs[s]
      BY <2>1, <1>1 DEF Configs, PortsOf
    <3>2. costs[s] \in Nat /\ Dist[roots[s]][s] <= costs[s]
      OBVIOUS
    <3>3. QED
      BY <3>1, <3>2 DEF ToldBy, NoFarther
  <2>2. QED
    BY <2>1
<1> HIDE DEF msgs
<1>3. \A q \in Ports : /\ Sent(l, msgs)[q] \in Seq(Config)
                       /\ \A i \in 1 .. Len(Sent(l, msgs)[q]) :
                            \/ i \in 1 .. Len(l[q]) /\ Sent(l, msgs)[q][i] = l[q][i]
                            \/ Peer[q] \in DOMAIN msgs /\ Sent(l, msgs)[q][i] = msgs[Peer[q]]
  BY <1>1, SentElements
<1>4. k = Sent(l, msgs)
  BY DEF msgs
<1>5. k \in [Ports -> Seq(Config)]
  BY <1>3, <1>4 DEF Sent
<1>6. ASSUME NEW q \in Ports, NEW i \in 1 .. Len(k[q]) PROVE ToldBy(roots, costs, q, k[q][i])
  BY <1>2, <1>3, <1>4, <1>6
<1>7. QED
  BY <1>5, <1>6

LEMMA StartIInv == ASSUME IInv, NEW s \in Switches, Start(s) PROVE IInv'
<1>1. TypeOK'
  BY DEF IInv, TypeOK, Start
<1>2. LinksTold' /\ PortsOK' /\ RootPortOK' /\ CostIsOfAPath'
  BY DEF IInv, LinksTold, PortsOK, RootPortOK, CostIsOfAPath, Told, ToldBy, Start, stp_port_is_designated
<1>3. RootPortBest' /\ OwnRoot'
  BY DEF IInv, RootPortBest, OwnRoot, Start, stp_port_is_designated
<1>4. QED
  BY <1>1, <1>2, <1>3 DEF IInv

\* Switches know what they knew; one sends it from some of its ports.
LEMMA TellIInv ==
  ASSUME IInv, UNCHANGED stpVars, NEW l \in [Ports -> Seq(Config)],
         \A q \in Ports : \A i \in 1 .. Len(l[q]) : Told(q, l[q][i]),
         NEW s \in Switches, NEW Q, Q \subseteq PortsOf(s),
         link' = Sent(l, Configs(Q, designated_root[s], root_path_cost[s]))
  PROVE  IInv'
<1>1. /\ designated_root' = designated_root /\ root_path_cost' = root_path_cost
      /\ designated' = designated /\ root_port' = root_port /\ up' = up /\ hello' = hello
  BY DEF stpVars
<1>2. designated_root' \in [Switches -> Switches] /\ root_path_cost' \in [Switches -> Nat]
  BY <1>1 DEF IInv, TypeOK
<1>3. CostIsOfAPath'
  BY <1>1 DEF IInv, CostIsOfAPath
<1>4. root_path_cost'[s] = 0 => designated_root'[s] = s
  <2>1. root_port[s] \in PortsOf(s) => designated[root_port[s]].cost \in Nat
    BY DEF IInv, TypeOK, Config, PortsOf
  <2>2. QED
    BY <1>1, <2>1 DEF IInv, RootPortOK
<1>5. \A q \in Ports : \A i \in 1 .. Len(l[q]) : ToldBy(designated_root', root_path_cost', q, l[q][i])
  BY <1>1 DEF Told
<1>6. link' = Sent(l, Configs(Q, designated_root'[s], root_path_cost'[s]))
  BY <1>1
<1>7. link' \in [Ports -> Seq(Config)] /\ LinksTold'
  BY <1>2, <1>3, <1>4, <1>5, <1>6, SendTold DEF LinksTold, Told, CostIsOfAPath
<1>8. TypeOK'
  BY <1>1, <1>7 DEF IInv, TypeOK
<1>9. PortsOK' /\ RootPortOK'
  BY <1>1 DEF IInv, PortsOK, RootPortOK, Told, ToldBy, stp_port_is_designated
<1>10. RootPortBest' /\ OwnRoot'
  BY <1>1 DEF IInv, RootPortBest, OwnRoot, stp_port_is_designated
<1>11. QED
  BY <1>3, <1>7, <1>8, <1>9, <1>10 DEF IInv

LEMMA HelloTimeoutIInv == ASSUME IInv, NEW s \in Switches, HelloTimeout(s) PROVE IInv'
<1>1. link \in [Ports -> Seq(Config)]
  BY DEF IInv, TypeOK
<1>2. DesignatedPorts(designated, s) \subseteq PortsOf(s)
  BY DEF DesignatedPorts
<1>3. QED
  BY <1>1, <1>2, TellIInv DEF HelloTimeout, IInv, LinksTold

LEMMA ReplyIInv == ASSUME IInv, NEW p \in Ports, Reply(p) PROVE IInv'
<1>1. link \in [Ports -> Seq(Config)] /\ link[p] # << >>
  BY DEF IInv, TypeOK, Reply
<1>2. /\ Received(p) \in [Ports -> Seq(Config)]
      /\ \A q \in Ports : \A i \in 1 .. Len(Received(p)[q]) : Told(q, Received(p)[q][i])
  BY <1>1, ReceivedElements DEF IInv, LinksTold
<1>3. Owner[p] \in Switches /\ {p} \subseteq PortsOf(Owner[p])
  BY StpAssumption DEF PortsOf
<1>4. QED
  BY <1>2, <1>3, TellIInv DEF Reply

-----------------------------------------------------------------------------
\* The order of port_cmp is that of root and cost first.
LEMMA CmpNoFarther ==
  ASSUME NEW v \in Config, NEW w \in Config, port_cmp(v, w)
  PROVE  NoFarther(w.root, w.cost, v.root, v.cost)
<1>1. v.root \in Nat /\ w.root \in Nat /\ v.cost \in Nat /\ w.cost \in Nat
  BY StpAssumption DEF Config
<1>2. QED
  BY <1>1 DEF port_cmp, NoFarther

\* A message that is taken only ever improves what the switch knows.
LEMMA AdoptIInv == ASSUME IInv, NEW p \in Ports, Adopt(p) PROVE IInv'
<1> DEFINE s    == Owner[p]
           m    == Head(link[p])
           d    == [designated EXCEPT ![p] = m]
           open == DesignatedPorts(d, s)
<1>1. /\ link \in [Ports -> Seq(Config)] /\ designated \in [Ports -> Config]
      /\ designated_root \in [Switches -> Switches] /\ root_path_cost \in [Switches -> Nat]
      /\ s \in Switches /\ link[p] # << >>
  BY StpAssumption DEF IInv, TypeOK, Adopt
<1>2. PICK best \in Best(d, PortsOf(s) \ open) :
        /\ root_port' = [root_port EXCEPT ![s] = best]
        /\ designated_root' = [designated_root EXCEPT ![s] = d[best].root]
        /\ root_path_cost' = [root_path_cost EXCEPT ![s] = CostThrough(d[best])]
        /\ designated' = [q \in Ports |-> IF q \in open
                                          THEN Configs(open, d[best].root, CostThrough(d[best]))[q] ELSE d[q]]
        /\ link' = Sent(Received(p), Configs(open, d[best].root, CostThrough(d[best])))
  BY DEF Adopt
<1>3. m \in Config /\ Told(p, m)
  <2>1. Len(link[p]) \in Nat /\ Len(link[p]) > 0 /\ m = link[p][1]
    BY <1>1
  <2>2. QED
    BY <1>1, <2>1 DEF IInv, LinksTold
<1>4. /\ d \in [Ports -> Config] /\ d[p] = m
      /\ \A q \in Ports : q # p => d[q] = designated[q]
  BY <1>1, <1>3
<1>5. open \subseteq PortsOf(s) /\ PortsOf(s) \subseteq Ports /\ p \in PortsOf(s)
  BY <1>1 DEF DesignatedPorts, PortsOf
<1>6. m.switch # s
  BY <1>3, StpAssumption DEF Told, ToldBy
<1>7. p \notin open
  BY <1>4, <1>6 DEF DesignatedPorts, stp_port_is_designated
<1>8. \A q \in open : stp_port_is_designated(designated, q)
  BY <1>4, <1>5, <1>7 DEF DesignatedPorts, stp_port_is_designated
<1>9. \A q \in PortsOf(s) \ open : Told(q, d[q])
  <2>1. ASSUME NEW q \in PortsOf(s) \ open, q # p PROVE Told(q, d[q])
    <3>1. ~stp_port_is_designated(designated, q)
      BY <1>4, <1>5, <2>1 DEF DesignatedPorts, stp_port_is_designated
    <3>2. QED
      BY <1>4, <1>5, <2>1, <3>1 DEF IInv, PortsOK
  <2>2. QED
    BY <1>3, <1>4, <2>1
<1>10. /\ best \in PortsOf(s) /\ best \in Ports /\ best \notin open
       /\ \A q \in PortsOf(s) \ open : q # best => port_cmp(d[q], d[best])
  BY <1>2, <1>5 DEF Best
<1>11. /\ d[best] \in Config /\ d[best].root \in Switches /\ d[best].cost \in Nat
       /\ CostThrough(d[best]) = d[best].cost + 1
  BY <1>4, <1>10 DEF Config, CostThrough
<1>12. port_cmp(designated[p], m)
  BY DEF Adopt, Renews
<1> HIDE DEF d, open, m, s
<1>13. NoFarther(d[best].root, d[best].cost + 1, designated_root[s], root_path_cost[s])
  <2>1. CASE root_port[s] = None
    <3>1. /\ designated_root[s] = s /\ root_path_cost[s] = 0
          /\ \A q \in PortsOf(s) : stp_port_is_designated(designated, q)
      BY <1>1, <2>1, StpAssumption DEF IInv, RootPortOK, PortsOf
    <3>2. designated[p].root = s /\ designated[p].cost = 0
      <4>1. stp_port_is_designated(designated, p)
        BY <3>1, <1>5
      <4>2. ~Told(p, designated[p])
        BY <4>1, StpAssumption DEF Told, ToldBy, stp_port_is_designated
      <4>3. QED
        BY <3>1, <4>2 DEF IInv, PortsOK, s
    <3>3. m.root \in Nat /\ m.cost \in Nat /\ s \in Nat
      BY <1>1, <1>3, StpAssumption DEF Config
    <3>4. m.cost = 0 => m.root # s
      BY <1>3, <1>6 DEF Told, ToldBy
    <3>5. m.root < s
      BY <1>12, <3>2, <3>3, <3>4 DEF port_cmp
    <3>6. best = p
      <4>1. ASSUME best # p PROVE FALSE
        <5>1. stp_port_is_designated(designated, best) /\ d[best] = designated[best]
          BY <3>1, <1>4, <1>10, <4>1
        <5>2. Told(best, d[best])
          BY <1>9, <1>10
        <5>3. QED
          BY <5>1, <5>2, <1>10, StpAssumption DEF Told, ToldBy, stp_port_is_designated
      <4>2. QED
        BY <4>1
    <3>7. QED
      BY <1>4, <3>1, <3>5, <3>6 DEF NoFarther
  <2>2. CASE root_port[s] # None
    <3> DEFINE rp == root_port[s]
    <3>1. /\ rp \in PortsOf(s) /\ ~stp_port_is_designated(designated, rp)
          /\ designated_root[s] = designated[rp].root
          /\ root_path_cost[s] = designated[rp].cost + 1
      BY <1>1, <2>2 DEF IInv, RootPortOK
    <3>2. rp \in Ports /\ rp \notin open
      BY <1>5, <1>8, <3>1
    <3>3. /\ d[rp].root \in Nat /\ d[rp].cost \in Nat /\ d[best].root \in Nat
          /\ designated[rp].root \in Nat /\ designated[rp].cost \in Nat
      BY <1>1, <1>4, <1>11, <3>2, StpAssumption DEF Config
    <3>4. NoFarther(d[best].root, d[best].cost, d[rp].root, d[rp].cost)
      <4>1. CASE rp = best
        BY <4>1, <1>11, <3>3 DEF NoFarther
      <4>2. CASE rp # best
        <5>1. port_cmp(d[rp], d[best])
          BY <4>2, <1>10, <3>1, <3>2
        <5>2. d[rp] \in Config /\ d[best] \in Config
          BY <1>4, <1>11, <3>2
        <5> HIDE DEF rp
        <5>3. QED
          BY <5>1, <5>2, CmpNoFarther
      <4>3. QED
        BY <4>1, <4>2
    <3>5. NoFarther(d[rp].root, d[rp].cost, designated[rp].root, designated[rp].cost)
      <4>1. CASE rp = p
        <5>1. designated[p] \in Config
          BY <1>1
        <5>2. NoFarther(m.root, m.cost, designated[p].root, designated[p].cost)
          BY <5>1, <1>3, <1>12, CmpNoFarther
        <5>3. QED
          BY <4>1, <5>2, <1>4
      <4>2. CASE rp # p
        BY <4>2, <1>4, <3>2, <3>3 DEF NoFarther
      <4>3. QED
        BY <4>1, <4>2
    <3> HIDE DEF rp
    <3>6. QED
      BY <1>11, <3>1, <3>3, <3>4, <3>5 DEF NoFarther
  <2>3. QED
    BY <2>1, <2>2
<1>14. /\ designated_root' \in [Switches -> Switches] /\ root_path_cost' \in [Switches -> Nat]
       /\ designated_root'[s] = d[best].root /\ root_path_cost'[s] = d[best].cost + 1
       /\ \A t \in Switches : t # s => designated_root'[t] = designated_root[t] /\ root_path_cost'[t] = root_path_cost[t]
  BY <1>1, <1>2, <1>11
<1>15. \A t \in Switches :
         NoFarther(designated_root'[t], root_path_cost'[t], designated_root[t], root_path_cost[t])
  <2>1. \A t \in Switches : designated_root[t] \in Nat /\ root_path_cost[t] \in Nat
    BY <1>1, StpAssumption
  <2>2. QED
    BY <1>13, <1>14, <2>1 DEF NoFarther
<1>16. CostIsOfAPath'
  <2>1. Dist[d[best].root][s] <= d[best].cost + 1
    <3>1. Told(best, d[best]) /\ Owner[best] = s
      BY <1>9, <1>10 DEF PortsOf
    <3>2. /\ Dist[d[best].root][Owner[Peer[best]]] <= d[best].cost
          /\ Dist[d[best].root][s] <= Dist[d[best].root][Owner[Peer[best]]] + 1
      BY <3>1, <1>10, <1>11, StpAssumption DEF Told, ToldBy
    <3>3. /\ Dist[d[best].root][Owner[Peer[best]]] \in Nat /\ Dist[d[best].root][s] \in Nat
      <4>1. Owner[Peer[best]] \in Switches
        BY <1>10, StpAssumption
      <4>2. Dist[d[best].root] \in [Switches -> Nat]
        BY <1>11, StpAssumption
      <4>3. QED
        BY <1>1, <4>1, <4>2
    <3>4. QED
      BY <1>11, <3>2, <3>3
  <2>2. QED
    BY <1>14, <2>1 DEF IInv, CostIsOfAPath
<1>17. \A q \in Ports, v \in Config : Told(q, v) => ToldBy(designated_root', root_path_cost', q, v)
  BY <1>1, <1>14, <1>15, ToldStays DEF Told
<1>18. link' \in [Ports -> Seq(Config)] /\ LinksTold'
  <2>1. /\ Received(p) \in [Ports -> Seq(Config)]
        /\ \A q \in Ports : \A i \in 1 .. Len(Received(p)[q]) :
             \E j \in 1 .. Len(link[q]) : Received(p)[q][i] = link[q][j]
    BY <1>1, ReceivedElements
  <2>2. \A q \in Ports : \A i \in 1 .. Len(Received(p)[q]) :
          ToldBy(designated_root', root_path_cost', q, Received(p)[q][i])
    <3>1. ASSUME NEW q \in Ports, NEW i \in 1 .. Len(Received(p)[q])
          PROVE  ToldBy(designated_root', root_path_cost', q, Received(p)[q][i])
      <4>1. PICK j \in 1 .. Len(link[q]) : Received(p)[q][i] = link[q][j]
        BY <2>1
      <4>2. link[q][j] \in Config /\ Told(q, link[q][j])
        BY <1>1 DEF IInv, LinksTold
      <4>3. QED
        BY <4>1, <4>2, <1>17
    <3>2. QED
      BY <3>1
  <2>3. link' = Sent(Received(p), Configs(open, designated_root'[s], root_path_cost'[s]))
    BY <1>2, <1>11, <1>14
  <2>4. root_path_cost'[s] # 0
    BY <1>11, <1>14
  <2>5. \A t \in Switches : Dist[designated_root'[t]][t] <= root_path_cost'[t]
    BY <1>16 DEF CostIsOfAPath
  <2>6. /\ link' \in [Ports -> Seq(Config)]
        /\ \A q \in Ports : \A i \in 1 .. Len(link'[q]) : ToldBy(designated_root', root_path_cost', q, link'[q][i])
    BY <1>1, <1>5, <1>14, <2>1, <2>2, <2>3, <2>4, <2>5, SendTold
  <2>7. QED
    BY <2>6 DEF LinksTold, Told
<1>19. /\ designated' \in [Ports -> Config]
       /\ \A q \in open : designated'[q] = [root |-> designated_root'[s], cost |-> root_path_cost'[s],
                                            switch |-> s, port |-> q]
       /\ \A q \in Ports \ open : designated'[q] = d[q]
  <2>1. \A q \in open : /\ q \in Ports /\ Owner[q] = s
                        /\ Configs(open, d[best].root, CostThrough(d[best]))[q] =
                             [root |-> d[best].root, cost |-> d[best].cost + 1, switch |-> s, port |-> q]
    BY <1>5, <1>11 DEF Configs, PortsOf
  <2>2. \A q \in open : designated'[q] = [root |-> d[best].root, cost |-> d[best].cost + 1, switch |-> s, port |-> q]
    BY <1>2, <2>1
  <2>3. \A q \in Ports \ open : designated'[q] = d[q] /\ d[q] \in Config
    BY <1>2, <1>4
  <2>4. \A q \in open : designated'[q] \in Config
    <3>1. ASSUME NEW q \in open PROVE designated'[q] \in Config
      <4>1. designated'[q] = [root |-> d[best].root, cost |-> d[best].cost + 1, switch |-> s, port |-> q]
        BY <2>2
      <4>2. d[best].cost + 1 \in Nat
        BY <1>11
      <4>3. q \in Ports
        BY <2>1
      <4>4. QED
        BY <4>1, <4>2, <4>3, <1>1, <1>11 DEF Config
    <3>2. QED
      BY <3>1
  <2>5. designated' \in [Ports -> Config]
    BY <1>2, <2>3, <2>4
  <2>6. QED
    BY <1>14, <2>2, <2>3, <2>5
<1>20. PortsOK'
  <2>1. ASSUME NEW q \in Ports
        PROVE  \/ /\ stp_port_is_designated(designated', q)
                  /\ designated'[q].root = designated_root'[Owner[q]]
                  /\ designated'[q].cost = root_path_cost'[Owner[q]]
               \/ ToldBy(designated_root', root_path_cost', q, designated'[q])
    <3>1. CASE q \in open
      <4>1. Owner[q] = s
        BY <3>1, <1>5 DEF PortsOf
      <4>2. designated'[q] = [root |-> designated_root'[s], cost |-> root_path_cost'[s], switch |-> s, port |-> q]
        BY <3>1, <1>19
      <4>3. QED
        BY <4>1, <4>2 DEF stp_port_is_designated
    <3>2. CASE q \in PortsOf(s) \ open
      <4>1. designated'[q] = d[q] /\ d[q] \in Config
        BY <3>2, <1>4, <1>19
      <4>2. ToldBy(designated_root', root_path_cost', q, d[q])
        BY <3>2, <4>1, <1>9, <1>17
      <4>3. QED
        BY <4>1, <4>2
    <3>3. CASE q \notin PortsOf(s)
      <4>1. designated'[q] = designated[q] /\ Owner[q] # s /\ Owner[q] \in Switches /\ designated[q] \in Config
        BY <3>3, <1>1, <1>4, <1>5, <1>19, StpAssumption DEF PortsOf
      <4>2. designated_root'[Owner[q]] = designated_root[Owner[q]] /\ root_path_cost'[Owner[q]] = root_path_cost[Owner[q]]
        BY <4>1, <1>14
      <4>3. CASE Told(q, designated[q])
        BY <4>1, <4>3, <1>17
      <4>4. CASE ~Told(q, designated[q])
        BY <4>1, <4>2, <4>4 DEF IInv, PortsOK, stp_port_is_designated
      <4>5. QED
        BY <4>3, <4>4
    <3>4. QED
      BY <3>1, <3>2, <3>3
  <2>2. QED
    BY <2>1 DEF PortsOK, Told, stp_port_is_designated
<1>21. root_port' \in [Switches -> Ports \cup {None}]
  BY <1>2, <1>10 DEF IInv, TypeOK
<1>22. RootPortOK'
  <2>1. root_port'[s] = best
    BY <1>1, <1>2 DEF IInv, TypeOK
  <2>2. designated'[best] = d[best] /\ ~stp_port_is_designated(d, best)
    BY <1>10, <1>19 DEF open, DesignatedPorts
  <2>3. ASSUME NEW t \in Switches, t # s
        PROVE  root_port'[t] = root_port[t] /\ \A q \in PortsOf(t) : designated'[q] = designated[q]
    <3>1. \A q \in PortsOf(t) : q \in Ports /\ q \notin open /\ q # p
      BY <2>3, <1>5 DEF PortsOf
    <3>2. QED
      BY <3>1, <2>3, <1>2, <1>4, <1>19 DEF IInv, TypeOK
  <2>4. ASSUME NEW t \in Switches
        PROVE  \/ /\ root_port'[t] = None
                  /\ designated_root'[t] = t /\ root_path_cost'[t] = 0
                  /\ \A q \in PortsOf(t) : stp_port_is_designated(designated', q)
               \/ /\ root_port'[t] \in PortsOf(t)
                  /\ ~stp_port_is_designated(designated', root_port'[t])
                  /\ designated_root'[t] = designated'[root_port'[t]].root
                  /\ root_path_cost'[t] = designated'[root_port'[t]].cost + 1
    <3>1. CASE t = s
      BY <3>1, <1>10, <1>14, <2>1, <2>2 DEF stp_port_is_designated
    <3>2. CASE t # s
      BY <3>2, <1>14, <2>3 DEF IInv, RootPortOK, stp_port_is_designated
    <3>3. QED
      BY <3>1, <3>2
  <2>5. QED
    BY <2>4 DEF RootPortOK, stp_port_is_designated
<1>23. TypeOK'
  <2>1. hello' \in [Switches -> BOOLEAN] /\ up' \subseteq Switches
    BY <1>1 DEF IInv, TypeOK, Adopt
  <2>2. QED
    BY <2>1, <1>14, <1>18, <1>19, <1>21 DEF TypeOK
<1>24. OwnRoot'
  <2>1. ASSUME NEW t \in Switches PROVE NoFarther(designated_root'[t], root_path_cost'[t], t, 0)
    <3>1. NoFarther(designated_root[t], root_path_cost[t], t, 0)
      BY DEF IInv, OwnRoot
    <3>2. NoFarther(designated_root'[t], root_path_cost'[t], designated_root[t], root_path_cost[t])
      BY <1>15
    <3>3. /\ designated_root'[t] \in Nat /\ root_path_cost'[t] \in Nat
          /\ designated_root[t] \in Nat /\ root_path_cost[t] \in Nat /\ t \in Nat
      BY <1>1, <1>14, StpAssumption
    <3>4. QED
      BY <3>1, <3>2, <3>3 DEF NoFarther
  <2>2. QED
    BY <2>1 DEF OwnRoot
<1>25. RootPortBest'
  <2>1. ASSUME NEW q \in PortsOf(s), ~stp_port_is_designated(designated', q)
        PROVE  NoFarther(designated'[best].root, designated'[best].cost,
                         designated'[q].root, designated'[q].cost)
    <3>1. q \notin open
      <4>1. ASSUME q \in open PROVE FALSE
        <5>1. designated'[q] = [root |-> designated_root'[s], cost |-> root_path_cost'[s],
                                switch |-> s, port |-> q]
          BY <1>19, <4>1
        <5>2. Owner[q] = s
          BY DEF PortsOf
        <5>3. QED
          BY <2>1, <5>1, <5>2 DEF stp_port_is_designated
      <4>2. QED
        BY <4>1
    <3>2. designated'[q] = d[q] /\ designated'[best] = d[best] /\ d[q] \in Config
      BY <1>4, <1>5, <1>10, <1>19, <3>1
    <3>3. CASE q = best
      BY <1>11, <3>2, <3>3, StpAssumption DEF NoFarther
    <3>4. CASE q # best
      <4>1. port_cmp(d[q], d[best])
        BY <1>10, <3>1, <3>4
      <4>2. QED
        BY <1>11, <3>2, <4>1, CmpNoFarther
    <3>5. QED
      BY <3>3, <3>4
  <2>2. root_port'[s] = best
    BY <1>1, <1>2 DEF IInv, TypeOK
  <2>3. ASSUME NEW t \in Switches, t # s
        PROVE  root_port'[t] = root_port[t] /\ \A q \in PortsOf(t) : designated'[q] = designated[q]
    <3>1. \A q \in PortsOf(t) : q \in Ports /\ q \notin open /\ q # p
      BY <2>3, <1>5 DEF PortsOf
    <3>2. QED
      BY <3>1, <2>3, <1>2, <1>4, <1>19 DEF IInv, TypeOK
  <2>4. ASSUME NEW t \in Switches, t # s, root_port'[t] # None,
               NEW q \in PortsOf(t), ~stp_port_is_designated(designated', q)
        PROVE  NoFarther(designated'[root_port'[t]].root, designated'[root_port'[t]].cost,
                         designated'[q].root, designated'[q].cost)
    <3>1. root_port[t] \in PortsOf(t)
      BY <2>3, <2>4 DEF IInv, RootPortOK
    <3>2. /\ root_port'[t] = root_port[t] /\ designated'[q] = designated[q]
          /\ designated'[root_port[t]] = designated[root_port[t]]
      BY <2>3, <2>4, <3>1
    <3>3. ~stp_port_is_designated(designated, q)
      BY <2>4, <3>2 DEF stp_port_is_designated
    <3>4. QED
      BY <2>4, <3>2, <3>3 DEF IInv, RootPortBest
  <2>5. QED
    BY <2>1, <2>2, <2>4 DEF RootPortBest, stp_port_is_designated
<1>26. QED
  BY <1>16, <1>18, <1>20, <1>22, <1>23, <1>24, <1>25 DEF IInv

-----------------------------------------------------------------------------
LEMMA NextIInv == IInv /\ [Next]_vars => IInv'
<1>1. IInv /\ UNCHANGED vars => IInv'
  <2> SUFFICES ASSUME IInv, UNCHANGED vars PROVE IInv'
    OBVIOUS
  <2>1. /\ up' = up /\ designated' = designated /\ designated_root' = designated_root
        /\ root_path_cost' = root_path_cost /\ root_port' = root_port /\ hello' = hello /\ link' = link
    BY DEF vars, stpVars
  <2>2. TypeOK' /\ CostIsOfAPath'
    BY <2>1 DEF IInv, TypeOK, CostIsOfAPath
  <2>3. LinksTold' /\ PortsOK' /\ RootPortOK'
    BY <2>1 DEF IInv, LinksTold, PortsOK, RootPortOK, Told, ToldBy, stp_port_is_designated
  <2>4. RootPortBest' /\ OwnRoot'
    BY <2>1 DEF IInv, RootPortBest, OwnRoot, stp_port_is_designated
  <2>5. QED
    BY <2>2, <2>3, <2>4 DEF IInv
<1>2. QED
  BY <1>1, StartIInv, HelloTimeoutIInv, ReplyIInv, AdoptIInv DEF Next, stp_port_handle_packet

LEMMA SpecIInv == Spec => []IInv
  BY InitIInv, NextIInv, PTL DEF Spec

\* Whatever messages are lost or late, the cost a switch has for the root it
\* believes in is not below the distance (stp_handle_config_packet).
THEOREM CostCorrect == Spec => []CostIsOfAPath
<1>1. IInv => CostIsOfAPath
  BY DEF IInv
<1>2. QED
  BY <1>1, SpecIInv, PTL

\* The root ports lead nearer to the root with every hop, although each was chosen
\* from fields that may be out of date (the choice of root_port).
THEOREM RootPortsLeadNearer == Spec => []ParentIsCloser
<1>1. IInv => ParentIsCloser
  <2> SUFFICES ASSUME IInv, NEW s \in Switches, root_port[s] # None
               PROVE  Closer(designated_root[Parent(s)], root_path_cost[Parent(s)],
                             designated_root[s], root_path_cost[s])
    BY DEF ParentIsCloser
  <2> DEFINE rp == root_port[s]
  <2>1. /\ rp \in PortsOf(s) /\ ~stp_port_is_designated(designated, rp)
        /\ designated_root[s] = designated[rp].root
        /\ root_path_cost[s] = designated[rp].cost + 1
    BY DEF IInv, RootPortOK
  <2>2. rp \in Ports /\ Told(rp, designated[rp])
    BY <2>1 DEF IInv, PortsOK, PortsOf
  <2>3. Parent(s) = designated[rp].switch /\ Parent(s) \in Switches
    BY <2>2, StpAssumption DEF Told, ToldBy, Parent
  <2>4. NoFarther(designated_root[Parent(s)], root_path_cost[Parent(s)], designated[rp].root, designated[rp].cost)
    BY <2>2, <2>3 DEF Told, ToldBy
  <2>5. /\ designated_root[Parent(s)] \in Nat /\ root_path_cost[Parent(s)] \in Nat
        /\ designated[rp].root \in Nat /\ designated[rp].cost \in Nat
    BY <2>2, <2>3, StpAssumption DEF IInv, TypeOK, Config
  <2>6. QED
    BY <2>1, <2>4, <2>5 DEF NoFarther, Closer
<1>2. QED
  BY <1>1, SpecIInv, PTL
-----------------------------------------------------------------------------
(* Networks in which the ends of links agree.                              *)

\* A set of natural numbers has a least one.
LEMMA LeastExists ==
  ASSUME NEW S, S \subseteq Nat, S # {}
  PROVE  \E x \in S : \A y \in S : x <= y
<1> DEFINE R == OpToRel(<, Nat)
<1>1. IsWellFoundedOn(R, Nat)
  BY NatLessThanWellFounded
<1>2. \A x, y \in Nat : <<x, y>> \in R <=> x < y
  BY DEF OpToRel
<1> HIDE DEF R
<1>3. PICK x \in S : \A y \in S : ~ (<<y, x>> \in R)
  BY <1>1, WFMin
<1>4. \A y \in S : x <= y
  <2> TAKE y \in S
  <2>1. x \in Nat /\ y \in Nat
    OBVIOUS
  <2>2. ~ (y < x)
    BY <1>2, <1>3, <2>1
  <2>3. QED
    BY <2>1, <2>2
<1>5. QED
  BY <1>4

\* What switches are farther than s from what they know.
FartherThan(U, s) ==
  {t \in U : Closer(designated_root[s], root_path_cost[s], designated_root[t], root_path_cost[t])}

\* Of finitely many switches one is farthest: the one with the fewest beyond it.
LEMMA FarthestExists ==
  ASSUME TypeOK, NEW U, U \subseteq Switches, U # {}
  PROVE  \E s \in U : FartherThan(U, s) = {}
<1> DEFINE N == {Cardinality(FartherThan(U, s)) : s \in U}
<1>1. \A s \in Switches : designated_root[s] \in Nat /\ root_path_cost[s] \in Nat
  BY StpAssumption DEF TypeOK
<1>2. IsFiniteSet(U)
  BY ConnectedAssumption, FS_Subset
<1>3. \A s \in U : /\ IsFiniteSet(FartherThan(U, s)) /\ FartherThan(U, s) \subseteq U
                   /\ Cardinality(FartherThan(U, s)) \in Nat
  BY <1>2, FS_Subset, FS_CardinalityType DEF FartherThan
<1>4. N \subseteq Nat /\ N # {}
  BY <1>3
<1>5. PICK n \in N : \A m \in N : n <= m
  BY <1>4, LeastExists
<1>6. PICK s \in U : n = Cardinality(FartherThan(U, s))
  BY <1>5
<1>7. ASSUME NEW t \in FartherThan(U, s) PROVE FALSE
  <2>1. t \in U /\ t \in FartherThan(U, s)
    BY <1>7 DEF FartherThan
  <2>2. FartherThan(U, t) \subseteq FartherThan(U, s)
    BY <1>1, <1>6, <2>1 DEF FartherThan, Closer
  <2>3. t \notin FartherThan(U, t)
    BY <1>1, <2>1 DEF FartherThan, Closer
  <2>4. /\ Cardinality(FartherThan(U, t)) <= Cardinality(FartherThan(U, s))
        /\ Cardinality(FartherThan(U, t)) # Cardinality(FartherThan(U, s))
    BY <1>3, <1>6, <2>1, <2>2, <2>3, FS_Subset
  <2>5. Cardinality(FartherThan(U, s)) <= Cardinality(FartherThan(U, t))
    BY <1>5, <1>6, <2>1
  <2>6. QED
    BY <1>3, <1>6, <2>1, <2>4, <2>5
<1>8. QED
  BY <1>6, <1>7

\* Where the ends agree, one of the two is designated and says what its switch knows.
LEMMA EndsOfLink ==
  ASSUME IInv, Agreed, NEW p \in Ports
  PROVE  LET q == Peer[p]
         IN  \/ /\ stp_port_is_designated(designated, p) /\ ~stp_port_is_designated(designated, q)
                /\ designated[q].root = designated_root[Owner[p]]
                /\ designated[q].cost = root_path_cost[Owner[p]]
             \/ /\ stp_port_is_designated(designated, q) /\ ~stp_port_is_designated(designated, p)
                /\ designated[p].root = designated_root[Owner[q]]
                /\ designated[p].cost = root_path_cost[Owner[q]]
<1> DEFINE q == Peer[p]
           v == designated[p]
<1>1. q \in Ports /\ Peer[q] = p /\ Owner[q] # Owner[p] /\ designated[q] = v
  BY StpAssumption DEF Agreed
<1> HIDE DEF q
<1>2. CASE Told(p, v)
  <2>1. v.switch = Owner[q] /\ v.port = q
    BY <1>2 DEF Told, ToldBy, q
  <2>2. stp_port_is_designated(designated, q) /\ ~stp_port_is_designated(designated, p)
    BY <1>1, <2>1 DEF stp_port_is_designated
  <2>3. ~Told(q, designated[q])
    BY <1>1, <2>1 DEF Told, ToldBy
  <2>4. v.root = designated_root[Owner[q]] /\ v.cost = root_path_cost[Owner[q]]
    BY <1>1, <2>3 DEF IInv, PortsOK
  <2>5. QED
    BY <2>2, <2>4 DEF q
<1>3. CASE ~Told(p, v)
  <2>1. /\ stp_port_is_designated(designated, p)
        /\ v.root = designated_root[Owner[p]] /\ v.cost = root_path_cost[Owner[p]]
    BY <1>3 DEF IInv, PortsOK
  <2>2. ~stp_port_is_designated(designated, q)
    BY <1>1, <2>1 DEF stp_port_is_designated
  <2>3. QED
    BY <1>1, <2>1, <2>2 DEF q
<1>4. QED
  BY <1>2, <1>3

\* The link behind the root port.
RootLink(s) == {root_port[s], Peer[root_port[s]]}

\* A link that forwards is the one behind the root port of a switch.
LEMMA ActiveIsRootLink ==
  ASSUME IInv, Agreed, NEW l \in Active
  PROVE  \E s \in Switches : root_port[s] \in PortsOf(s) /\ l = RootLink(s)
<1>1. PICK p \in Ports : Forwards(p) /\ Forwards(Peer[p]) /\ l = {p, Peer[p]}
  BY DEF Active
<1>2. Peer[p] \in Ports /\ Peer[Peer[p]] = p
  BY StpAssumption
<1>3. \E q \in Ports : l = {q, Peer[q]} /\ root_port[Owner[q]] = q
  <2>1. CASE ~stp_port_is_designated(designated, p)
    BY <1>1, <2>1 DEF Forwards
  <2>2. CASE ~stp_port_is_designated(designated, Peer[p])
    BY <1>1, <1>2, <2>2 DEF Forwards
  <2>3. QED
    BY <2>1, <2>2, EndsOfLink
<1>4. PICK q \in Ports : l = {q, Peer[q]} /\ root_port[Owner[q]] = q
  BY <1>3
<1>5. Owner[q] \in Switches /\ q \in PortsOf(Owner[q])
  BY StpAssumption DEF PortsOf
<1>6. QED
  BY <1>4, <1>5 DEF RootLink

\* What is behind a root port is closer, so a farthest switch has no other link.
LEMMA AgreedForest == ASSUME IInv, ParentIsCloser, Agreed PROVE IsForest(Active)
<1> SUFFICES ASSUME NEW part \in SUBSET Active, part # {}
             PROVE  \E s \in Switches :
                      Cardinality({l \in part : \E p \in l : Owner[p] = s}) = 1
  BY DEF IsForest
<1> DEFINE U == {s \in Switches : root_port[s] \in PortsOf(s) /\ RootLink(s) \in part}
<1>1. \A l \in part : \E s \in U : l = RootLink(s)
  BY ActiveIsRootLink
<1>2. U \subseteq Switches /\ U # {}
  BY <1>1
<1>3. PICK s \in U : FartherThan(U, s) = {}
  BY <1>2, FarthestExists DEF IInv
<1>4. \A t \in U : /\ t \in Switches /\ root_port[t] \in Ports /\ root_port[t] # None
                   /\ Owner[root_port[t]] = t
  BY StpAssumption DEF PortsOf
<1>5. ASSUME NEW l \in part, NEW p \in l, Owner[p] = s PROVE l = RootLink(s)
  <2>1. PICK t \in U : l = RootLink(t)
    BY <1>1
  <2>2. CASE p = root_port[t]
    BY <1>4, <1>5, <2>1, <2>2
  <2>3. CASE p = Peer[root_port[t]]
    <3>1. s = Parent(t)
      BY <1>5, <2>3 DEF Parent
    <3>2. Closer(designated_root[s], root_path_cost[s], designated_root[t], root_path_cost[t])
      BY <1>4, <3>1 DEF ParentIsCloser
    <3>3. t \in FartherThan(U, s)
      BY <3>2 DEF FartherThan
    <3>4. QED
      BY <1>3, <3>3
  <2>4. QED
    BY <1>5, <2>1, <2>2, <2>3 DEF RootLink
<1>6. RootLink(s) \in part /\ root_port[s] \in RootLink(s) /\ Owner[root_port[s]] = s
  BY <1>4 DEF RootLink
<1>7. {l \in part : \E p \in l : Owner[p] = s} = {RootLink(s)}
  BY <1>5, <1>6
<1>8. Cardinality({RootLink(s)}) = 1
  BY FS_Singleton
<1>9. QED
  BY <1>2, <1>7, <1>8

\* No switch would be nearer through a neighbour.
LEMMA NoBetterWay ==
  ASSUME IInv, Agreed, NEW p \in Ports, ~Silenced(Peer[p])
  PROVE  NoFarther(designated_root[Owner[p]], root_path_cost[Owner[p]],
                   designated_root[Owner[Peer[p]]], root_path_cost[Owner[Peer[p]]] + 1)
<1> DEFINE s == Owner[p]
           t == Owner[Peer[p]]
           q == Peer[p]
<1>1. s \in Switches /\ t \in Switches /\ q \in Ports /\ p \in PortsOf(s)
  BY StpAssumption DEF PortsOf
<1>2. /\ designated_root[s] \in Nat /\ root_path_cost[s] \in Nat
      /\ designated_root[t] \in Nat /\ root_path_cost[t] \in Nat
  BY <1>1, StpAssumption DEF IInv, TypeOK
<1> HIDE DEF s, t, q
<1>3. CASE stp_port_is_designated(designated, p)
  <2>1. /\ ~stp_port_is_designated(designated, q)
        /\ designated[q].root = designated_root[s] /\ designated[q].cost = root_path_cost[s]
    BY <1>3, EndsOfLink DEF q, s
  <2>2. ~Closer(designated_root[t], root_path_cost[t] + 1, designated_root[s], root_path_cost[s])
    BY <2>1 DEF Silenced, q, t
  <2>3. QED
    BY <1>2, <2>2 DEF Closer, NoFarther, s, t
<1>4. CASE ~stp_port_is_designated(designated, p)
  <2>1. designated[p].root = designated_root[t] /\ designated[p].cost = root_path_cost[t]
    BY <1>4, EndsOfLink DEF t
  <2>2. /\ root_port[s] \in PortsOf(s)
        /\ designated_root[s] = designated[root_port[s]].root
        /\ root_path_cost[s] = designated[root_port[s]].cost + 1
    BY <1>1, <1>4 DEF IInv, RootPortOK
  <2>3. root_port[s] # None /\ designated[root_port[s]].cost \in Nat
    BY <2>2, StpAssumption DEF PortsOf, IInv, TypeOK, Config
  <2>4. NoFarther(designated[root_port[s]].root, designated[root_port[s]].cost,
                  designated[p].root, designated[p].cost)
    BY <1>1, <1>4, <2>3 DEF IInv, RootPortBest
  <2>5. QED
    BY <1>2, <2>1, <2>2, <2>3, <2>4 DEF NoFarther, s, t
<1>5. QED
  BY <1>3, <1>4

\* There is a lowest number, the root.
LEMMA RootIs == Root \in Switches /\ \A s \in Switches : Root <= s
<1>1. \E r \in Switches : \A s \in Switches : r <= s
  BY StpAssumption, ConnectedAssumption, LeastExists
<1>2. QED
  BY <1>1 DEF Root

\* Of the switches that do not know the shortest way, one that is nearest to the
\* root has a neighbour nearer still, which knows: so there is none.
LEMMA AgreedSettled ==
  ASSUME IInv, Agreed, \A p \in Ports : ~Silenced(p)
  PROVE  Settled
<1> DEFINE Knows(s) == designated_root[s] = Root /\ root_path_cost[s] <= Dist[Root][s]
           Lost     == {s \in Switches : ~Knows(s)}
           D        == {Dist[Root][s] : s \in Lost}
<1>1. \A s \in Switches : /\ Dist[Root][s] \in Nat /\ designated_root[s] \in Switches
                          /\ designated_root[s] \in Nat /\ root_path_cost[s] \in Nat
                          /\ Root <= designated_root[s] /\ s \in Nat /\ Root \in Nat
  <2>1. Root \in Switches /\ Dist[Root] \in [Switches -> Nat]
    BY RootIs, StpAssumption
  <2>2. QED
    BY <2>1, RootIs, StpAssumption DEF IInv, TypeOK
<1>2. Knows(Root)
  <2>1. NoFarther(designated_root[Root], root_path_cost[Root], Root, 0)
    BY RootIs DEF IInv, OwnRoot
  <2>2. Dist[Root][Root] = 0
    BY RootIs, StpAssumption
  <2>3. QED
    BY <1>1, <2>1, <2>2, RootIs DEF NoFarther
<1>3. ASSUME Lost # {} PROVE FALSE
  <2>1. D \subseteq Nat /\ D # {}
    BY <1>1, <1>3
  <2>2. PICK n \in D : \A m \in D : n <= m
    BY <2>1, LeastExists
  <2>3. PICK s \in Lost : n = Dist[Root][s]
    BY <2>2
  <2>4. s \in Switches /\ s # Root
    BY <1>2, <2>3
  <2>5. PICK p \in Ports : Owner[p] = s /\ Dist[Root][s] = Dist[Root][Owner[Peer[p]]] + 1
    BY <2>4, RootIs, ConnectedAssumption
  <2> DEFINE t == Owner[Peer[p]]
  <2>6. t \in Switches /\ Peer[p] \in Ports
    BY StpAssumption
  <2>7. Knows(t)
    <3>1. t \in Lost => n <= Dist[Root][t]
      BY <2>2
    <3>2. QED
      BY <1>1, <2>3, <2>4, <2>5, <2>6, <3>1
  <2>8. NoFarther(designated_root[s], root_path_cost[s], designated_root[t], root_path_cost[t] + 1)
    BY <2>5, <2>6, NoBetterWay
  <2>9. Knows(s)
    <3> HIDE DEF t
    <3>1. Dist[Root][s] = Dist[Root][t] + 1
      BY <2>5 DEF t
    <3>2. QED
      BY <1>1, <2>4, <2>6, <2>7, <2>8, <3>1 DEF NoFarther
  <2>10. QED
    BY <2>3, <2>9
<1>4. ASSUME NEW s \in Switches PROVE designated_root[s] = Root /\ root_path_cost[s] = Dist[Root][s]
  <2>1. Knows(s)
    BY <1>3
  <2>2. Dist[designated_root[s]][s] <= root_path_cost[s]
    BY DEF IInv, CostIsOfAPath
  <2>3. QED
    BY <1>1, <2>1, <2>2
<1>5. QED
  BY <1>4 DEF Settled

\* When the ends of every link agree, the links that forward have no circle, and if
\* no port is silenced every switch knows the root and the shortest way to it
\* (stp_handle_config_packet, the choice of root_port, stp_port_state).
THEOREM AgreedIsTreeCorrect == Spec => []AgreedIsTree
<1>1. IInv /\ ParentIsCloser => AgreedIsTree
  BY AgreedForest, AgreedSettled DEF AgreedIsTree
<1>2. QED
  BY <1>1, SpecIInv, RootPortsLeadNearer, PTL
=============================================================================
