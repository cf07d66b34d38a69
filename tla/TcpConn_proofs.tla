--------------------------- MODULE TcpConn_proofs ---------------------------
(***************************************************************************)
(* Proofs about TcpConn, for any number of clients and any room in the     *)
(* network: the types, the queues of the listener, the sequence numbers    *)
(* the ends expect, and the agreement on the close.                        *)
(***************************************************************************)
EXTENDS TcpConn, FiniteSetTheorems, TLAPS

Waiting   == {"to_sleep", "asleep", "woken"}
Finishing == {"FIN_WAIT_1", "FIN_WAIT_2", "LAST_ACK", "TIME_WAIT", "CLOSED"}

\* The end has sent its FIN, or is done without one; it stays so.
Closing(e) == state[e] \in Finishing /\ pc[e] \notin {"start"} \cup Waiting

HasFin(p) == p.flags \in {"FIN", "ACK|FIN"}

\* What a packet says was sent by the peer of the end it goes to.
Genuine(p) == /\ p.seq_end <= snd_nxt[Peer(p.to)]
              /\ HasFin(p) => Closing(Peer(p.to))

PacketsGenuine ==
  /\ \A p \in net : Genuine(p)
  /\ \A e \in Ends : \A p \in ToSet(send_buf[e]) : p.to = Peer(e) /\ Genuine(p)
  /\ \A e \in Ends : state[e] = "none" => snd_nxt[e] = 0

\* Who may be where in which state.
Phases ==
  /\ \A e \in ClientEnds : state[e] \notin {"none", "SYN_RECV"}
  /\ \A e \in ChildEnds : pc[e] # "none" => state[e] \notin {"none", "SYN_RECV"}
  /\ \A e \in Ends : pc[e] = "start" => e \in ClientEnds /\ state[e] = "CLOSED"
  /\ \A e \in Ends : pc[e] \in Waiting => e \in ClientEnds /\ state[e] = "SYN_SENT"

QueuedStates ==
  /\ \A c \in ToSet(accept_queue) : state[ChildEnd(c)] \notin {"none", "SYN_RECV"}
  /\ \A c \in ToSet(listen_queue) : state[ChildEnd(c)] # "none"

PeerCloses ==
  /\ \A e \in Ends : timewait[e] => Closing(e)
  /\ \A e \in Ends : state[e] \in {"LAST_ACK", "TIME_WAIT"} => Closing(Peer(e))

IInv == /\ TypeOK /\ Phases /\ QueuedStates
        /\ PacketsGenuine /\ PeerCloses /\ ExpectsWhatWasSent

-----------------------------------------------------------------------------
(* Lists.                                                                  *)

\* Where concatenation puts the elements.
LEMMA ConcatFacts ==
  ASSUME NEW S, NEW q \in Seq(S), NEW r \in Seq(S)
  PROVE  /\ q \o r \in Seq(S)
         /\ Len(q \o r) = Len(q) + Len(r)
         /\ \A i \in 1 .. Len(q) : (q \o r)[i] = q[i]
         /\ \A i \in Len(q) + 1 .. Len(q) + Len(r) : (q \o r)[i] = r[i - Len(q)]
  OBVIOUS

\* Appending adds an element.
LEMMA AppendSet ==
  ASSUME NEW S, NEW q \in Seq(S), NEW e \in S
  PROVE  Append(q, e) \in Seq(S) /\ ToSet(Append(q, e)) = ToSet(q) \cup {e}
<1> DEFINE a == Append(q, e)
<1>1. /\ a \in Seq(S) /\ DOMAIN a = 1 .. Len(q) + 1 /\ a[Len(q) + 1] = e
      /\ Len(q) \in Nat /\ DOMAIN q = 1 .. Len(q)
      /\ \A i \in 1 .. Len(q) : a[i] = q[i]
  OBVIOUS
<1> HIDE DEF a
<1>2. \A i \in DOMAIN a : \/ i \in DOMAIN q /\ a[i] = q[i] /\ a[i] \in ToSet(q)
                          \/ i = Len(q) + 1 /\ a[i] = e
  BY <1>1 DEF ToSet
<1>3. \A i \in DOMAIN q : i \in DOMAIN a /\ a[i] = q[i]
  BY <1>1
<1>4. Len(q) + 1 \in DOMAIN a
  BY <1>1
<1>5. ToSet(a) = ToSet(q) \cup {e}
  BY <1>1, <1>2, <1>3, <1>4 DEF ToSet
<1> QED BY <1>1, <1>5 DEF a

\* Where RemoveAt leaves the elements.
LEMMA RemoveAtFacts ==
  ASSUME NEW S, NEW q \in Seq(S), NEW k \in 1 .. Len(q)
  PROVE  /\ RemoveAt(q, k) \in Seq(S)
         /\ Len(RemoveAt(q, k)) = Len(q) - 1
         /\ \A i \in 1 .. k - 1 : RemoveAt(q, k)[i] = q[i]
         /\ \A i \in k .. Len(q) - 1 : RemoveAt(q, k)[i] = q[i + 1]
<1> DEFINE a == SubSeq(q, 1, k - 1)
           b == SubSeq(q, k + 1, Len(q))
<1>1. a \in Seq(S) /\ Len(a) = k - 1 /\ \A i \in 1 .. k - 1 : a[i] = q[i]
  OBVIOUS
<1>2. /\ b \in Seq(S) /\ Len(b) = Len(q) - k
      /\ \A i \in 1 .. Len(q) - k : b[i] = q[i + k]
  OBVIOUS
<1>3. RemoveAt(q, k) = a \o b
  BY DEF RemoveAt
<1> HIDE DEF a, b
<1>4. /\ a \o b \in Seq(S)
      /\ Len(a \o b) = Len(a) + Len(b)
      /\ \A i \in 1 .. Len(a) : (a \o b)[i] = a[i]
      /\ \A i \in Len(a) + 1 .. Len(a) + Len(b) : (a \o b)[i] = b[i - Len(a)]
  BY <1>1, <1>2, ConcatFacts
<1> DEFINE c == a \o b
<1> HIDE DEF c
<1>5. /\ c \in Seq(S) /\ Len(c) = Len(q) - 1
      /\ \A i \in 1 .. k - 1 : c[i] = a[i]
      /\ \A i \in k .. Len(q) - 1 : c[i] = b[i - (k - 1)]
  <2>1. Len(q) \in Nat /\ k \in 1 .. Len(q)
    OBVIOUS
  <2>2. /\ Len(a) + Len(b) = Len(q) - 1 /\ Len(a) = k - 1
        /\ Len(a) + 1 .. Len(a) + Len(b) = k .. Len(q) - 1
    BY <1>1, <1>2, <2>1
  <2> QED  BY <1>4, <2>2 DEF c
<1>6. \A i \in k .. Len(q) - 1 : b[i - (k - 1)] = q[i + 1]
  <2> SUFFICES ASSUME NEW i \in k .. Len(q) - 1 PROVE b[i - (k - 1)] = q[i + 1]
    OBVIOUS
  <2>1. i - (k - 1) \in 1 .. Len(q) - k /\ (i - (k - 1)) + k = i + 1
    OBVIOUS
  <2> QED BY <2>1, <1>2
<1> QED BY <1>1, <1>3, <1>5, <1>6 DEF c

\* What is left of a list when one element is taken out.
LEMMA RemoveAtSet ==
  ASSUME NEW S, NEW q \in Seq(S), NEW k \in 1 .. Len(q)
  PROVE  RemoveAt(q, k) \in Seq(S) /\ ToSet(RemoveAt(q, k)) \subseteq ToSet(q)
<1> DEFINE r == RemoveAt(q, k)
<1>1. /\ r \in Seq(S) /\ Len(r) = Len(q) - 1
      /\ \A i \in 1 .. k - 1 : r[i] = q[i]
      /\ \A i \in k .. Len(q) - 1 : r[i] = q[i + 1]
  BY RemoveAtFacts
<1> HIDE DEF r
<1>2. \A i \in 1 .. Len(r) : \E j \in 1 .. Len(q) : r[i] = q[j]
  <2> SUFFICES ASSUME NEW i \in 1 .. Len(r) PROVE \E j \in 1 .. Len(q) : r[i] = q[j]
    OBVIOUS
  <2>1. CASE i < k
    BY <2>1, <1>1
  <2>2. CASE i >= k
    <3>1. i + 1 \in 1 .. Len(q) /\ r[i] = q[i + 1]
      BY <2>2, <1>1
    <3> QED BY <3>1
  <2> QED BY <1>1, <2>1, <2>2
<1>3. DOMAIN r = 1 .. Len(r) /\ DOMAIN q = 1 .. Len(q)
  BY <1>1
<1>4. ToSet(r) \subseteq ToSet(q)
  BY <1>2, <1>3 DEF ToSet
<1> QED BY <1>1, <1>4 DEF r

\* The first element of a list and the rest.
LEMMA TailSet ==
  ASSUME NEW S, NEW q \in Seq(S), q # << >>
  PROVE  /\ Tail(q) \in Seq(S) /\ Head(q) \in ToSet(q)
         /\ ToSet(Tail(q)) \subseteq ToSet(q)
<1> DEFINE r == Tail(q)
<1>1. /\ r \in Seq(S) /\ Len(r) = Len(q) - 1 /\ Head(q) = q[1] /\ Len(q) \in Nat \ {0}
      /\ \A i \in 1 .. Len(q) - 1 : r[i] = q[i + 1]
  OBVIOUS
<1> HIDE DEF r
<1>2. DOMAIN r = 1 .. Len(q) - 1 /\ DOMAIN q = 1 .. Len(q)
  BY <1>1
<1>3. \A i \in 1 .. Len(q) - 1 : i + 1 \in 1 .. Len(q)
  BY <1>1
<1>4. ToSet(r) \subseteq ToSet(q)
  BY <1>1, <1>2, <1>3 DEF ToSet
<1>5. q[1] \in ToSet(q)
  BY <1>1, <1>2 DEF ToSet
<1> QED BY <1>1, <1>4, <1>5 DEF r

-----------------------------------------------------------------------------
(* Ends, packets and the network.                                          *)

\* The two ends of a connection are each other's peers.
LEMMA EndFacts ==
  /\ \A c \in Clients : /\ ClientEnd(c) \in ClientEnds /\ ChildEnd(c) \in ChildEnds
                        /\ ClientEnd(c) \in Ends /\ ChildEnd(c) \in Ends
  /\ \A e \in Ends : /\ Peer(e) \in Ends /\ Peer(Peer(e)) = e /\ Peer(e) # e
                     /\ e.of \in Clients
  /\ \A e \in ClientEnds : e \in Ends /\ e = ClientEnd(e.of) /\ e \notin ChildEnds
  /\ \A e \in ChildEnds : e \in Ends /\ e = ChildEnd(e.of) /\ e \notin ClientEnds
  /\ \A c, d \in Clients : ChildEnd(c) = ChildEnd(d) => c = d
<1>1. \A e \in Ends : e \in ClientEnds \/ e \in ChildEnds
  BY DEF Ends
<1>2. \A e \in ClientEnds : \E c \in Clients : e = [of |-> c, side |-> "client"]
  BY DEF ClientEnds, ClientEnd
<1>3. \A e \in ChildEnds : \E c \in Clients : e = [of |-> c, side |-> "child"]
  BY DEF ChildEnds, ChildEnd
<1>4. \A c \in Clients : /\ ClientEnd(c) \in ClientEnds /\ ChildEnd(c) \in ChildEnds
                         /\ ClientEnd(c) \in Ends /\ ChildEnd(c) \in Ends
  BY DEF Ends, ClientEnds, ChildEnds
<1>5. \A c \in Clients : /\ ClientEnd(c).of = c /\ ClientEnd(c).side = "client"
                         /\ ChildEnd(c).of = c /\ ChildEnd(c).side = "child"
  BY DEF ClientEnd, ChildEnd
<1>6. \A e \in ClientEnds : e.of \in Clients /\ e = ClientEnd(e.of) /\ e.side = "client"
  BY <1>2 DEF ClientEnd
<1>7. \A e \in ChildEnds : e.of \in Clients /\ e = ChildEnd(e.of) /\ e.side = "child"
  BY <1>3 DEF ChildEnd
<1>8. \A e \in Ends : /\ Peer(e) \in Ends /\ Peer(Peer(e)) = e /\ Peer(e) # e
                      /\ e.of \in Clients
  BY <1>1, <1>4, <1>5, <1>6, <1>7 DEF Peer
<1> QED BY <1>4, <1>5, <1>6, <1>7, <1>8 DEF Ends

\* The operations on a notification return notifications.
LEMMA WaitFacts ==
  /\ wait_init \in Wait
  /\ \A w \in Wait : wake_up(w) \in Wait /\ sleep_on(w) \in Wait /\ resume(w) \in Wait
<1>1. wait_init \in Wait
  BY DEF wait_init, Wait
<1>2. ASSUME NEW w \in Wait PROVE wake_up(w) \in Wait /\ resume(w) \in Wait
  BY DEF wake_up, resume, Wait
<1>3. ASSUME NEW w \in Wait PROVE sleep_on(w) \in Wait
  <2>1. [w EXCEPT !.sleep = TRUE] \in Wait
    BY DEF Wait
  <2> QED BY <2>1, <1>1 DEF sleep_on
<1> QED BY <1>1, <1>2, <1>3

\* Whoever is in a queue is a client.
LEMMA QueueFacts ==
  ASSUME TypeOK
  PROVE  /\ \A i \in 1 .. Len(accept_queue) : accept_queue[i] \in Clients
         /\ ToSet(accept_queue) \subseteq Clients /\ ToSet(listen_queue) \subseteq Clients
<1>1. accept_queue \in Seq(Clients) /\ listen_queue \in Seq(Clients)
  BY DEF TypeOK
<1>2. /\ DOMAIN accept_queue = 1 .. Len(accept_queue)
      /\ DOMAIN listen_queue = 1 .. Len(listen_queue)
  BY <1>1
<1>3. /\ \A i \in 1 .. Len(accept_queue) : accept_queue[i] \in Clients
      /\ \A i \in 1 .. Len(listen_queue) : listen_queue[i] \in Clients
  BY <1>1
<1> QED BY <1>2, <1>3 DEF ToSet

\* What a packet of an end says.
LEMMA PacketFacts ==
  ASSUME TypeOK, NEW e \in Ends, NEW flags \in Flags, NEW ack \in Nat
  PROVE  /\ Packet(e, flags, ack) \in Packets /\ Size(flags) \in 0 .. 1
         /\ Packet(e, flags, ack).to = Peer(e) /\ Packet(e, flags, ack).flags = flags
         /\ Packet(e, flags, ack).seq_end = snd_nxt[e] + Size(flags)
<1>1. snd_nxt[e] \in Nat /\ Peer(e) \in Ends
  BY EndFacts DEF TypeOK
<1>2. Size(flags) \in 0 .. 1
  BY DEF Size
<1>3. snd_nxt[e] + Size(flags) \in Nat
  BY <1>1, <1>2
<1> QED BY <1>1, <1>2, <1>3 DEF Packet, Packets

\* Nothing is on the way that was not sent.
LEMMA TransmitFacts ==
  ASSUME NEW sent, NEW out, NEW after \in Transmit(sent, out)
  PROVE  after \subseteq sent \cup out
BY DEF Transmit

\* What remains of a send buffer are packets that were in it.
LEMMA UnackedFacts ==
  ASSUME TypeOK, NEW p \in net
  PROVE  /\ Unacked(p) \in Seq(Packets)
         /\ ToSet(Unacked(p)) \subseteq ToSet(send_buf[p.to])
<1> DEFINE buf == send_buf[p.to]
           n == Cardinality(Acked(buf, p.ack))
<1>1. p \in Packets /\ p.to \in Ends /\ buf \in Seq(Packets)
  BY DEF TypeOK, Packets
<1>2. n \in Nat
  <2>1. IsFiniteSet(1 .. Len(buf))
    BY <1>1, FS_Interval
  <2>2. Acked(buf, p.ack) \subseteq 1 .. Len(buf)
    BY DEF Acked
  <2> QED BY <2>1, <2>2, FS_Subset, FS_CardinalityType
<1> DEFINE r == SubSeq(buf, n + 1, Len(buf))
<1>3. /\ r \in Seq(Packets)
      /\ \A i \in 1 .. Len(r) : i + n \in 1 .. Len(buf) /\ r[i] = buf[i + n]
  <2> HIDE DEF buf, n
  <2>1. Len(buf) \in Nat
    BY <1>1
  <2>2. /\ r \in Seq(Packets)
        /\ Len(r) = IF n + 1 <= Len(buf) THEN Len(buf) - n ELSE 0
        /\ \A i \in 1 .. Len(r) : r[i] = buf[i + n]
    BY <1>1, <1>2, <2>1
  <2>3. \A i \in 1 .. Len(r) : i + n \in 1 .. Len(buf)
    BY <1>2, <2>1, <2>2
  <2> QED BY <2>2, <2>3
<1>4. ToSet(r) \subseteq ToSet(buf)
  <2> HIDE DEF r, buf, n
  <2>1. DOMAIN r = 1 .. Len(r) /\ DOMAIN buf = 1 .. Len(buf)
    BY <1>1, <1>3
  <2> QED BY <2>1, <1>3 DEF ToSet
<1> QED BY <1>1, <1>3, <1>4 DEF Unacked

\* The packets an end keeps.
LEMMA KeptFacts ==
  ASSUME TypeOK, NEW e \in Ends
  PROVE  ToSet(send_buf[e]) \subseteq Packets
BY DEF TypeOK, ToSet

\* What was genuine stays so: numbers only grow, and a close is never taken back.
LEMMA GenuineFrame ==
  ASSUME \A e \in Ends : snd_nxt[e] \in Nat /\ snd_nxt'[e] \in Nat /\ snd_nxt[e] <= snd_nxt'[e],
         \A e \in Ends : Closing(e) => Closing(e)',
         NEW p \in Packets, Genuine(p)
  PROVE  Genuine(p)'
<1>1. p.to \in Ends /\ Peer(p.to) \in Ends /\ p.seq_end \in Nat
  BY EndFacts DEF Packets
<1> DEFINE e == Peer(p.to)
<1>2. p.seq_end <= snd_nxt[e] /\ (HasFin(p) => Closing(e))
  BY DEF Genuine
<1>3. p.seq_end <= snd_nxt'[e] /\ (HasFin(p) => Closing(e)')
  BY <1>1, <1>2
<1> QED BY <1>3 DEF Genuine

\* Packets that are new must be genuine.
LEMMA PacketsFrame ==
  ASSUME TypeOK, TypeOK', PacketsGenuine,
         \A e \in Ends : snd_nxt[e] <= snd_nxt'[e],
         \A e \in Ends : Closing(e) => Closing(e)',
         \A p \in net' : p \in net \/ (\E e \in Ends : p \in ToSet(send_buf[e])) \/ Genuine(p)',
         \A e \in Ends : \A p \in ToSet(send_buf'[e]) :
           p \in ToSet(send_buf[e]) \/ (p.to = Peer(e) /\ Genuine(p)'),
         \A e \in Ends : state'[e] = "none" => snd_nxt'[e] = 0
  PROVE  PacketsGenuine'
<1>1. \A e \in Ends : snd_nxt[e] \in Nat /\ snd_nxt'[e] \in Nat /\ snd_nxt[e] <= snd_nxt'[e]
  BY DEF TypeOK
<1>2. \A p \in Packets : Genuine(p) => Genuine(p)'
  BY <1>1, GenuineFrame
<1>3. net \subseteq Packets /\ \A e \in Ends : ToSet(send_buf[e]) \subseteq Packets
  BY KeptFacts DEF TypeOK
<1>4. \A p \in net' : Genuine(p)'
  BY <1>2, <1>3 DEF PacketsGenuine
<1>5. \A e \in Ends : \A p \in ToSet(send_buf'[e]) : p.to = Peer(e) /\ Genuine(p)'
  BY <1>2, <1>3 DEF PacketsGenuine
<1> QED BY <1>4, <1>5 DEF PacketsGenuine

\* An end that waits for its FIN to be acknowledged, or for the peer's.
Ending == {"FIN_WAIT_1", "FIN_WAIT_2", "LAST_ACK"}

\* A step that sends nothing with a number of its own and leaves the queues.
LEMMA MildStep ==
  ASSUME IInv, TypeOK',
         UNCHANGED <<snd_nxt, listen_queue, accept_queue>>,
         \A e \in Ends : ToSet(send_buf'[e]) \subseteq ToSet(send_buf[e]),
         \A p \in net' : \/ p \in net
                         \/ \E e \in Ends : p \in ToSet(send_buf[e])
                         \/ \E e \in Ends, a \in Nat : p = Packet(e, "ACK", a),
         \A e \in Ends : rcv_nxt'[e] <= snd_nxt[Peer(e)],
         \A e \in Ends : \/ pc'[e] = pc[e]
                         \/ pc[e] = "open" /\ pc'[e] \in {"closing", "done"}
                         \/ pc[e] \in Waiting /\ pc'[e] \in Waiting
                         \/ pc[e] = "woken" /\ pc'[e] = "open",
         \A e \in Ends : \/ state'[e] = state[e] /\ ~(pc[e] \in Waiting /\ pc'[e] = "open")
                         \/ pc[e] = "woken" /\ pc'[e] = "open" /\ state'[e] = "ESTABLISHED"
                         \/ /\ pc'[e] = pc[e]
                            /\ \/ state[e] = "SYN_RECV" /\ state'[e] = "ESTABLISHED"
                               \/ state[e] \in Ending /\ state'[e] \in Finishing
                               \/ timewait[e] /\ state'[e] = "CLOSED",
         \A e \in Ends : timewait'[e] => \/ timewait[e]
                                         \/ state[e] \in Ending /\ state'[e] \in Finishing,
         \A e \in Ends : state'[e] \in {"LAST_ACK", "TIME_WAIT"} =>
                           state'[e] = state[e] \/ Closing(Peer(e))
  PROVE  IInv'
<1>1. \A e \in Ends : state[e] \in Ending => pc[e] \notin {"start"} \cup Waiting
  BY DEF IInv, Phases, Ending
<1>2. \A e \in Ends : Closing(e) => Closing(e)'
  BY DEF Closing, Finishing, Waiting, Ending, IInv, PeerCloses
<1>3. Phases'
  BY EndFacts DEF IInv, Phases, PeerCloses, Closing, Finishing, Waiting, Ending
<1>5. QueuedStates'
  <2>1. ToSet(accept_queue) \subseteq Clients /\ ToSet(listen_queue) \subseteq Clients
    BY QueueFacts DEF IInv
  <2>2. \A e \in Ends : /\ state[e] # "none" => state'[e] # "none"
                        /\ state[e] \notin {"none", "SYN_RECV"} =>
                             state'[e] \notin {"none", "SYN_RECV"}
    BY DEF Finishing, Ending
  <2> QED BY <2>1, <2>2, EndFacts DEF IInv, QueuedStates
<1>6. PacketsGenuine'
  <2>1. ASSUME NEW p, NEW e \in Ends, NEW a \in Nat, p = Packet(e, "ACK", a)
        PROVE  Genuine(p)'
    <3>1. "ACK" \in Flags /\ Size("ACK") = 0
      BY DEF Flags, Size
    <3>2. p.to = Peer(e) /\ p.flags = "ACK" /\ p.seq_end = snd_nxt[e]
      <4>1. snd_nxt[e] \in Nat
        BY DEF IInv, TypeOK
      <4>2. p.to = Peer(e) /\ p.flags = "ACK" /\ p.seq_end = snd_nxt[e] + Size("ACK")
        BY <2>1, <3>1, PacketFacts DEF IInv
      <4> QED BY <3>1, <4>1, <4>2
    <3>3. Peer(p.to) = e
      BY <3>2, EndFacts
    <3>4. p.seq_end <= snd_nxt'[Peer(p.to)] /\ ~HasFin(p)
      BY <3>2, <3>3 DEF HasFin, IInv, TypeOK
    <3> QED BY <3>4 DEF Genuine
  <2>2. \A e \in Ends : snd_nxt[e] <= snd_nxt'[e]
    BY DEF IInv, TypeOK
  <2>3. \A e \in Ends : state'[e] = "none" => snd_nxt'[e] = 0
    BY DEF IInv, PacketsGenuine, Finishing
  <2> QED BY <1>2, <2>1, <2>2, <2>3, PacketsFrame DEF IInv
<1>7. PeerCloses'
  <2>1. ASSUME NEW e \in Ends, timewait'[e] PROVE Closing(e)'
    <3>1. CASE timewait[e]
      BY <3>1, <1>2 DEF IInv, PeerCloses
    <3>2. CASE state[e] \in Ending /\ state'[e] \in Finishing
      BY <3>2, <1>1 DEF Closing, Waiting
    <3> QED BY <2>1, <3>1, <3>2
  <2>2. ASSUME NEW e \in Ends, state'[e] \in {"LAST_ACK", "TIME_WAIT"}
        PROVE  Closing(Peer(e))'
    <3>1. Peer(e) \in Ends
      BY EndFacts
    <3>2. Closing(Peer(e))
      BY <2>2 DEF IInv, PeerCloses
    <3> QED BY <3>1, <3>2, <1>2
  <2> QED BY <2>1, <2>2 DEF PeerCloses
<1>8. ExpectsWhatWasSent'
  BY DEF ExpectsWhatWasSent
<1> QED BY <1>3, <1>5, <1>6, <1>7, <1>8 DEF IInv

\* A step that sends a packet f with a number of its own and leaves the queues:
\* connect, write, close, or the answer to a FIN.
LEMMA SendStep ==
  ASSUME IInv, TypeOK', NEW e \in Ends, NEW f \in Flags, NEW a \in Nat,
         UNCHANGED <<listen_queue, accept_queue>>,
         snd_nxt' = [snd_nxt EXCEPT ![e] = @ + Size(f)],
         send_buf' = [send_buf EXCEPT ![e] = Append(@, Packet(e, f, a))],
         net' \subseteq net \cup {Packet(e, f, a)},
         \A d \in Ends : rcv_nxt'[d] <= snd_nxt[Peer(d)],
         \A d \in Ends : d # e => /\ state'[d] = state[d] /\ pc'[d] = pc[d]
                                  /\ timewait'[d] = timewait[d],
         \/ /\ f = "SYN" /\ pc[e] = "start" /\ pc'[e] = "to_sleep"
            /\ state'[e] = "SYN_SENT" /\ timewait'[e] = timewait[e]
         \/ /\ f = "PSH" /\ pc[e] = "open" /\ pc'[e] = "open"
            /\ state'[e] = state[e] /\ timewait'[e] = timewait[e]
         \/ /\ f = "FIN" /\ pc[e] = "closing" /\ pc'[e] = "done"
            /\ state'[e] = "FIN_WAIT_1" /\ timewait'[e] = timewait[e]
         \/ /\ f = "ACK|FIN" /\ pc'[e] = pc[e] /\ Closing(Peer(e))
            /\ state[e] = "ESTABLISHED" /\ state'[e] = "LAST_ACK"
  PROVE  IInv'
<1>1. /\ pc[e] = "start" => e \in ClientEnds /\ state[e] = "CLOSED"
      /\ pc[e] \in Waiting => state[e] = "SYN_SENT"
      /\ e \in ClientEnds => state[e] \notin {"none", "SYN_RECV"}
      /\ e \in ChildEnds /\ pc[e] # "none" => state[e] \notin {"none", "SYN_RECV"}
      /\ e \in ClientEnds \/ e \in ChildEnds
  BY DEF IInv, Phases, Ends
<1>2. /\ Closing(e) => Closing(e)'
      /\ f \in {"FIN", "ACK|FIN"} => Closing(e)'
  BY <1>1 DEF Closing, Finishing, Waiting
<1>3. \A d \in Ends : Closing(d) => Closing(d)'
  BY <1>2 DEF Closing
<1>4. Phases'
  BY <1>1, EndFacts DEF IInv, Phases, Waiting
<1>6. QueuedStates'
  <2>1. ToSet(accept_queue) \subseteq Clients /\ ToSet(listen_queue) \subseteq Clients
    BY QueueFacts DEF IInv
  <2>2. \A d \in Ends : /\ state[d] # "none" => state'[d] # "none"
                        /\ state[d] \notin {"none", "SYN_RECV"} =>
                             state'[d] \notin {"none", "SYN_RECV"}
    OBVIOUS
  <2> QED BY <2>1, <2>2, EndFacts DEF IInv, QueuedStates
<1>7. PacketsGenuine'
  <2>1. PICK q : q = Packet(e, f, a)
    OBVIOUS
  <2>2. /\ q.to = Peer(e) /\ q.flags = f /\ q.seq_end = snd_nxt[e] + Size(f)
        /\ q \in Packets /\ Size(f) \in 0 .. 1
    BY <2>1, PacketFacts DEF IInv
  <2>3. /\ snd_nxt \in [Ends -> Nat] /\ send_buf \in [Ends -> Seq(Packets)]
    BY DEF IInv, TypeOK
  <2>4. Genuine(q)'
    <3>1. Peer(q.to) = e
      BY <2>2, EndFacts
    <3>2. q.seq_end <= snd_nxt'[e]
      BY <2>2, <2>3
    <3>3. HasFin(q) => Closing(e)'
      BY <2>2, <1>2 DEF HasFin
    <3> QED BY <3>1, <3>2, <3>3 DEF Genuine
  <2>5. \A d \in Ends : snd_nxt[d] <= snd_nxt'[d]
    BY <2>2, <2>3
  <2>6. \A d \in Ends : \A p \in ToSet(send_buf'[d]) :
          p \in ToSet(send_buf[d]) \/ (p.to = Peer(d) /\ Genuine(p)')
    <3>1. send_buf'[e] = Append(send_buf[e], q)
      BY <2>1, <2>3
    <3>2. ToSet(Append(send_buf[e], q)) = ToSet(send_buf[e]) \cup {q}
      BY <2>2, <2>3, AppendSet
    <3>3. \A d \in Ends : d # e => send_buf'[d] = send_buf[d]
      BY <2>3
    <3> QED BY <2>2, <2>4, <3>1, <3>2, <3>3
  <2>7. \A d \in Ends : state'[d] = "none" => snd_nxt'[d] = 0
    <3>1. state'[e] # "none"
      BY <1>1
    <3> QED BY <3>1, <2>3 DEF IInv, PacketsGenuine
  <2>8. \A p \in net' : p \in net \/ Genuine(p)'
    BY <2>1, <2>4
  <2> QED BY <1>3, <2>5, <2>6, <2>7, <2>8, PacketsFrame DEF IInv
<1>8. PeerCloses'
  <2>1. ASSUME NEW d \in Ends, timewait'[d] PROVE Closing(d)'
    BY <2>1, <1>2, <1>3 DEF IInv, PeerCloses
  <2>2. ASSUME NEW d \in Ends, state'[d] \in {"LAST_ACK", "TIME_WAIT"}
        PROVE  Closing(Peer(d))'
    <3>1. Peer(d) \in Ends
      BY EndFacts
    <3>2. Closing(Peer(d))
      BY <2>2 DEF IInv, PeerCloses
    <3> QED BY <3>1, <3>2, <1>3
  <2> QED BY <2>1, <2>2 DEF PeerCloses
<1>9. ExpectsWhatWasSent'
  <2>1. \A d \in Ends : snd_nxt[d] \in Nat /\ snd_nxt'[d] \in Nat /\ snd_nxt[d] <= snd_nxt'[d]
    <3>1. Size(f) \in 0 .. 1
      BY DEF Size
    <3> QED BY <3>1 DEF IInv, TypeOK
  <2>2. \A d \in Ends : Peer(d) \in Ends /\ rcv_nxt'[d] \in Nat
    BY EndFacts DEF TypeOK
  <2> QED BY <2>1, <2>2 DEF ExpectsWhatWasSent
<1> QED BY <1>4, <1>6, <1>7, <1>8, <1>9 DEF IInv

\* The server takes a connection.
LEMMA AcceptTakeStep == ASSUME IInv, TypeOK', AcceptTake PROVE IInv'
<1> DEFINE c == Head(accept_queue)
<1>1. /\ accept_queue \in Seq(Clients) /\ accept_queue # << >>
      /\ accept_queue' = Tail(accept_queue) /\ pc' = [pc EXCEPT ![ChildEnd(c)] = "open"]
      /\ UNCHANGED <<endVars, listen_queue, net>>
      /\ pc \in [Ends -> {"none", "start", "to_sleep", "asleep", "woken", "open", "closing",
                          "done"}]
  BY DEF IInv, TypeOK, AcceptTake
<1>2. c \in ToSet(accept_queue) /\ ToSet(accept_queue') \subseteq ToSet(accept_queue)
  BY <1>1, TailSet
<1> HIDE DEF c
<1>3. c \in Clients /\ ChildEnd(c) \in ChildEnds /\ ChildEnd(c) \in Ends
  <2>1. ToSet(accept_queue) \subseteq Clients
    BY <1>1 DEF ToSet
  <2> QED BY <2>1, <1>2, EndFacts
<1>4. state[ChildEnd(c)] \notin {"none", "SYN_RECV"}
  BY <1>2 DEF IInv, QueuedStates
<1>5. \A e \in Ends : pc'[e] = IF e = ChildEnd(c) THEN "open" ELSE pc[e]
  BY <1>1
<1>6. UNCHANGED <<state, snd_nxt, rcv_nxt, send_buf, hashed, timewait, net>>
  BY <1>1 DEF endVars
<1>7. \A e \in Ends : Closing(e) => Closing(e)'
  BY <1>5, <1>6 DEF Closing, Waiting
<1>8. Phases'
  BY <1>3, <1>4, <1>5, <1>6, EndFacts DEF IInv, Phases, Waiting
<1>10. QueuedStates'
  BY <1>1, <1>2, <1>6 DEF IInv, QueuedStates
<1>11. PacketsGenuine'
  <2>1. \A e \in Ends : snd_nxt[e] <= snd_nxt'[e]
    BY <1>6 DEF IInv, TypeOK
  <2>2. \A e \in Ends : state'[e] = "none" => snd_nxt'[e] = 0
    BY <1>6 DEF IInv, PacketsGenuine
  <2> QED BY <1>6, <1>7, <2>1, <2>2, PacketsFrame DEF IInv
<1>12. PeerCloses'
  BY <1>6, <1>7, EndFacts DEF IInv, PeerCloses
<1>13. ExpectsWhatWasSent'
  BY <1>6 DEF IInv, ExpectsWhatWasSent
<1> QED BY <1>8, <1>10, <1>11, <1>12, <1>13 DEF IInv

\* A SYN makes a child, which the listen queue does not hold yet.
LEMMA RecvSynStep ==
  ASSUME IInv, TypeOK', NEW p \in net, RecvSyn(p) PROVE IInv'
<1> DEFINE e == p.to
           c == e.of
<1>1. /\ p \in Packets /\ e \in Ends /\ p.seq_end \in Nat /\ state[e] = "none"
      /\ p.seq_end <= snd_nxt[Peer(e)]
  BY DEF RecvSyn, IInv, TypeOK, Packets, PacketsGenuine, Genuine
<1>2. e \in ChildEnds /\ e = ChildEnd(c) /\ c \in Clients /\ pc[e] = "none"
  <2>1. e \notin ClientEnds
    BY <1>1 DEF IInv, Phases
  <2>2. e \in ChildEnds
    BY <1>1, <2>1 DEF Ends
  <2> QED BY <2>2, <1>1, EndFacts DEF IInv, Phases
<1>3. snd_nxt[e] = 0
  BY <1>1 DEF IInv, PacketsGenuine
<1>4. PICK out : out = Packet(e, "SYN|ACK", p.seq_end)
  OBVIOUS
<1>5. /\ state' = [state EXCEPT ![e] = "SYN_RECV"] /\ snd_nxt' = [snd_nxt EXCEPT ![e] = 1]
      /\ rcv_nxt' = [rcv_nxt EXCEPT ![e] = p.seq_end]
      /\ send_buf' = [send_buf EXCEPT ![e] = <<out>>]
      /\ net' \subseteq net \cup {out}
      /\ listen_queue' = Append(listen_queue, c)
      /\ UNCHANGED <<timewait, accept_queue, pc>>
  <2>1. net' \in Transmit(net \ {p}, {out})
    BY <1>4 DEF RecvSyn
  <2>2. net' \subseteq net \cup {out}
    BY <2>1, TransmitFacts
  <2> QED BY <1>4, <2>2 DEF RecvSyn, SetState, appVars
<1> HIDE DEF e, c
<1>6. /\ state \in [Ends -> States] /\ snd_nxt \in [Ends -> Nat] /\ rcv_nxt \in [Ends -> Nat]
      /\ send_buf \in [Ends -> Seq(Packets)]
      /\ listen_queue \in Seq(Clients) /\ accept_queue \in Seq(Clients)
  BY DEF IInv, TypeOK
<1>7. /\ out \in Packets /\ out.to = Peer(e) /\ out.flags = "SYN|ACK" /\ out.seq_end = 1
  <2>1. "SYN|ACK" \in Flags /\ Size("SYN|ACK") = 1
    BY DEF Flags, Size
  <2> QED BY <1>1, <1>3, <1>4, <2>1, PacketFacts DEF IInv
<1>8. \A d \in Ends : Closing(d) => Closing(d)'
  BY <1>1, <1>5, <1>6 DEF Closing, Finishing
<1>9. Phases'
  BY <1>1, <1>2, <1>5, <1>6, EndFacts DEF IInv, Phases, Waiting
<1>10. c \notin ToSet(listen_queue) /\ c \notin ToSet(accept_queue)
  BY <1>1, <1>2 DEF IInv, QueuedStates
<1>11. ToSet(listen_queue') = ToSet(listen_queue) \cup {c}
  BY <1>2, <1>5, <1>6, AppendSet
<1>13. QueuedStates'
  <2>1. ToSet(listen_queue) \subseteq Clients /\ ToSet(accept_queue) \subseteq Clients
    BY <1>6 DEF ToSet
  <2>2. \A d \in Clients : d # c => state'[ChildEnd(d)] = state[ChildEnd(d)]
    BY <1>2, <1>5, <1>6, EndFacts
  <2>3. state'[ChildEnd(c)] = "SYN_RECV"
    BY <1>1, <1>2, <1>5, <1>6
  <2> QED BY <2>1, <2>2, <2>3, <1>5, <1>10, <1>11 DEF IInv, QueuedStates
<1>14. PacketsGenuine'
  <2>1. Genuine(out)'
    <3>1. Peer(out.to) = e /\ ~HasFin(out)
      BY <1>1, <1>7, EndFacts DEF HasFin
    <3> QED BY <1>1, <1>5, <1>6, <1>7, <3>1 DEF Genuine
  <2>2. \A d \in Ends : snd_nxt[d] <= snd_nxt'[d]
    BY <1>3, <1>5, <1>6
  <2>3. \A d \in Ends : \A q \in ToSet(send_buf'[d]) :
          q \in ToSet(send_buf[d]) \/ (q.to = Peer(d) /\ Genuine(q)')
    <3>1. send_buf'[e] = <<out>> /\ \A d \in Ends : d # e => send_buf'[d] = send_buf[d]
      BY <1>1, <1>5, <1>6
    <3>2. ToSet(<<out>>) = {out}
      BY DEF ToSet
    <3> QED BY <3>1, <3>2, <2>1, <1>7
  <2>4. \A d \in Ends : state'[d] = "none" => snd_nxt'[d] = 0
    BY <1>1, <1>5, <1>6 DEF IInv, PacketsGenuine
  <2>5. \A q \in net' : q \in net \/ Genuine(q)'
    BY <1>5, <2>1
  <2> QED BY <1>8, <2>2, <2>3, <2>4, <2>5, PacketsFrame DEF IInv
<1>15. PeerCloses'
  <2>1. ASSUME NEW d \in Ends, timewait'[d] PROVE Closing(d)'
    BY <2>1, <1>5, <1>8 DEF IInv, PeerCloses
  <2>2. ASSUME NEW d \in Ends, state'[d] \in {"LAST_ACK", "TIME_WAIT"}
        PROVE  Closing(Peer(d))'
    <3>1. Peer(d) \in Ends
      BY EndFacts
    <3>2. Closing(Peer(d))
      BY <2>2, <1>1, <1>5, <1>6 DEF IInv, PeerCloses
    <3> QED BY <3>1, <3>2, <1>8
  <2> QED BY <2>1, <2>2 DEF PeerCloses
<1>16. ExpectsWhatWasSent'
  <2>1. \A d \in Ends : Peer(d) \in Ends /\ (Peer(d) = e <=> d = Peer(e)) /\ Peer(e) # e
    BY <1>1, EndFacts
  <2>2. \A d \in Ends : rcv_nxt'[d] <= snd_nxt[Peer(d)]
    BY <1>1, <1>5, <1>6 DEF IInv, ExpectsWhatWasSent
  <2>3. \A d \in Ends : snd_nxt[d] <= snd_nxt'[d] /\ snd_nxt[d] \in Nat /\ snd_nxt'[d] \in Nat
    BY <1>3, <1>5, <1>6
  <2>4. \A d \in Ends : rcv_nxt'[d] \in Nat
    BY DEF TypeOK
  <2> QED BY <2>1, <2>2, <2>3, <2>4 DEF ExpectsWhatWasSent
<1> QED BY <1>9, <1>13, <1>14, <1>15, <1>16 DEF IInv

\* The listen queue without the child of c.
LEMMA WithoutChildFacts ==
  ASSUME NEW c \in Clients, listen_queue \in Seq(Clients)
  PROVE  /\ WithoutChild(c) \in Seq(Clients)
         /\ ToSet(WithoutChild(c)) \subseteq ToSet(listen_queue)
<1>1. CASE c \notin ToSet(listen_queue)
  BY <1>1 DEF WithoutChild
<1>2. CASE c \in ToSet(listen_queue)
  <2> DEFINE k == CHOOSE i \in 1 .. Len(listen_queue) : listen_queue[i] = c
  <2>1. \E i \in 1 .. Len(listen_queue) : listen_queue[i] = c
    BY <1>2 DEF ToSet
  <2>2. k \in 1 .. Len(listen_queue) /\ listen_queue[k] = c
    BY <2>1
  <2>3. WithoutChild(c) = RemoveAt(listen_queue, k)
    BY <1>2 DEF WithoutChild
  <2> HIDE DEF k
  <2> QED BY <2>2, <2>3, RemoveAtSet
<1> QED BY <1>1, <1>2

\* The last ACK of the handshake moves the child to the accept queue.
LEMMA RecvAckOfHandshakeStep ==
  ASSUME IInv, TypeOK', NEW p \in net, RecvAckOfHandshake(p),
         UNCHANGED snd_nxt,
         \A d \in Ends : ToSet(send_buf'[d]) \subseteq ToSet(send_buf[d]),
         net' \subseteq net,
         \A d \in Ends : rcv_nxt'[d] <= snd_nxt[Peer(d)]
  PROVE  IInv'
<1> DEFINE e == p.to
           c == e.of
<1>1. /\ state \in [Ends -> States] /\ snd_nxt \in [Ends -> Nat]
      /\ listen_queue \in Seq(Clients) /\ accept_queue \in Seq(Clients)
  BY DEF IInv, TypeOK
<1>2. /\ e \in Ends /\ state[e] = "SYN_RECV"
      /\ state' = [state EXCEPT ![e] = "ESTABLISHED"]
      /\ listen_queue' = WithoutChild(c) /\ accept_queue' = Append(accept_queue, c)
      /\ UNCHANGED <<timewait, pc>>
  BY DEF RecvAckOfHandshake, IInv, TypeOK, Packets, SetState, appVars
<1> HIDE DEF e, c
<1>3. e \in ChildEnds /\ e = ChildEnd(c) /\ c \in Clients /\ pc[e] = "none"
  <2>1. e \notin ClientEnds
    BY <1>2 DEF IInv, Phases
  <2>2. e \in ChildEnds
    BY <1>2, <2>1 DEF Ends
  <2>3. e = ChildEnd(c) /\ c \in Clients
    BY <2>2, <1>2, EndFacts DEF c
  <2> QED BY <2>2, <2>3, <1>2 DEF IInv, Phases
<1>4. \A d \in Ends : Closing(d) => Closing(d)'
  BY <1>1, <1>2 DEF Closing, Finishing
<1>5. Phases'
  BY <1>1, <1>2, <1>3, EndFacts DEF IInv, Phases, Waiting
<1>6. ToSet(listen_queue') \subseteq ToSet(listen_queue)
  BY <1>1, <1>2, <1>3, WithoutChildFacts
<1>8. ToSet(accept_queue') = ToSet(accept_queue) \cup {c}
  BY <1>1, <1>2, <1>3, AppendSet
<1>10. QueuedStates'
  <2>1. ToSet(listen_queue) \subseteq Clients /\ ToSet(accept_queue) \subseteq Clients
    BY <1>1 DEF ToSet
  <2>2. \A d \in Clients : d # c => state'[ChildEnd(d)] = state[ChildEnd(d)]
    BY <1>1, <1>2, <1>3, EndFacts
  <2>3. state'[ChildEnd(c)] = "ESTABLISHED"
    BY <1>1, <1>2, <1>3
  <2> QED BY <2>1, <2>2, <2>3, <1>6, <1>8 DEF IInv, QueuedStates
<1>11. PacketsGenuine'
  <2>1. \A d \in Ends : snd_nxt[d] <= snd_nxt'[d]
    BY <1>1
  <2>2. \A d \in Ends : state'[d] = "none" => snd_nxt'[d] = 0
    BY <1>1, <1>2 DEF IInv, PacketsGenuine
  <2> QED BY <1>4, <2>1, <2>2, PacketsFrame DEF IInv
<1>12. PeerCloses'
  <2>1. ASSUME NEW d \in Ends, timewait'[d] PROVE Closing(d)'
    BY <2>1, <1>2, <1>4 DEF IInv, PeerCloses
  <2>2. ASSUME NEW d \in Ends, state'[d] \in {"LAST_ACK", "TIME_WAIT"}
        PROVE  Closing(Peer(d))'
    <3>1. Peer(d) \in Ends
      BY EndFacts
    <3>2. Closing(Peer(d))
      BY <2>2, <1>1, <1>2 DEF IInv, PeerCloses
    <3> QED BY <3>1, <3>2, <1>4
  <2> QED BY <2>1, <2>2 DEF PeerCloses
<1>13. ExpectsWhatWasSent'
  BY DEF ExpectsWhatWasSent
<1> QED BY <1>5, <1>10, <1>11, <1>12, <1>13 DEF IInv

-----------------------------------------------------------------------------
(* Types.                                                                  *)

\* What processing a packet does to the numbers, the send buffers and the network.
LEMMA ProcessFacts ==
  ASSUME IInv, NEW p \in net, NEW replies \in SUBSET Packets, Process(p, replies)
  PROVE  /\ UNCHANGED snd_nxt
         /\ rcv_nxt' \in [Ends -> Nat] /\ send_buf' \in [Ends -> Seq(Packets)]
         /\ net' \subseteq Packets /\ net' \subseteq net \cup replies
         /\ \A d \in Ends : ToSet(send_buf'[d]) \subseteq ToSet(send_buf[d])
         /\ \A d \in Ends : rcv_nxt'[d] <= snd_nxt[Peer(d)]
<1>1. /\ p \in Packets /\ p.to \in Ends /\ p.seq_end \in Nat
      /\ p.seq_end <= snd_nxt[Peer(p.to)]
      /\ net \subseteq Packets /\ rcv_nxt \in [Ends -> Nat]
      /\ send_buf \in [Ends -> Seq(Packets)]
  BY DEF IInv, TypeOK, Packets, PacketsGenuine, Genuine
<1>2. /\ NextExpected(p) \in Nat /\ NextExpected(p) <= snd_nxt[Peer(p.to)]
  BY <1>1 DEF NextExpected, IInv, ExpectsWhatWasSent
<1>3. /\ rcv_nxt' \in [Ends -> Nat] /\ \A d \in Ends : rcv_nxt'[d] <= snd_nxt[Peer(d)]
  BY <1>1, <1>2 DEF Process, IInv, ExpectsWhatWasSent
<1>4. /\ Unacked(p) \in Seq(Packets) /\ ToSet(Unacked(p)) \subseteq ToSet(send_buf[p.to])
  BY UnackedFacts DEF IInv
<1>5. send_buf' = [send_buf EXCEPT ![p.to] = Unacked(p)]
  BY DEF Process
<1>6. send_buf' \in [Ends -> Seq(Packets)]
  BY <1>1, <1>4, <1>5
<1>7. \A d \in Ends : ToSet(send_buf'[d]) \subseteq ToSet(send_buf[d])
  <2>1. send_buf'[p.to] = Unacked(p) /\ \A d \in Ends : d # p.to => send_buf'[d] = send_buf[d]
    BY <1>1, <1>5
  <2> QED BY <2>1, <1>4
<1>8. net' \subseteq net \cup replies
  <2>1. net' \in Transmit(net \ {p}, replies)
    BY DEF Process
  <2> QED BY <2>1, TransmitFacts
<1> QED BY <1>1, <1>3, <1>6, <1>7, <1>8 DEF Process

\* What sending a packet does to the types.
LEMMA SendFacts ==
  ASSUME TypeOK, NEW e \in Ends, NEW f \in Flags, NEW a \in Nat, Send(e, f, a)
  PROVE  /\ snd_nxt' \in [Ends -> Nat] /\ send_buf' \in [Ends -> Seq(Packets)]
         /\ net' \subseteq Packets /\ net' \subseteq net \cup {Packet(e, f, a)}
<1>1. PICK q : q = Packet(e, f, a)
  OBVIOUS
<1>2. q \in Packets /\ Size(f) \in 0 .. 1
  BY <1>1, PacketFacts
<1>3. send_buf \in [Ends -> Seq(Packets)] /\ send_buf' = [send_buf EXCEPT ![e] = Append(@, q)]
  BY <1>1 DEF TypeOK, Send
<1>4. send_buf' \in [Ends -> Seq(Packets)]
  BY <1>2, <1>3
<1>5. net' \subseteq net \cup {q}
  BY <1>1, TransmitFacts DEF Send
<1>6. snd_nxt' \in [Ends -> Nat]
  BY <1>2 DEF TypeOK, Send
<1> QED BY <1>1, <1>2, <1>4, <1>5, <1>6 DEF TypeOK

-----------------------------------------------------------------------------
(* The steps.                                                              *)

\* Each step of connect and write keeps the invariant.
LEMMA ClientStep ==
  ASSUME IInv, NEW c \in Clients, ConnectRun(c) \/ Write(c)
  PROVE  IInv'
<1> DEFINE e == ClientEnd(c)
<1>1. e \in ClientEnds /\ e \in Ends
  BY EndFacts
<1>2. \A d \in Ends : rcv_nxt[d] <= snd_nxt[Peer(d)]
  BY DEF IInv, ExpectsWhatWasSent
<1> HIDE DEF e
<1>3. CASE Connect(c)
  <2>1. /\ pc[e] = "start" /\ pc' = [pc EXCEPT ![e] = "to_sleep"]
        /\ state' = [state EXCEPT ![e] = "SYN_SENT"]
        /\ hashed' = [hashed EXCEPT ![e] = TRUE]
        /\ Send(e, "SYN", 0)
        /\ UNCHANGED <<rcv_nxt, timewait, listenVars, apc, written, wait_connect>>
    BY <1>3 DEF Connect, At, SetState, e
  <2>2. "SYN" \in Flags /\ 0 \in Nat
    BY DEF Flags
  <2>3. /\ snd_nxt' \in [Ends -> Nat] /\ send_buf' \in [Ends -> Seq(Packets)]
        /\ net' \subseteq Packets /\ net' \subseteq net \cup {Packet(e, "SYN", 0)}
    BY <1>1, <2>1, <2>2, SendFacts DEF IInv
  <2>4. TypeOK'
    BY <2>1, <2>3, <1>1 DEF IInv, TypeOK, States, listenVars
  <2>5. \A d \in Ends : d # e => /\ state'[d] = state[d] /\ pc'[d] = pc[d]
                                 /\ timewait'[d] = timewait[d]
    BY <2>1 DEF IInv, TypeOK
  <2>6. /\ pc'[e] = "to_sleep" /\ state'[e] = "SYN_SENT" /\ timewait'[e] = timewait[e]
    BY <2>1, <1>1 DEF IInv, TypeOK
  <2>7. /\ snd_nxt' = [snd_nxt EXCEPT ![e] = @ + Size("SYN")]
        /\ send_buf' = [send_buf EXCEPT ![e] = Append(@, Packet(e, "SYN", 0))]
    BY <2>1 DEF Send
  <2> QED BY <1>1, <1>2, <2>1, <2>2, <2>3, <2>4, <2>5, <2>6, <2>7, SendStep DEF listenVars
<1>4. CASE Write(c)
  <2>1. /\ pc[e] = "open" /\ written[c] < MaxData
        /\ written' = [written EXCEPT ![c] = @ + 1]
        /\ Send(e, "PSH", rcv_nxt[e])
        /\ UNCHANGED <<state, rcv_nxt, hashed, timewait, listenVars, pc, apc, wait_connect>>
    BY <1>4 DEF Write, e
  <2>2. "PSH" \in Flags /\ rcv_nxt[e] \in Nat
    BY <1>1 DEF Flags, IInv, TypeOK
  <2>3. /\ snd_nxt' \in [Ends -> Nat] /\ send_buf' \in [Ends -> Seq(Packets)]
        /\ net' \subseteq Packets /\ net' \subseteq net \cup {Packet(e, "PSH", rcv_nxt[e])}
    BY <1>1, <2>1, <2>2, SendFacts DEF IInv
  <2>4. written' \in [Clients -> 0 .. MaxData]
    BY <2>1, TcpConnAssumption DEF IInv, TypeOK
  <2>5. TypeOK'
    BY <2>1, <2>3, <2>4, <1>1 DEF IInv, TypeOK, listenVars
  <2>6. /\ snd_nxt' = [snd_nxt EXCEPT ![e] = @ + Size("PSH")]
        /\ send_buf' = [send_buf EXCEPT ![e] = Append(@, Packet(e, "PSH", rcv_nxt[e]))]
    BY <2>1 DEF Send
  <2> QED BY <1>1, <1>2, <2>1, <2>2, <2>3, <2>5, <2>6, SendStep DEF listenVars
<1>5. CASE ConnectSleep(c)
  <2>1. /\ UNCHANGED <<endVars, listenVars, apc, written, net>>
        /\ wait_connect' = [wait_connect EXCEPT ![c] = sleep_on(@)]
        /\ pc[e] = "to_sleep"
    BY <1>5 DEF ConnectSleep, At, e
  <2>2. PICK w \in {"woken", "asleep"} : pc' = [pc EXCEPT ![e] = w]
    BY <1>5 DEF ConnectSleep, At, e
  <2>3. wait_connect' \in [Clients -> Wait]
    BY <2>1, WaitFacts DEF IInv, TypeOK
  <2>4. TypeOK'
    BY <2>1, <2>2, <2>3 DEF IInv, TypeOK, endVars, listenVars
  <2>5. \A d \in Ends : \/ pc'[d] = pc[d]
                        \/ pc[d] \in Waiting /\ pc'[d] \in Waiting
    BY <2>1, <2>2, <1>1 DEF IInv, TypeOK, Waiting
  <2>6. \A d \in Ends : ~(pc[d] \in Waiting /\ pc'[d] = "open")
    BY <2>5 DEF Waiting
  <2> QED BY <1>2, <2>1, <2>4, <2>5, <2>6, MildStep DEF endVars, listenVars
<1>6. CASE ConnectResume(c)
  <2>1. /\ UNCHANGED <<endVars, listenVars, apc, written, net>>
        /\ wait_connect' = [wait_connect EXCEPT ![c] = resume(@)]
        /\ pc[e] = "asleep" /\ pc' = [pc EXCEPT ![e] = "woken"]
    BY <1>6 DEF ConnectResume, At, e
  <2>2. wait_connect' \in [Clients -> Wait]
    BY <2>1, WaitFacts DEF IInv, TypeOK
  <2>3. TypeOK'
    BY <2>1, <2>2 DEF IInv, TypeOK, endVars, listenVars
  <2>4. \A d \in Ends : \/ pc'[d] = pc[d]
                        \/ pc[d] \in Waiting /\ pc'[d] \in Waiting
    BY <2>1, <1>1 DEF IInv, TypeOK, Waiting
  <2>5. \A d \in Ends : ~(pc[d] \in Waiting /\ pc'[d] = "open")
    BY <2>4 DEF Waiting
  <2> QED BY <1>2, <2>1, <2>3, <2>4, <2>5, MildStep DEF endVars, listenVars
<1>7. CASE ConnectDone(c)
  <2>1. /\ pc[e] = "woken" /\ pc' = [pc EXCEPT ![e] = "open"]
        /\ state' = [state EXCEPT ![e] = "ESTABLISHED"]
        /\ UNCHANGED <<snd_nxt, rcv_nxt, send_buf, hashed, timewait, listenVars, apc,
                       written, wait_connect>>
        /\ net' \in Transmit(net, {Packet(e, "ACK", rcv_nxt[e])})
    BY <1>7 DEF ConnectDone, At, SetState, e
  <2>2. "ACK" \in Flags /\ rcv_nxt[e] \in Nat
    BY <1>1 DEF Flags, IInv, TypeOK
  <2>3. /\ Packet(e, "ACK", rcv_nxt[e]) \in Packets
        /\ net' \subseteq net \cup {Packet(e, "ACK", rcv_nxt[e])}
    BY <1>1, <2>1, <2>2, PacketFacts, TransmitFacts DEF IInv
  <2>4. TypeOK'
    BY <2>1, <2>3 DEF IInv, TypeOK, States, listenVars
  <2>5. \A d \in Ends : \/ pc'[d] = pc[d] /\ state'[d] = state[d]
                        \/ pc[d] = "woken" /\ pc'[d] = "open" /\ state'[d] = "ESTABLISHED"
    BY <2>1, <1>1 DEF IInv, TypeOK
  <2>6. \A d \in Ends : ~(pc'[d] = pc[d] /\ pc[d] \in Waiting /\ pc'[d] = "open")
    BY DEF Waiting
  <2>7. \A p \in net' : p \in net \/ \E d \in Ends, a \in Nat : p = Packet(d, "ACK", a)
    BY <1>1, <2>2, <2>3
  <2>8. \A d \in Ends : state'[d] \in {"LAST_ACK", "TIME_WAIT"} => state'[d] = state[d]
    BY <2>5
  <2> QED BY <1>2, <2>1, <2>4, <2>5, <2>6, <2>7, <2>8, MildStep DEF listenVars
<1> QED BY <1>3, <1>4, <1>5, <1>6, <1>7 DEF ConnectRun

\* So does each step of close.
LEMMA CloseStep ==
  ASSUME IInv, NEW e \in Ends, CloseRun(e)
  PROVE  IInv'
<1>1. \A d \in Ends : rcv_nxt[d] <= snd_nxt[Peer(d)]
  BY DEF IInv, ExpectsWhatWasSent
<1>2. CASE CloseTest(e)
  <2>1. /\ UNCHANGED <<endVars, listenVars, apc, written, wait_connect, net>>
        /\ pc[e] = "open"
    BY <1>2 DEF CloseTest, At
  <2>2. PICK w \in {"closing", "done"} : pc' = [pc EXCEPT ![e] = w]
    BY <1>2 DEF CloseTest, At
  <2>3. TypeOK'
    BY <2>1, <2>2 DEF IInv, TypeOK, endVars, listenVars
  <2>4. \A d \in Ends : /\ \/ pc'[d] = pc[d]
                           \/ pc[d] = "open" /\ pc'[d] \in {"closing", "done"}
                        /\ ~(pc[d] \in Waiting /\ pc'[d] = "open")
    BY <2>1, <2>2 DEF IInv, TypeOK, Waiting
  <2> QED BY <1>1, <2>1, <2>3, <2>4, MildStep DEF endVars, listenVars
<1>3. CASE CloseSend(e)
  <2>1. /\ pc[e] = "closing" /\ pc' = [pc EXCEPT ![e] = "done"]
        /\ state' = [state EXCEPT ![e] = "FIN_WAIT_1"]
        /\ Send(e, "FIN", rcv_nxt[e])
        /\ UNCHANGED <<rcv_nxt, hashed, timewait, listenVars, apc, written, wait_connect>>
    BY <1>3 DEF CloseSend, At, SetState
  <2>2. "FIN" \in Flags /\ rcv_nxt[e] \in Nat
    BY DEF Flags, IInv, TypeOK
  <2>3. /\ snd_nxt' \in [Ends -> Nat] /\ send_buf' \in [Ends -> Seq(Packets)]
        /\ net' \subseteq Packets /\ net' \subseteq net \cup {Packet(e, "FIN", rcv_nxt[e])}
    BY <2>1, <2>2, SendFacts DEF IInv
  <2>4. TypeOK'
    BY <2>1, <2>3 DEF IInv, TypeOK, States, listenVars
  <2>5. /\ pc'[e] = "done" /\ state'[e] = "FIN_WAIT_1" /\ timewait'[e] = timewait[e]
        /\ \A d \in Ends : d # e => /\ state'[d] = state[d] /\ pc'[d] = pc[d]
                                    /\ timewait'[d] = timewait[d]
    BY <2>1 DEF IInv, TypeOK
  <2>6. /\ snd_nxt' = [snd_nxt EXCEPT ![e] = @ + Size("FIN")]
        /\ send_buf' = [send_buf EXCEPT ![e] = Append(@, Packet(e, "FIN", rcv_nxt[e]))]
    BY <2>1 DEF Send
  <2> QED BY <1>1, <2>1, <2>2, <2>3, <2>4, <2>5, <2>6, SendStep DEF listenVars
<1> QED BY <1>2, <1>3 DEF CloseRun

\* So does each step of accept.
LEMMA AcceptStep == ASSUME IInv, AcceptRun PROVE IInv'
<1>1. \A d \in Ends : rcv_nxt[d] <= snd_nxt[Peer(d)]
  BY DEF IInv, ExpectsWhatWasSent
<1>2. CASE AcceptTake
  <2>1. /\ accept_queue \in Seq(Clients) /\ accept_queue # << >>
    BY <1>2 DEF AcceptTake, IInv, TypeOK
  <2>2. accept_queue' \in Seq(Clients)
    BY <1>2, <2>1 DEF AcceptTake
  <2>3. TypeOK'
    BY <1>2, <2>2 DEF AcceptTake, IInv, TypeOK, endVars
  <2> QED BY <1>2, <2>3, AcceptTakeStep
<1>3. CASE AcceptEmpty \/ AcceptSleep \/ AcceptResume
  <2>1. /\ UNCHANGED <<endVars, listen_queue, accept_queue, pc, written,
                       wait_connect, net>>
        /\ apc' \in {"check", "to_sleep", "asleep"}
    BY <1>3 DEF AcceptEmpty, AcceptSleep, AcceptResume, listenVars
  <2>2. wait_accept' \in Wait
    BY <1>3, WaitFacts DEF IInv, TypeOK, AcceptEmpty, AcceptSleep, AcceptResume, listenVars
  <2>3. TypeOK'
    BY <2>1, <2>2 DEF IInv, TypeOK, endVars
  <2>4. \A d \in Ends : ~(pc[d] \in Waiting /\ pc[d] = "open")
    BY DEF Waiting
  <2> QED BY <1>1, <2>1, <2>3, <2>4, MildStep DEF endVars
<1> QED BY <1>2, <1>3 DEF AcceptRun

\* So do the timers and the losses.
LEMMA TimerStep ==
  ASSUME IInv,
         \/ \E e \in Ends : TimewaitExpires(e)
         \/ \E e \in Ends, f \in Flags : Resend(e, f)
         \/ Lose
         \/ UNCHANGED vars
  PROVE  IInv'
<1>1. \A d \in Ends : rcv_nxt[d] <= snd_nxt[Peer(d)]
  BY DEF IInv, ExpectsWhatWasSent
<1>2. \A d \in Ends : ~(pc[d] \in Waiting /\ pc[d] = "open")
  BY DEF Waiting
<1>3. CASE \E e \in Ends : TimewaitExpires(e)
  <2>1. PICK e \in Ends :
          /\ timewait[e] /\ timewait' = [timewait EXCEPT ![e] = FALSE]
          /\ state' = [state EXCEPT ![e] = "CLOSED"]
          /\ hashed' = [hashed EXCEPT ![e] = FALSE]
          /\ UNCHANGED <<snd_nxt, rcv_nxt, send_buf, listenVars, appVars, wait_connect, net>>
    BY <1>3 DEF TimewaitExpires, SetState
  <2>2. TypeOK'
    BY <2>1 DEF IInv, TypeOK, States, listenVars, appVars
  <2>3. \A d \in Ends : /\ state'[d] = state[d] \/ (timewait[d] /\ state'[d] = "CLOSED")
                        /\ timewait'[d] => timewait[d]
                        /\ state'[d] \in {"LAST_ACK", "TIME_WAIT"} => state'[d] = state[d]
    BY <2>1 DEF IInv, TypeOK
  <2> QED BY <1>1, <1>2, <2>1, <2>2, <2>3, MildStep DEF listenVars, appVars
<1>4. CASE (\E e \in Ends, f \in Flags : Resend(e, f)) \/ Lose \/ UNCHANGED vars
  <2>1. UNCHANGED <<endVars, listenVars, appVars, wait_connect>>
    BY <1>4 DEF Resend, Lose, vars
  <2>2. \A p \in net' : p \in net \/ \E e \in Ends : p \in ToSet(send_buf[e])
    <3>1. CASE \E e \in Ends, f \in Flags : Resend(e, f)
      <4>1. PICK e \in Ends : \E i \in 1 .. Len(send_buf[e]) :
              net' \in Transmit(net, {send_buf[e][i]})
        BY <3>1 DEF Resend
      <4>2. PICK i \in 1 .. Len(send_buf[e]) : net' \in Transmit(net, {send_buf[e][i]})
        BY <4>1
      <4>3. send_buf[e][i] \in ToSet(send_buf[e])
        BY DEF IInv, TypeOK, ToSet
      <4> QED BY <4>2, <4>3, TransmitFacts
    <3>2. CASE Lose \/ UNCHANGED vars
      BY <3>2 DEF Lose, vars
    <3> QED BY <1>4, <3>1, <3>2
  <2>3. net' \subseteq Packets
    BY <2>2, KeptFacts DEF IInv, TypeOK
  <2>4. TypeOK'
    BY <2>1, <2>3 DEF IInv, TypeOK, endVars, listenVars, appVars
  <2> QED BY <1>1, <1>2, <2>1, <2>2, <2>4, MildStep DEF endVars, listenVars, appVars
<1> QED BY <1>3, <1>4

\* So does the processing of each packet.
LEMMA RecvStep ==
  ASSUME IInv, NEW p \in net, Recv(p)
  PROVE  IInv'
<1> DEFINE e == p.to
           ack == Packet(e, "ACK", p.seq_end)
<1>1. /\ p \in Packets /\ e \in Ends /\ p.flags \in Flags /\ p.seq_end \in Nat
      /\ p.seq_end <= snd_nxt[Peer(e)] /\ (HasFin(p) => Closing(Peer(e)))
      /\ net \subseteq Packets
  BY DEF IInv, TypeOK, Packets, PacketsGenuine, Genuine
<1>2. \A d \in Ends : rcv_nxt[d] <= snd_nxt[Peer(d)]
  BY DEF IInv, ExpectsWhatWasSent
<1>3. \A d \in Ends : ~(pc[d] \in Waiting /\ pc[d] = "open")
  BY DEF Waiting
<1>4. ack \in Packets
  <2>1. "ACK" \in Flags
    BY DEF Flags
  <2> QED BY <1>1, <2>1, PacketFacts DEF IInv
<1>5. \A x : x = ack => \E d \in Ends, a \in Nat : x = Packet(d, "ACK", a)
  BY <1>1
<1> HIDE DEF e, ack
<1>6. CASE RecvSyn(p)
  <2>1. PICK out : out = Packet(e, "SYN|ACK", p.seq_end)
    OBVIOUS
  <2>2. out \in Packets
    <3>1. "SYN|ACK" \in Flags
      BY DEF Flags
    <3> QED BY <1>1, <2>1, <3>1, PacketFacts DEF IInv
  <2>3. net' \subseteq Packets
    <3>1. net' \in Transmit(net \ {p}, {out})
      BY <1>6, <2>1 DEF RecvSyn, e
    <3> QED BY <1>1, <2>2, <3>1, TransmitFacts
  <2>4. send_buf' \in [Ends -> Seq(Packets)]
    <3>1. send_buf' = [send_buf EXCEPT ![e] = <<out>>]
      BY <1>6, <2>1 DEF RecvSyn, e
    <3>2. <<out>> \in Seq(Packets)
      BY <2>2
    <3> QED BY <3>1, <3>2 DEF IInv, TypeOK
  <2>5. listen_queue' \in Seq(Clients)
    <3>1. listen_queue' = Append(listen_queue, e.of) /\ e.of \in Clients
      BY <1>1, <1>6, EndFacts DEF RecvSyn, e
    <3> QED BY <3>1 DEF IInv, TypeOK
  <2>6. /\ state' = [state EXCEPT ![e] = "SYN_RECV"] /\ snd_nxt' = [snd_nxt EXCEPT ![e] = 1]
        /\ rcv_nxt' = [rcv_nxt EXCEPT ![e] = p.seq_end]
        /\ hashed' = [hashed EXCEPT ![e] = TRUE]
        /\ UNCHANGED <<timewait, accept_queue, wait_accept, appVars,
                       wait_connect>>
    BY <1>6 DEF RecvSyn, SetState, e
  <2>7. TypeOK'
    BY <1>1, <2>3, <2>4, <2>5, <2>6 DEF IInv, TypeOK, States, appVars
  <2> QED BY <1>6, <2>7, RecvSynStep
<1>7. ASSUME RecvSynAgain(p) \/ RecvSynAck(p) \/ RecvAckOfHandshake(p) \/ RecvAckOfFin(p)
             \/ RecvAckOnly(p)
      PROVE  /\ UNCHANGED <<snd_nxt, timewait, pc, apc, written>>
             /\ rcv_nxt' \in [Ends -> Nat] /\ send_buf' \in [Ends -> Seq(Packets)]
             /\ net' \subseteq Packets /\ net' \subseteq net
             /\ \A d \in Ends : ToSet(send_buf'[d]) \subseteq ToSet(send_buf[d])
             /\ \A d \in Ends : rcv_nxt'[d] <= snd_nxt[Peer(d)]
  <2>1. /\ Process(p, {}) /\ UNCHANGED <<timewait, pc, apc, written>>
    BY <1>7 DEF RecvSynAgain, RecvSynAck, RecvAckOfHandshake, RecvAckOfFin, RecvAckOnly,
                Rest, appVars
  <2>2. {} \in SUBSET Packets /\ net \cup {} = net
    OBVIOUS
  <2>3. /\ UNCHANGED snd_nxt
        /\ rcv_nxt' \in [Ends -> Nat] /\ send_buf' \in [Ends -> Seq(Packets)]
        /\ net' \subseteq Packets /\ net' \subseteq net \cup {}
        /\ \A d \in Ends : ToSet(send_buf'[d]) \subseteq ToSet(send_buf[d])
        /\ \A d \in Ends : rcv_nxt'[d] <= snd_nxt[Peer(d)]
    BY <2>1, <2>2, ProcessFacts
  <2> QED BY <2>1, <2>2, <2>3
<1>8. CASE RecvAckOfHandshake(p)
  <2>1. /\ state' = [state EXCEPT ![e] = "ESTABLISHED"]
        /\ listen_queue' = WithoutChild(e.of) /\ accept_queue' = Append(accept_queue, e.of)
        /\ wait_accept' = wake_up(wait_accept)
        /\ UNCHANGED <<hashed, wait_connect>>
    BY <1>8 DEF RecvAckOfHandshake, SetState, WakeAccept, e
  <2>2. listen_queue' \in Seq(Clients) /\ accept_queue' \in Seq(Clients) /\ wait_accept' \in Wait
    <3>1. e.of \in Clients
      BY <1>1, EndFacts
    <3> QED BY <2>1, <3>1, WithoutChildFacts, WaitFacts DEF IInv, TypeOK
  <2>3. state' \in [Ends -> States]
    BY <2>1 DEF IInv, TypeOK, States
  <2>4. TypeOK'
    BY <1>7, <1>8, <2>1, <2>2, <2>3 DEF IInv, TypeOK
  <2> QED BY <1>7, <1>8, <2>4, RecvAckOfHandshakeStep
<1>9. CASE RecvSynAgain(p) \/ RecvSynAck(p) \/ RecvAckOnly(p)
  <2>1. UNCHANGED <<state, hashed, listenVars>>
    BY <1>9 DEF RecvSynAgain, RecvSynAck, RecvAckOnly, Rest
  <2>2. wait_connect' \in [Clients -> Wait]
    <3>1. wait_connect' = wait_connect \/ wait_connect' = [wait_connect EXCEPT ![e.of] = wake_up(@)]
      BY <1>9 DEF RecvSynAgain, RecvSynAck, RecvAckOnly, Rest, WakeConnect, e
    <3>2. /\ wait_connect \in [Clients -> Wait] /\ e.of \in Clients
          /\ wake_up(wait_connect[e.of]) \in Wait
      BY <1>1, EndFacts, WaitFacts DEF IInv, TypeOK
    <3> QED BY <3>1, <3>2
  <2>3. TypeOK'
    BY <1>7, <1>9, <2>1, <2>2 DEF IInv, TypeOK, listenVars
  <2> QED BY <1>3, <1>7, <1>9, <2>1, <2>3, MildStep DEF listenVars
<1>10. CASE RecvAckOfFin(p)
  <2>1. /\ \/ state[e] = "FIN_WAIT_1" /\ state' = [state EXCEPT ![e] = "FIN_WAIT_2"]
           \/ state[e] = "LAST_ACK" /\ state' = [state EXCEPT ![e] = "CLOSED"]
        /\ hashed' = hashed \/ hashed' = [hashed EXCEPT ![e] = FALSE]
        /\ UNCHANGED <<listenVars, wait_connect>>
    BY <1>10 DEF RecvAckOfFin, SetState, FinAcked, e
  <2>2. TypeOK'
    BY <1>7, <1>10, <2>1 DEF IInv, TypeOK, States, listenVars
  <2>3. \A d \in Ends : /\ \/ state'[d] = state[d]
                           \/ state[d] \in Ending /\ state'[d] \in Finishing
                        /\ state'[d] \in {"LAST_ACK", "TIME_WAIT"} => state'[d] = state[d]
    BY <1>1, <2>1 DEF IInv, TypeOK, Ending, Finishing
  <2> QED BY <1>3, <1>7, <1>10, <2>1, <2>2, <2>3, MildStep DEF listenVars
<1>11. CASE RecvStray(p)
  <2>1. net' \subseteq net /\ UNCHANGED <<endVars, listenVars, appVars, wait_connect>>
    BY <1>11 DEF RecvStray
  <2>2. TypeOK'
    BY <1>1, <2>1 DEF IInv, TypeOK, endVars, listenVars, appVars
  <2> QED BY <1>2, <1>3, <2>1, <2>2, MildStep DEF endVars, listenVars, appVars
<1>12. CASE RecvPsh(p)
  <2> DEFINE next == IF p.seq = rcv_nxt[e] THEN p.seq_end ELSE rcv_nxt[e]
  <2>1. next \in Nat /\ next <= snd_nxt[Peer(e)]
    BY <1>1, <1>2 DEF IInv, TypeOK
  <2>2. PICK s : /\ s = IF state[e] = "SYN_RECV" THEN "ESTABLISHED" ELSE state[e]
                 /\ state' = [state EXCEPT ![e] = s]
    BY <1>12 DEF RecvPsh, SetState, e
  <2>3. PICK reply : /\ reply = Packet(e, "ACK", next)
                     /\ net' \in Transmit(net \ {p}, {reply})
    BY <1>12 DEF RecvPsh, e
  <2>4. /\ rcv_nxt' = [rcv_nxt EXCEPT ![e] = next]
        /\ UNCHANGED <<snd_nxt, send_buf, hashed, timewait, listenVars, appVars, wait_connect>>
    BY <1>12 DEF RecvPsh, Rest, e
  <2> HIDE DEF next
  <2>5. reply \in Packets
    <3>1. "ACK" \in Flags
      BY DEF Flags
    <3> QED BY <1>1, <2>1, <2>3, <3>1, PacketFacts DEF IInv
  <2>6. net' \subseteq net \cup {reply}
    BY <2>3, TransmitFacts
  <2>7. TypeOK'
    <3>1. s \in States
      BY <1>1, <2>2 DEF IInv, TypeOK, States
    <3>2. state' \in [Ends -> States] /\ rcv_nxt' \in [Ends -> Nat] /\ net' \subseteq Packets
      BY <1>1, <2>1, <2>2, <2>4, <2>5, <2>6, <3>1 DEF IInv, TypeOK
    <3> QED BY <2>4, <3>2 DEF IInv, TypeOK, listenVars, appVars
  <2>8. \A d \in Ends : /\ \/ state'[d] = state[d]
                           \/ state[d] = "SYN_RECV" /\ state'[d] = "ESTABLISHED"
                        /\ state'[d] \in {"LAST_ACK", "TIME_WAIT"} => state'[d] = state[d]
    BY <1>1, <2>2 DEF IInv, TypeOK
  <2>9. \A d \in Ends : rcv_nxt'[d] <= snd_nxt[Peer(d)]
    BY <1>2, <2>1, <2>4 DEF IInv, TypeOK
  <2>10. \A q \in net' : q \in net \/ \E d \in Ends, a \in Nat : q = Packet(d, "ACK", a)
    BY <1>1, <2>1, <2>3, <2>6
  <2> QED BY <1>3, <2>4, <2>7, <2>8, <2>9, <2>10, MildStep DEF listenVars, appVars
<1>13. CASE RecvAckFin(p) \/ RecvFin(p)
  <2>1. Closing(Peer(e))
    BY <1>1, <1>13 DEF RecvAckFin, RecvFin, Found, HasFin
  <2>2. /\ UNCHANGED <<hashed, listenVars, appVars, wait_connect>>
        /\ \/ /\ state[e] \in {"FIN_WAIT_1", "FIN_WAIT_2"}
              /\ state' = [state EXCEPT ![e] = "TIME_WAIT"]
              /\ timewait' = [timewait EXCEPT ![e] = TRUE]
              /\ Process(p, {ack})
           \/ UNCHANGED <<state, timewait>> /\ Process(p, {})
    BY <1>13 DEF RecvAckFin, RecvFin, SetState, SetTimewait, e, ack
  <2>3. PICK replies \in SUBSET {ack} : Process(p, replies)
    BY <2>2
  <2>4. /\ UNCHANGED snd_nxt
        /\ rcv_nxt' \in [Ends -> Nat] /\ send_buf' \in [Ends -> Seq(Packets)]
        /\ net' \subseteq Packets /\ net' \subseteq net \cup replies
        /\ \A d \in Ends : ToSet(send_buf'[d]) \subseteq ToSet(send_buf[d])
        /\ \A d \in Ends : rcv_nxt'[d] <= snd_nxt[Peer(d)]
    <3>1. replies \in SUBSET Packets
      BY <1>4
    <3> QED BY <2>3, <3>1, ProcessFacts
  <2>5. TypeOK'
    BY <2>2, <2>4 DEF IInv, TypeOK, States, listenVars, appVars
  <2>6. \A d \in Ends : /\ \/ state'[d] = state[d]
                           \/ state[d] \in Ending /\ state'[d] \in Finishing
                        /\ timewait'[d] => \/ timewait[d]
                                           \/ state[d] \in Ending /\ state'[d] \in Finishing
                        /\ state'[d] \in {"LAST_ACK", "TIME_WAIT"} =>
                             state'[d] = state[d] \/ Closing(Peer(d))
    BY <1>1, <2>1, <2>2 DEF IInv, TypeOK, Ending, Finishing
  <2>7. \A q \in net' : q \in net \/ \E d \in Ends, a \in Nat : q = Packet(d, "ACK", a)
    BY <1>5, <2>4
  <2>8. UNCHANGED <<pc, listen_queue, accept_queue>>
    BY <2>2 DEF listenVars, appVars
  <2> QED BY <1>3, <2>4, <2>5, <2>6, <2>7, <2>8, MildStep
<1>14. CASE RecvFinOpen(p)
  <2>1. Closing(Peer(e))
    BY <1>1, <1>14 DEF RecvFinOpen, Found, HasFin
  <2>2. PICK out : out = Packet(e, "ACK|FIN", p.seq_end)
    OBVIOUS
  <2>3. /\ state[e] = "ESTABLISHED" /\ state' = [state EXCEPT ![e] = "LAST_ACK"]
        /\ timewait' = [timewait EXCEPT ![e] = TRUE]
        /\ rcv_nxt' = [rcv_nxt EXCEPT ![e] = p.seq_end]
        /\ snd_nxt' = [snd_nxt EXCEPT ![e] = @ + 1]
        /\ send_buf' = [send_buf EXCEPT ![e] = Append(@, out)]
        /\ net' \in Transmit(net \ {p}, {out})
        /\ UNCHANGED <<hashed, listenVars, appVars, wait_connect>>
    BY <1>14, <2>2 DEF RecvFinOpen, SetState, SetTimewait, e
  <2>4. "ACK|FIN" \in Flags /\ Size("ACK|FIN") = 1
    BY DEF Flags, Size
  <2>5. out \in Packets /\ net' \subseteq net \cup {out}
    BY <1>1, <2>2, <2>3, <2>4, PacketFacts, TransmitFacts DEF IInv
  <2>6. TypeOK'
    <3>1. send_buf' \in [Ends -> Seq(Packets)]
      <4>1. send_buf \in [Ends -> Seq(Packets)] /\ Append(send_buf[e], out) \in Seq(Packets)
        BY <1>1, <2>5 DEF IInv, TypeOK
      <4> QED BY <2>3, <4>1
    <3>2. "LAST_ACK" \in States /\ p.seq_end \in Nat
      BY <1>1 DEF States
    <3>3. /\ state' \in [Ends -> States] /\ timewait' \in [Ends -> BOOLEAN]
          /\ rcv_nxt' \in [Ends -> Nat] /\ snd_nxt' \in [Ends -> Nat]
      <4>1. /\ state \in [Ends -> States] /\ timewait \in [Ends -> BOOLEAN]
            /\ rcv_nxt \in [Ends -> Nat] /\ snd_nxt \in [Ends -> Nat]
        BY DEF IInv, TypeOK
      <4>2. /\ state' = [state EXCEPT ![e] = "LAST_ACK"]
            /\ timewait' = [timewait EXCEPT ![e] = TRUE]
            /\ rcv_nxt' = [rcv_nxt EXCEPT ![e] = p.seq_end]
            /\ snd_nxt' = [snd_nxt EXCEPT ![e] = @ + 1]
        BY <2>3
      <4>3. e \in Ends /\ snd_nxt[e] + 1 \in Nat
        BY <1>1, <4>1
      <4> QED BY <3>2, <4>1, <4>2, <4>3
    <3>4. net' \subseteq Packets
      BY <2>5 DEF IInv, TypeOK
    <3> QED BY <2>3, <3>1, <3>3, <3>4 DEF IInv, TypeOK, listenVars, appVars
  <2>7. /\ state'[e] = "LAST_ACK" /\ pc'[e] = pc[e]
        /\ \A d \in Ends : d # e => /\ state'[d] = state[d] /\ pc'[d] = pc[d]
                                    /\ timewait'[d] = timewait[d]
    BY <1>1, <2>3 DEF IInv, TypeOK, appVars
  <2>8. \A d \in Ends : rcv_nxt'[d] <= snd_nxt[Peer(d)]
    BY <1>1, <1>2, <2>3 DEF IInv, TypeOK
  <2>9. /\ snd_nxt' = [snd_nxt EXCEPT ![e] = @ + Size("ACK|FIN")]
        /\ send_buf' = [send_buf EXCEPT ![e] = Append(@, Packet(e, "ACK|FIN", p.seq_end))]
        /\ net' \subseteq net \cup {Packet(e, "ACK|FIN", p.seq_end)}
    BY <2>2, <2>3, <2>4, <2>5
  <2>10. UNCHANGED <<listen_queue, accept_queue>>
    BY <2>3 DEF listenVars
  <2> QED BY <1>1, <2>1, <2>3, <2>4, <2>6, <2>7, <2>8, <2>9, <2>10, SendStep
<1> QED BY <1>6, <1>8, <1>9, <1>10, <1>11, <1>12, <1>13, <1>14 DEF Recv

-----------------------------------------------------------------------------
(* The theorems.                                                           *)

\* The invariant holds at the start.
LEMMA InitIInv == ASSUME Init PROVE IInv
<1>1. \A e \in Ends : /\ state[e] = IF e \in ClientEnds THEN "CLOSED" ELSE "none"
                      /\ pc[e] = IF e \in ClientEnds THEN "start" ELSE "none"
                      /\ snd_nxt[e] = 0 /\ rcv_nxt[e] = 0 /\ send_buf[e] = << >>
                      /\ timewait[e] = FALSE
  BY DEF Init
<1>2. ToSet(<< >>) = {} 
  BY DEF ToSet
<1>3. \A S : << >> \in Seq(S)
  OBVIOUS
<1>4. TypeOK
  <2>1. send_buf \in [Ends -> Seq(Packets)]
    BY <1>3 DEF Init
  <2>2. written \in [Clients -> 0 .. MaxData]
    BY TcpConnAssumption DEF Init
  <2>3. wait_connect \in [Clients -> Wait] /\ wait_accept \in Wait
    BY WaitFacts DEF Init
  <2>4. state \in [Ends -> States] /\ apc \in {"check", "to_sleep", "asleep"}
    BY DEF Init, States
  <2>5. pc \in [Ends -> {"none", "start", "to_sleep", "asleep", "woken", "open", "closing",
                         "done"}]
    BY DEF Init
  <2> QED BY <1>3, <2>1, <2>2, <2>3, <2>4, <2>5 DEF Init, TypeOK
<1>5. Phases
  BY <1>1, EndFacts DEF Phases, Waiting
<1>6. QueuedStates
  BY <1>2 DEF Init, QueuedStates
<1>7. PacketsGenuine
  BY <1>1, <1>2 DEF Init, PacketsGenuine
<1>8. PeerCloses
  BY <1>1 DEF PeerCloses
<1>9. ExpectsWhatWasSent
  BY <1>1, EndFacts DEF ExpectsWhatWasSent
<1> QED BY <1>4, <1>5, <1>6, <1>7, <1>8, <1>9 DEF IInv

\* Every step keeps it.
LEMMA NextIInv == ASSUME IInv, [Next]_vars PROVE IInv'
BY ClientStep, CloseStep, AcceptStep, TimerStep, RecvStep DEF Next

\* Every reachable state satisfies the invariant.
LEMMA IInvCorrect == Spec => []IInv
<1>1. Init => IInv
  BY InitIInv
<1>2. IInv /\ [Next]_vars => IInv'
  BY NextIInv
<1> QED BY <1>1, <1>2, PTL DEF Spec

\* The variables keep to their types: above all, what an end keeps for retransmission
\* and what is on the way is always a packet that names one of the ends (tcp_out.c 62-93).
THEOREM TypeCorrect == Spec => []TypeOK
<1>1. IInv => TypeOK
  BY DEF IInv
<1> QED BY <1>1, IInvCorrect, PTL

\* No packet, however stale, makes an end expect what was not sent (tcp_in.c 101).
THEOREM ExpectsWhatWasSentCorrect == Spec => []ExpectsWhatWasSent
<1>1. IInv => ExpectsWhatWasSent
  BY DEF IInv
<1> QED BY <1>1, IInvCorrect, PTL

\* An end that is about to close for good has a peer that is closing too
\* (tcp_in.c 208-289).
THEOREM CloseAgreedCorrect == Spec => []CloseAgreed
<1>1. IInv => CloseAgreed
  BY DEF IInv, PeerCloses, CloseAgreed, Closing, Finishing
<1> QED BY <1>1, IInvCorrect, PTL

-----------------------------------------------------------------------------
(* No wakeup is lost.                                                      *)

\* The client has not heard of an answer.
Early(c) == pc[ClientEnd(c)] \in {"start", "to_sleep", "asleep"} /\ ~wait_connect[c].notified

\* Until then the handshake is all there is of the connection: SYNs one way,
\* SYN|ACKs the other.
HandshakeOnly(c) ==
  /\ state[ChildEnd(c)] \in {"none", "SYN_RECV"}
  /\ \A p \in ToSet(send_buf[ClientEnd(c)]) : p.flags = "SYN"
  /\ \A p \in ToSet(send_buf[ChildEnd(c)]) : p.flags = "SYN|ACK"
  /\ \A p \in net : /\ p.to = ChildEnd(c) => p.flags = "SYN"
                    /\ p.to = ClientEnd(c) => p.flags = "SYN|ACK"

\* And both ends go on with it.
HandshakeKept(c) ==
  /\ pc[ClientEnd(c)] # "start" => hashed[ClientEnd(c)] /\ Keeps(ClientEnd(c), "SYN")
  /\ state[ChildEnd(c)] = "SYN_RECV" => Keeps(ChildEnd(c), "SYN|ACK")

HandshakeInv(c) == Early(c) => HandshakeOnly(c) /\ HandshakeKept(c)

\* A server that sleeps has found the queue empty.
AcceptInv == apc \in {"to_sleep", "asleep"} /\ ~wait_accept.notified => accept_queue = << >>

WakeInv == AcceptInv /\ \A c \in Clients : HandshakeInv(c)

\* The two ends of a connection, and who is whose.
LEMMA ConnectionFacts ==
  /\ \A c \in Clients :
       /\ ClientEnd(c) \in Ends /\ ChildEnd(c) \in Ends /\ ClientEnd(c) # ChildEnd(c)
       /\ ClientEnd(c).of = c /\ ChildEnd(c).of = c
       /\ Peer(ClientEnd(c)) = ChildEnd(c) /\ Peer(ChildEnd(c)) = ClientEnd(c)
  /\ \A e \in Ends : /\ e.of \in Clients /\ Peer(Peer(e)) = e /\ Peer(e) \in Ends
                     /\ Peer(e).of = e.of
                     /\ e = ClientEnd(e.of) \/ e = ChildEnd(e.of)
<1>1. \A c \in Clients : /\ ClientEnd(c).of = c /\ ClientEnd(c).side = "client"
                         /\ ChildEnd(c).of = c /\ ChildEnd(c).side = "child"
  BY DEF ClientEnd, ChildEnd
<1>2. \A c \in Clients : Peer(ClientEnd(c)) = ChildEnd(c) /\ Peer(ChildEnd(c)) = ClientEnd(c)
  BY <1>1 DEF Peer
<1>3. \A c \in Clients : ClientEnd(c) # ChildEnd(c)
  BY <1>1
<1>4. \A e \in Ends : e = ClientEnd(e.of) \/ e = ChildEnd(e.of)
  BY EndFacts DEF Ends
<1>5. \A e \in Ends : Peer(e).of = e.of
  BY <1>1, <1>2, <1>4, EndFacts
<1> QED BY <1>1, <1>2, <1>3, <1>4, <1>5, EndFacts

\* A step that does nothing to the connection of c but send again what was kept.
LEMMA HandshakeFrame ==
  ASSUME IInv, NEW c \in Clients, HandshakeInv(c),
         pc'[ClientEnd(c)] = pc[ClientEnd(c)], wait_connect'[c] = wait_connect[c],
         state'[ChildEnd(c)] = state[ChildEnd(c)], hashed'[ClientEnd(c)] = hashed[ClientEnd(c)],
         send_buf'[ClientEnd(c)] = send_buf[ClientEnd(c)],
         send_buf'[ChildEnd(c)] = send_buf[ChildEnd(c)],
         \A p \in net' : p.to \in {ClientEnd(c), ChildEnd(c)} =>
                           p \in net \/ \E e \in Ends : p \in ToSet(send_buf[e])
  PROVE  HandshakeInv(c)'
<1> SUFFICES ASSUME Early(c) PROVE HandshakeOnly(c)' /\ HandshakeKept(c)'
  BY DEF HandshakeInv, Early
<1>1. HandshakeOnly(c) /\ HandshakeKept(c)
  BY DEF HandshakeInv
<1>2. HandshakeKept(c)'
  BY <1>1 DEF HandshakeKept, Keeps
<1>3. ASSUME NEW p \in net', p.to = ChildEnd(c) PROVE p.flags = "SYN"
  <2>1. CASE p \in net
    BY <1>1, <1>3, <2>1 DEF HandshakeOnly
  <2>2. CASE \E e \in Ends : p \in ToSet(send_buf[e])
    <3>1. PICK e \in Ends : p \in ToSet(send_buf[e])
      BY <2>2
    <3>2. Peer(e) = ChildEnd(c)
      BY <1>3, <3>1 DEF IInv, PacketsGenuine
    <3>3. e = ClientEnd(c)
      BY <3>2, ConnectionFacts
    <3> QED BY <1>1, <3>1, <3>3 DEF HandshakeOnly
  <2> QED BY <1>3, <2>1, <2>2
<1>4. ASSUME NEW p \in net', p.to = ClientEnd(c) PROVE p.flags = "SYN|ACK"
  <2>1. CASE p \in net
    BY <1>1, <1>4, <2>1 DEF HandshakeOnly
  <2>2. CASE \E e \in Ends : p \in ToSet(send_buf[e])
    <3>1. PICK e \in Ends : p \in ToSet(send_buf[e])
      BY <2>2
    <3>2. Peer(e) = ClientEnd(c)
      BY <1>4, <3>1 DEF IInv, PacketsGenuine
    <3>3. e = ChildEnd(c)
      BY <3>2, ConnectionFacts
    <3> QED BY <1>1, <3>1, <3>3 DEF HandshakeOnly
  <2> QED BY <1>4, <2>1, <2>2
<1>5. HandshakeOnly(c)'
  BY <1>1, <1>3, <1>4 DEF HandshakeOnly
<1> QED BY <1>2, <1>5

\* A step of end e only.
OnlyAt(e) ==
  /\ \A d \in Ends \ {e} : /\ state'[d] = state[d] /\ hashed'[d] = hashed[d]
                           /\ send_buf'[d] = send_buf[d] /\ pc'[d] = pc[d]
  /\ \A c \in Clients \ {e.of} : wait_connect'[c] = wait_connect[c]
  /\ \A p \in net' : p \in net \/ p.to = Peer(e)

LEMMA OtherConnection ==
  ASSUME IInv, NEW e \in Ends, OnlyAt(e), NEW c \in Clients, c # e.of, HandshakeInv(c)
  PROVE  HandshakeInv(c)'
<1>1. e \notin {ClientEnd(c), ChildEnd(c)} /\ Peer(e) \notin {ClientEnd(c), ChildEnd(c)}
  BY ConnectionFacts
<1>2. {ClientEnd(c), ChildEnd(c)} \subseteq Ends \ {e} /\ c \in Clients \ {e.of}
  BY <1>1, ConnectionFacts
<1> QED BY <1>1, <1>2, HandshakeFrame DEF OnlyAt

\* What is sent goes to the peer.
LEMMA SentToPeer ==
  ASSUME NEW e, NEW flags, NEW ack, NEW sent, NEW after \in Transmit(sent, {Packet(e, flags, ack)})
  PROVE  \A p \in after : p \in sent \/ (p.to = Peer(e) /\ p.flags = flags)
<1>1. Packet(e, flags, ack).to = Peer(e) /\ Packet(e, flags, ack).flags = flags
  BY DEF Packet
<1>2. after \subseteq sent \cup {Packet(e, flags, ack)}
  BY TransmitFacts
<1> QED BY <1>1, <1>2

\* connect: its SYN is kept, and it sleeps only if it is not notified
\* (tcp_sock.c 283-297).
LEMMA ClientWake ==
  ASSUME IInv, WakeInv, NEW c \in Clients, ConnectRun(c) \/ Write(c)
  PROVE  \A b \in Clients : HandshakeInv(b)'
<1> DEFINE e == ClientEnd(c)
<1>1. e \in Ends /\ e.of = c /\ Peer(e) = ChildEnd(c) /\ ChildEnd(c) \in Ends /\ ChildEnd(c) # e
  BY ConnectionFacts
<1>2. HandshakeInv(c) /\ \A b \in Clients : HandshakeInv(b)
  BY DEF WakeInv
<1> HIDE DEF e
<1>3. OnlyAt(e)
  <2>1. CASE Connect(c)
    <3>1. /\ pc' = [pc EXCEPT ![e] = "to_sleep"] /\ state' = [state EXCEPT ![e] = "SYN_SENT"]
          /\ hashed' = [hashed EXCEPT ![e] = TRUE]
          /\ send_buf' = [send_buf EXCEPT ![e] = Append(@, Packet(e, "SYN", 0))]
          /\ net' \in Transmit(net, {Packet(e, "SYN", 0)}) /\ wait_connect' = wait_connect
      BY <2>1 DEF Connect, At, SetState, Send, e
    <3>2. \A p \in net' : p \in net \/ p.to = Peer(e)
      <4>1. net' \in Transmit(net, {Packet(e, "SYN", 0)})
        BY <3>1
      <4> QED BY <4>1, SentToPeer
    <3>3. \A d \in Ends \ {e} : /\ state'[d] = state[d] /\ hashed'[d] = hashed[d]
                               /\ send_buf'[d] = send_buf[d] /\ pc'[d] = pc[d]
      BY <3>1 DEF IInv, TypeOK
    <3> QED BY <3>1, <3>2, <3>3 DEF OnlyAt
  <2>2. CASE ConnectSleep(c) \/ ConnectResume(c)
    <3>1. /\ UNCHANGED <<state, hashed, send_buf, net>>
          /\ \E w : pc' = [pc EXCEPT ![e] = w]
          /\ \E w : wait_connect' = [wait_connect EXCEPT ![c] = w]
      BY <2>2 DEF ConnectSleep, ConnectResume, At, endVars, e
    <3> QED BY <1>1, <3>1 DEF OnlyAt, IInv, TypeOK
  <2>3. CASE ConnectDone(c)
    <3>1. /\ pc' = [pc EXCEPT ![e] = "open"] /\ state' = [state EXCEPT ![e] = "ESTABLISHED"]
          /\ UNCHANGED <<hashed, send_buf, wait_connect>>
          /\ net' \in Transmit(net, {Packet(e, "ACK", rcv_nxt[e])})
      BY <2>3 DEF ConnectDone, At, SetState, e
    <3>2. \A p \in net' : p \in net \/ p.to = Peer(e)
      <4>1. net' \in Transmit(net, {Packet(e, "ACK", rcv_nxt[e])})
        BY <3>1
      <4> QED BY <4>1, SentToPeer
    <3>3. \A d \in Ends \ {e} : /\ state'[d] = state[d] /\ hashed'[d] = hashed[d]
                               /\ send_buf'[d] = send_buf[d] /\ pc'[d] = pc[d]
      BY <3>1 DEF IInv, TypeOK
    <3> QED BY <3>1, <3>2, <3>3 DEF OnlyAt
  <2>4. CASE Write(c)
    <3>1. /\ UNCHANGED <<pc, state, hashed, wait_connect>>
          /\ send_buf' = [send_buf EXCEPT ![e] = Append(@, Packet(e, "PSH", rcv_nxt[e]))]
          /\ net' \in Transmit(net, {Packet(e, "PSH", rcv_nxt[e])})
      BY <2>4 DEF Write, Send, e
    <3>2. \A p \in net' : p \in net \/ p.to = Peer(e)
      <4>1. net' \in Transmit(net, {Packet(e, "PSH", rcv_nxt[e])})
        BY <3>1
      <4> QED BY <4>1, SentToPeer
    <3>3. \A d \in Ends \ {e} : /\ state'[d] = state[d] /\ hashed'[d] = hashed[d]
                               /\ send_buf'[d] = send_buf[d] /\ pc'[d] = pc[d]
      BY <3>1 DEF IInv, TypeOK
    <3> QED BY <3>1, <3>2, <3>3 DEF OnlyAt
  <2> QED BY <2>1, <2>2, <2>3, <2>4 DEF ConnectRun
<1>4. HandshakeInv(c)'
  <2>1. CASE Connect(c)
    <3>1. /\ pc[e] = "start" /\ pc' = [pc EXCEPT ![e] = "to_sleep"]
          /\ state' = [state EXCEPT ![e] = "SYN_SENT"]
          /\ hashed' = [hashed EXCEPT ![e] = TRUE]
          /\ send_buf' = [send_buf EXCEPT ![e] = Append(@, Packet(e, "SYN", 0))]
          /\ net' \in Transmit(net, {Packet(e, "SYN", 0)}) /\ wait_connect' = wait_connect
      BY <2>1 DEF Connect, At, SetState, Send, e
    <3> SUFFICES ASSUME Early(c) PROVE HandshakeOnly(c)' /\ HandshakeKept(c)'
      BY <3>1 DEF HandshakeInv, Early, e
    <3>2. HandshakeOnly(c) /\ HandshakeKept(c)
      BY <1>2 DEF HandshakeInv
    <3>3. ToSet(send_buf'[e]) = ToSet(send_buf[e]) \cup {Packet(e, "SYN", 0)}
      <4>1. send_buf[e] \in Seq(Packets) /\ Packet(e, "SYN", 0) \in Packets
        BY <1>1, PacketFacts DEF IInv, TypeOK, Flags
      <4>2. send_buf'[e] = Append(send_buf[e], Packet(e, "SYN", 0))
        BY <1>1, <3>1 DEF IInv, TypeOK
      <4> QED BY <4>1, <4>2, AppendSet
    <3>4. Packet(e, "SYN", 0).flags = "SYN"
      BY DEF Packet
    <3>5. Keeps(e, "SYN")'
      BY <3>3, <3>4 DEF Keeps
    <3>6. hashed'[e] /\ state'[ChildEnd(c)] = state[ChildEnd(c)]
          /\ send_buf'[ChildEnd(c)] = send_buf[ChildEnd(c)]
      BY <1>1, <3>1 DEF IInv, TypeOK
    <3>7. HandshakeKept(c)'
      BY <3>2, <3>5, <3>6 DEF HandshakeKept, Keeps, e
    <3>8. \A p \in net' : p \in net \/ (p.to = ChildEnd(c) /\ p.flags = "SYN")
      BY <1>1, <3>1, SentToPeer
    <3>9. HandshakeOnly(c)'
      BY <1>1, <3>2, <3>3, <3>4, <3>6, <3>8 DEF HandshakeOnly, e
    <3> QED BY <3>7, <3>9
  <2>2. CASE ConnectSleep(c)
    <3>1. /\ pc[e] = "to_sleep" /\ UNCHANGED <<state, hashed, send_buf, net>>
          /\ pc' = [pc EXCEPT ![e] = IF Returns(wait_connect[c]) THEN "woken" ELSE "asleep"]
      BY <2>2 DEF ConnectSleep, At, endVars, e
    <3>2. pc'[e] = IF wait_connect[c].notified THEN "woken" ELSE "asleep"
      BY <1>1, <3>1 DEF Returns, IInv, TypeOK
    <3>3. Early(c)' => Early(c)
      BY <3>1, <3>2 DEF Early, e
    <3> QED BY <1>2, <3>1, <3>2, <3>3
            DEF HandshakeInv, HandshakeOnly, HandshakeKept, Keeps, e
  <2>3. CASE ConnectResume(c) \/ ConnectDone(c) \/ Write(c)
    <3>1. pc'[e] \in {"woken", "open"}
      BY <1>1, <2>3 DEF ConnectResume, ConnectDone, Write, At, IInv, TypeOK, e
    <3> QED BY <3>1 DEF HandshakeInv, Early, e
  <2> QED BY <2>1, <2>2, <2>3 DEF ConnectRun
<1> QED BY <1>1, <1>2, <1>3, <1>4, OtherConnection

\* close begins after the handshake, and so does everything with a timer of
\* its own (tcp_sock.c 351-366, tcp_timer.c 18-27).
LEMMA LaterWake ==
  ASSUME IInv, WakeInv, NEW e \in Ends, CloseRun(e) \/ TimewaitExpires(e)
  PROVE  \A b \in Clients : HandshakeInv(b)'
<1>1. e.of \in Clients /\ HandshakeInv(e.of) /\ \A b \in Clients : HandshakeInv(b)
  BY ConnectionFacts DEF WakeInv
<1>2. OnlyAt(e)
  <2>1. CASE CloseTest(e)
    <3>1. /\ UNCHANGED <<state, hashed, send_buf, net, wait_connect>>
          /\ \E w : pc' = [pc EXCEPT ![e] = w]
      BY <2>1 DEF CloseTest, At, endVars
    <3> QED BY <3>1 DEF OnlyAt, IInv, TypeOK
  <2>2. CASE CloseSend(e)
    <3>1. /\ pc' = [pc EXCEPT ![e] = "done"] /\ state' = [state EXCEPT ![e] = "FIN_WAIT_1"]
          /\ UNCHANGED <<hashed, wait_connect>>
          /\ send_buf' = [send_buf EXCEPT ![e] = Append(@, Packet(e, "FIN", rcv_nxt[e]))]
          /\ net' \in Transmit(net, {Packet(e, "FIN", rcv_nxt[e])})
      BY <2>2 DEF CloseSend, At, SetState, Send
    <3>2. \A p \in net' : p \in net \/ p.to = Peer(e)
      <4>1. net' \in Transmit(net, {Packet(e, "FIN", rcv_nxt[e])})
        BY <3>1
      <4> QED BY <4>1, SentToPeer
    <3>3. \A d \in Ends \ {e} : /\ state'[d] = state[d] /\ hashed'[d] = hashed[d]
                               /\ send_buf'[d] = send_buf[d] /\ pc'[d] = pc[d]
      BY <3>1 DEF IInv, TypeOK
    <3> QED BY <3>1, <3>2, <3>3 DEF OnlyAt
  <2>3. CASE TimewaitExpires(e)
    <3>1. /\ state' = [state EXCEPT ![e] = "CLOSED"] /\ hashed' = [hashed EXCEPT ![e] = FALSE]
          /\ UNCHANGED <<pc, send_buf, net, wait_connect>>
      BY <2>3 DEF TimewaitExpires, SetState, appVars
    <3> QED BY <3>1 DEF OnlyAt, IInv, TypeOK
  <2> QED BY <2>1, <2>2, <2>3 DEF CloseRun
<1>3. UNCHANGED wait_connect
  BY DEF CloseRun, CloseTest, CloseSend, TimewaitExpires
<1>4. (pc[e] \in {"open", "closing"} \/ Closing(e)) /\ (pc'[e] = pc[e] \/ pc'[e] \in {"closing", "done"})
  BY DEF CloseRun, CloseTest, CloseSend, TimewaitExpires, At, appVars, IInv, TypeOK, PeerCloses
<1>5. ~Early(e.of)'
  <2>1. CASE e = ClientEnd(e.of)
    BY <1>4, <2>1 DEF Early, Closing, Waiting
  <2>2. CASE e = ChildEnd(e.of)
    <3>1. state[ChildEnd(e.of)] \notin {"none", "SYN_RECV"}
      <4>1. CASE pc[e] \in {"open", "closing"}
        <5>1. e \in ChildEnds
          BY <1>1, <2>2 DEF ChildEnds
        <5> QED BY <2>2, <4>1, <5>1 DEF IInv, Phases
      <4>2. CASE Closing(e)
        BY <2>2, <4>2 DEF Closing, Finishing
      <4> QED BY <1>4, <4>1, <4>2
    <3>2. ~Early(e.of)
      BY <1>1, <3>1 DEF HandshakeInv, HandshakeOnly
    <3>3. ClientEnd(e.of) \in Ends \ {e}
      BY <1>1, <2>2, ConnectionFacts
    <3> QED BY <1>2, <1>3, <3>2, <3>3 DEF Early, OnlyAt
  <2> QED BY <2>1, <2>2, ConnectionFacts
<1>6. HandshakeInv(e.of)'
  BY <1>5 DEF HandshakeInv
<1> QED BY <1>1, <1>2, <1>6, OtherConnection

\* accept, resending and losing leave the handshake as it is.
LEMMA QuietWake ==
  ASSUME IInv, WakeInv,
         AcceptRun \/ (\E e \in Ends, f \in Flags : Resend(e, f)) \/ Lose \/ UNCHANGED vars
  PROVE  \A b \in Clients : HandshakeInv(b)'
<1> SUFFICES ASSUME NEW b \in Clients PROVE HandshakeInv(b)'
  OBVIOUS
<1>1. HandshakeInv(b) /\ ClientEnd(b) \in Ends /\ ChildEnd(b) \in Ends /\ ClientEnd(b) # ChildEnd(b)
  BY ConnectionFacts DEF WakeInv
<1>2. UNCHANGED <<state, hashed, send_buf, wait_connect>>
  BY DEF AcceptRun, AcceptEmpty, AcceptSleep, AcceptResume, AcceptTake, Resend, Lose, vars, endVars
<1>3. pc'[ClientEnd(b)] = pc[ClientEnd(b)]
  <2>1. CASE AcceptTake
    <3>1. PICK q : q = Head(accept_queue)
      OBVIOUS
    <3>2. q \in Clients
      BY <2>1, <3>1 DEF AcceptTake, IInv, TypeOK
    <3>3. pc' = [pc EXCEPT ![ChildEnd(q)] = "open"] /\ ChildEnd(q) # ClientEnd(b)
      <4>1. ChildEnd(q).side = "child" /\ ClientEnd(b).side = "client"
        BY DEF ChildEnd, ClientEnd
      <4> QED BY <2>1, <3>1, <4>1 DEF AcceptTake
    <3> QED BY <1>1, <3>3 DEF IInv, TypeOK
  <2>2. CASE ~AcceptTake
    BY <2>2 DEF AcceptRun, AcceptEmpty, AcceptSleep, AcceptResume, Resend, Lose, vars, appVars
  <2> QED BY <2>1, <2>2
<1>4. \A p \in net' : p \in net \/ \E e \in Ends : p \in ToSet(send_buf[e])
  <2>1. CASE \E e \in Ends, f \in Flags : Resend(e, f)
    <3>1. PICK e \in Ends : \E i \in 1 .. Len(send_buf[e]) :
            net' \in Transmit(net, {send_buf[e][i]})
      BY <2>1 DEF Resend
    <3>2. PICK i \in 1 .. Len(send_buf[e]) : net' \in Transmit(net, {send_buf[e][i]})
      BY <3>1
    <3>3. send_buf[e][i] \in ToSet(send_buf[e])
      BY DEF IInv, TypeOK, ToSet
    <3> QED BY <3>2, <3>3, TransmitFacts
  <2>2. CASE AcceptRun \/ Lose \/ UNCHANGED vars
    BY <2>2 DEF AcceptRun, AcceptEmpty, AcceptSleep, AcceptResume, AcceptTake, Lose, vars
  <2> QED BY <2>1, <2>2
<1> QED BY <1>1, <1>2, <1>3, <1>4, HandshakeFrame

\* A packet changes the end it goes to, and is answered to the other.
LEMMA RecvOnlyAt ==
  ASSUME IInv, NEW p \in net, Recv(p)
  PROVE  OnlyAt(p.to) /\ pc' = pc /\ p.to \in Ends
<1>1. p \in Packets /\ p.to \in Ends
  BY DEF IInv, TypeOK, Packets
<1>2. pc' = pc
  BY DEF Recv, RecvSyn, RecvSynAgain, RecvSynAck, RecvAckOfHandshake, RecvAckOfFin, RecvAckOnly,
         RecvPsh, RecvAckFin, RecvFinOpen, RecvFin, RecvStray, Rest, appVars
<1>3. /\ \/ state' = state \/ \E w : state' = [state EXCEPT ![p.to] = w]
      /\ \/ hashed' = hashed \/ \E w : hashed' = [hashed EXCEPT ![p.to] = w]
      /\ \/ send_buf' = send_buf \/ \E w : send_buf' = [send_buf EXCEPT ![p.to] = w]
      /\ \/ wait_connect' = wait_connect
         \/ \E w : wait_connect' = [wait_connect EXCEPT ![p.to.of] = w]
  <2>1. CASE RecvSyn(p)
    BY <2>1 DEF RecvSyn, SetState
  <2>2. CASE RecvSynAgain(p) \/ RecvAckOnly(p)
    BY <2>2 DEF RecvSynAgain, RecvAckOnly, Process, Rest
  <2>3. CASE RecvSynAck(p)
    BY <2>3 DEF RecvSynAck, WakeConnect, Process
  <2>4. CASE RecvAckOfHandshake(p)
    BY <2>4 DEF RecvAckOfHandshake, Process, SetState
  <2>5. CASE RecvAckOfFin(p)
    BY <2>5 DEF RecvAckOfFin, Process, SetState
  <2>6. CASE RecvPsh(p)
    BY <2>6 DEF RecvPsh, SetState, Rest
  <2>7. CASE RecvAckFin(p)
    BY <2>7 DEF RecvAckFin, Process, SetState
  <2>8. CASE RecvFinOpen(p)
    BY <2>8 DEF RecvFinOpen, SetState
  <2>9. CASE RecvFin(p)
    BY <2>9 DEF RecvFin, Process, SetState
  <2>10. CASE RecvStray(p)
    BY <2>10 DEF RecvStray, endVars
  <2> QED BY <2>1, <2>2, <2>3, <2>4, <2>5, <2>6, <2>7, <2>8, <2>9, <2>10 DEF Recv
<1>4. \/ net' \in Transmit(net \ {p}, {})
      \/ \E f, a : net' \in Transmit(net \ {p}, {Packet(p.to, f, a)})
      \/ net' = net \ {p}
  <2>1. CASE RecvSyn(p)
    BY <2>1 DEF RecvSyn
  <2>2. CASE RecvPsh(p)
    BY <2>2 DEF RecvPsh
  <2>3. CASE RecvFinOpen(p)
    BY <2>3 DEF RecvFinOpen
  <2>4. CASE RecvAckFin(p) \/ RecvFin(p)
    BY <2>4 DEF RecvAckFin, RecvFin, Process
  <2>5. CASE RecvSynAgain(p) \/ RecvSynAck(p) \/ RecvAckOfHandshake(p) \/ RecvAckOfFin(p)
             \/ RecvAckOnly(p) \/ RecvStray(p)
    BY <2>5 DEF RecvSynAgain, RecvSynAck, RecvAckOfHandshake, RecvAckOfFin, RecvAckOnly,
                RecvStray, Process
  <2> QED BY <2>1, <2>2, <2>3, <2>4, <2>5 DEF Recv
<1>5. \A q \in net' : q \in net \/ q.to = Peer(p.to)
  <2>1. CASE net' \in Transmit(net \ {p}, {}) \/ net' = net \ {p}
    <3>1. net' \subseteq (net \ {p}) \cup {}
      BY <2>1, TransmitFacts
    <3> QED BY <3>1
  <2>2. CASE \E f, a : net' \in Transmit(net \ {p}, {Packet(p.to, f, a)})
    BY <2>2, SentToPeer
  <2> QED BY <1>4, <2>1, <2>2
<1>6. /\ \A d \in Ends \ {p.to} : /\ state'[d] = state[d] /\ hashed'[d] = hashed[d]
                                  /\ send_buf'[d] = send_buf[d]
      /\ \A c \in Clients \ {p.to.of} : wait_connect'[c] = wait_connect[c]
  BY <1>1, <1>3 DEF IInv, TypeOK
<1> QED BY <1>1, <1>2, <1>5, <1>6 DEF OnlyAt

\* A packet is dropped, or processed without an answer, and acknowledges nothing.
LEMMA HandshakeLess ==
  ASSUME NEW c \in Clients, HandshakeInv(c),
         pc'[ClientEnd(c)] = pc[ClientEnd(c)], wait_connect'[c] = wait_connect[c],
         state'[ChildEnd(c)] = state[ChildEnd(c)], hashed'[ClientEnd(c)] = hashed[ClientEnd(c)],
         ToSet(send_buf'[ClientEnd(c)]) \subseteq ToSet(send_buf[ClientEnd(c)]),
         pc[ClientEnd(c)] # "start" => send_buf'[ClientEnd(c)] = send_buf[ClientEnd(c)],
         send_buf'[ChildEnd(c)] = send_buf[ChildEnd(c)],
         net' \subseteq net
  PROVE  HandshakeInv(c)'
<1> SUFFICES ASSUME Early(c) PROVE HandshakeOnly(c)' /\ HandshakeKept(c)'
  BY DEF HandshakeInv, Early
<1>1. HandshakeOnly(c) /\ HandshakeKept(c)
  BY DEF HandshakeInv
<1>2. HandshakeOnly(c)'
  BY <1>1 DEF HandshakeOnly
<1>3. HandshakeKept(c)'
  BY <1>1 DEF HandshakeKept, Keeps
<1> QED BY <1>2, <1>3

\* To the client only SYN|ACKs come, and the first that finds it asleep wakes it
\* (tcp_in.c 189-197); to the child only SYNs, which acknowledge nothing
\* (tcp_in.c 171-188).
LEMMA RecvWake ==
  ASSUME IInv, WakeInv, NEW p \in net, Recv(p)
  PROVE  \A b \in Clients : HandshakeInv(b)'
<1> DEFINE c == p.to.of
           cl == ClientEnd(c)
           ch == ChildEnd(c)
<1>1. /\ OnlyAt(p.to) /\ pc' = pc /\ p.to \in Ends /\ c \in Clients
      /\ HandshakeInv(c) /\ \A b \in Clients : HandshakeInv(b)
  BY RecvOnlyAt, ConnectionFacts DEF WakeInv
<1>2. /\ cl \in Ends /\ ch \in Ends /\ cl # ch /\ (p.to = cl \/ p.to = ch)
      /\ Peer(cl) = ch /\ Peer(ch) = cl /\ cl.of = c /\ ch.of = c
  BY <1>1, ConnectionFacts
<1>3. Early(c)' => Early(c)
  <2>1. wait_connect[c].notified => wait_connect'[c].notified
    <3>1. wait_connect' \in {wait_connect, [wait_connect EXCEPT ![c] = wake_up(@)]}
      BY DEF Recv, RecvSyn, RecvSynAgain, RecvSynAck, RecvAckOfHandshake, RecvAckOfFin, RecvAckOnly,
             RecvPsh, RecvAckFin, RecvFinOpen, RecvFin, RecvStray, Rest, WakeConnect
    <3>2. wake_up(wait_connect[c]).notified
      BY <1>1 DEF wake_up, Wait, IInv, TypeOK
    <3> QED BY <1>1, <3>1, <3>2 DEF IInv, TypeOK
  <2> QED BY <1>1, <2>1 DEF Early
<1> HIDE DEF c, cl, ch
<1>4. ASSUME Early(c), Early(c)' PROVE HandshakeInv(c)'
  <2>1. HandshakeOnly(c) /\ HandshakeKept(c)
    BY <1>1, <1>4 DEF HandshakeInv
  <2>2. CASE p.to = cl
    <3>1. p.flags = "SYN|ACK"
      BY <2>1, <2>2 DEF HandshakeOnly, cl
    <3>2. RecvSynAck(p) \/ RecvStray(p)
      BY <3>1 DEF Recv, RecvSyn, RecvSynAgain, RecvAckOfHandshake, RecvAckOfFin, RecvAckOnly,
                  RecvPsh, RecvAckFin, RecvFinOpen, RecvFin, Found
    <3>3. CASE RecvSynAck(p)
      <4>1. pc[cl] = "start"
        <5>1. CASE state[cl] = "SYN_SENT"
          <6>1. wait_connect' = [wait_connect EXCEPT ![c] = wake_up(@)]
            BY <2>2, <3>3, <5>1 DEF RecvSynAck, WakeConnect, c
          <6>2. wait_connect'[c].notified
            BY <1>1, <6>1 DEF wake_up, Wait, IInv, TypeOK
          <6> QED BY <1>4, <6>2 DEF Early
        <5>2. CASE state[cl] # "SYN_SENT"
          BY <1>2, <1>4, <5>2 DEF Early, IInv, Phases, Waiting, cl
        <5> QED BY <5>1, <5>2
      <4>2. state[cl] # "SYN_SENT"
        BY <1>2, <4>1 DEF IInv, Phases
      <4>3. UNCHANGED <<state, hashed, wait_connect>>
        BY <2>2, <3>3, <4>2 DEF RecvSynAck, WakeConnect
      <4>4. net' \subseteq net /\ \A d \in Ends : ToSet(send_buf'[d]) \subseteq ToSet(send_buf[d])
        <5>1. Process(p, {})
          BY <3>3 DEF RecvSynAck
        <5>2. {} \in SUBSET Packets /\ net \cup {} = net
          OBVIOUS
        <5>3. /\ net' \subseteq net \cup {}
              /\ \A d \in Ends : ToSet(send_buf'[d]) \subseteq ToSet(send_buf[d])
          BY <5>1, <5>2, ProcessFacts
        <5> QED BY <5>2, <5>3
      <4>5. send_buf'[ch] = send_buf[ch]
        BY <1>1, <1>2, <2>2 DEF OnlyAt
      <4> QED BY <1>1, <1>2, <4>1, <4>3, <4>4, <4>5, HandshakeLess DEF cl, ch
    <3>4. CASE RecvStray(p)
      <4>1. UNCHANGED <<state, hashed, send_buf, wait_connect>> /\ net' \subseteq net
        BY <3>4 DEF RecvStray, endVars
      <4> QED BY <1>1, <4>1, HandshakeLess
    <3> QED BY <3>2, <3>3, <3>4
  <2>3. CASE p.to = ch
    <3>1. p.flags = "SYN"
      BY <2>1, <2>3 DEF HandshakeOnly, ch
    <3>2. RecvSyn(p) \/ RecvSynAgain(p) \/ RecvStray(p)
      BY <3>1 DEF Recv, RecvSynAck, RecvAckOfHandshake, RecvAckOfFin, RecvAckOnly,
                  RecvPsh, RecvAckFin, RecvFinOpen, RecvFin, Found
    <3>3. CASE RecvSyn(p)
      <4> DEFINE out == Packet(ch, "SYN|ACK", p.seq_end)
      <4>1. /\ state' = [state EXCEPT ![ch] = "SYN_RECV"]
            /\ hashed' = [hashed EXCEPT ![ch] = TRUE]
            /\ send_buf' = [send_buf EXCEPT ![ch] = <<out>>]
            /\ net' \in Transmit(net \ {p}, {out})
        BY <2>3, <3>3 DEF RecvSyn, SetState
      <4>2. out.flags = "SYN|ACK" /\ ToSet(<<out>>) = {out}
        <5>1. out.flags = "SYN|ACK"
          BY DEF Packet
        <5> HIDE DEF out
        <5> QED BY <5>1 DEF ToSet
      <4>3. \A q \in net' : q \in net \/ (q.to = cl /\ q.flags = "SYN|ACK")
        BY <1>2, <4>1, SentToPeer
      <4> HIDE DEF out
      <4>4. /\ state'[ch] = "SYN_RECV" /\ send_buf'[ch] = <<out>>
            /\ send_buf'[cl] = send_buf[cl] /\ hashed'[cl] = hashed[cl]
        BY <1>2, <4>1 DEF IInv, TypeOK
      <4>5. HandshakeOnly(c)'
        BY <1>2, <2>1, <4>2, <4>3, <4>4 DEF HandshakeOnly, cl, ch
      <4>6. HandshakeKept(c)'
        BY <1>1, <2>1, <4>2, <4>4 DEF HandshakeKept, Keeps, cl, ch
      <4> QED BY <4>5, <4>6 DEF HandshakeInv
    <3>4. CASE RecvSynAgain(p)
      <4>1. UNCHANGED <<state, hashed, wait_connect>> /\ Process(p, {})
        BY <3>4 DEF RecvSynAgain, Rest
      <4>2. net' \subseteq net
        BY <4>1, ProcessFacts
      <4>3. send_buf' = send_buf
        <5>1. Unacked(p) = send_buf[p.to]
          BY <3>1 DEF Unacked, HasAck
        <5> QED BY <1>1, <4>1, <5>1 DEF Process, IInv, TypeOK
      <4> QED BY <1>1, <4>1, <4>2, <4>3, HandshakeLess
    <3>5. CASE RecvStray(p)
      <4>1. UNCHANGED <<state, hashed, send_buf, wait_connect>> /\ net' \subseteq net
        BY <3>5 DEF RecvStray, endVars
      <4> QED BY <1>1, <4>1, HandshakeLess
    <3> QED BY <3>2, <3>3, <3>4, <3>5
  <2> QED BY <1>2, <2>2, <2>3
<1>5. HandshakeInv(c)'
  BY <1>3, <1>4 DEF HandshakeInv
<1> QED BY <1>1, <1>5, OtherConnection DEF c

\* The server goes to sleep only on an empty queue, and who fills it notifies
\* (tcp_sock.c 342-347, tcp_in.c 200-204).
LEMMA AcceptWake == ASSUME IInv, WakeInv, [Next]_vars PROVE AcceptInv'
<1>1. CASE AcceptRun
  <2>1. CASE AcceptEmpty
    BY <2>1 DEF AcceptEmpty, AcceptInv, listenVars
  <2>2. CASE AcceptSleep
    BY <2>2 DEF AcceptSleep, Returns, WakeInv, AcceptInv
  <2>3. CASE AcceptResume \/ AcceptTake
    BY <2>3 DEF AcceptResume, AcceptTake, AcceptInv
  <2> QED BY <1>1, <2>1, <2>2, <2>3 DEF AcceptRun
<1>2. CASE UNCHANGED <<apc, wait_accept, accept_queue>>
  BY <1>2 DEF WakeInv, AcceptInv
<1>3. CASE \E p \in net : RecvAckOfHandshake(p)
  <2>1. wait_accept' = wake_up(wait_accept)
    BY <1>3 DEF RecvAckOfHandshake, WakeAccept
  <2>2. wait_accept'.notified
    BY <2>1 DEF wake_up, Wait, IInv, TypeOK
  <2> QED BY <2>2 DEF AcceptInv
<1>4. CASE \E p \in net : Recv(p) /\ ~RecvAckOfHandshake(p)
  BY <1>2, <1>4 DEF Recv, RecvSyn, RecvSynAgain, RecvSynAck, RecvAckOfFin, RecvAckOnly, RecvPsh,
                    RecvAckFin, RecvFinOpen, RecvFin, RecvStray, Rest, listenVars, appVars
<1>5. CASE \E c \in Clients : ConnectRun(c) \/ Write(c)
  BY <1>2, <1>5 DEF ConnectRun, Connect, ConnectSleep, ConnectResume, ConnectDone, Write, listenVars
<1>6. CASE \E e \in Ends : CloseRun(e) \/ TimewaitExpires(e)
  BY <1>2, <1>6 DEF CloseRun, CloseTest, CloseSend, TimewaitExpires, listenVars, appVars
<1>7. CASE (\E e \in Ends, f \in Flags : Resend(e, f)) \/ Lose \/ UNCHANGED vars
  BY <1>2, <1>7 DEF Resend, Lose, vars, listenVars, appVars
<1> QED BY <1>1, <1>3, <1>4, <1>5, <1>6, <1>7 DEF Next

LEMMA InitWakeInv == ASSUME Init PROVE WakeInv
<1>1. ToSet(<< >>) = {}
  BY DEF ToSet
<1>2. AcceptInv
  BY DEF Init, AcceptInv
<1>3. ASSUME NEW c \in Clients PROVE HandshakeInv(c)
  <2>1. /\ ClientEnd(c) \in ClientEnds /\ ChildEnd(c) \notin ClientEnds
        /\ ClientEnd(c) \in Ends /\ ChildEnd(c) \in Ends
    BY EndFacts
  <2>2. /\ pc[ClientEnd(c)] = "start" /\ state[ChildEnd(c)] = "none" /\ net = {}
        /\ send_buf[ClientEnd(c)] = << >> /\ send_buf[ChildEnd(c)] = << >>
    BY <2>1 DEF Init
  <2> QED BY <1>1, <2>2 DEF HandshakeInv, HandshakeOnly, HandshakeKept
<1> QED BY <1>2, <1>3 DEF WakeInv

\* Every step keeps it.
LEMMA NextWakeInv == ASSUME IInv, WakeInv, [Next]_vars PROVE WakeInv'
<1>1. AcceptInv'
  BY AcceptWake
<1>2. \A c \in Clients : HandshakeInv(c)'
  BY ClientWake, LaterWake, QuietWake, RecvWake DEF Next
<1> QED BY <1>1, <1>2 DEF WakeInv

\* Whoever sleeps without a notification, in connect or in accept, has one to come: the
\* packets of the handshake are kept by both ends until the client is
\* woken, and the accept queue is empty (tcp_sock.c 292, 344, tcp_in.c 171-207).
THEOREM NoWakeupLostCorrect == Spec => []NoWakeupLost
<1>1. IInv /\ WakeInv => NoWakeupLost
  <2> SUFFICES ASSUME IInv, WakeInv PROVE NoWakeupLost
    OBVIOUS
  <2>1. apc \in {"to_sleep", "asleep"} /\ ~wait_accept.notified => accept_queue = << >>
    BY DEF WakeInv, AcceptInv
  <2>2. ASSUME NEW c \in Clients, pc[ClientEnd(c)] \in {"to_sleep", "asleep"},
               ~wait_connect[c].notified
        PROVE  /\ state[ClientEnd(c)] = "SYN_SENT" /\ hashed[ClientEnd(c)]
               /\ Keeps(ClientEnd(c), "SYN")
               /\ \/ state[ChildEnd(c)] = "none"
                  \/ state[ChildEnd(c)] = "SYN_RECV" /\ Keeps(ChildEnd(c), "SYN|ACK")
    <3>1. HandshakeOnly(c) /\ HandshakeKept(c)
      BY <2>2 DEF WakeInv, HandshakeInv, Early
    <3>2. state[ClientEnd(c)] = "SYN_SENT"
      BY <2>2, ConnectionFacts DEF IInv, Phases, Waiting
    <3> QED BY <2>2, <3>1, <3>2 DEF HandshakeOnly, HandshakeKept
  <2> QED BY <2>1, <2>2 DEF NoWakeupLost
<1>2. Init => IInv /\ WakeInv
  BY InitIInv, InitWakeInv
<1>3. IInv /\ WakeInv /\ [Next]_vars => IInv' /\ WakeInv'
  BY NextIInv, NextWakeInv
<1> QED BY <1>1, <1>2, <1>3, PTL DEF Spec
=============================================================================
