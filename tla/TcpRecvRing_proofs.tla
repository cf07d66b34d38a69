------------------------- MODULE TcpRecvRing_proofs -------------------------
(***************************************************************************)
(* Proofs about the receive path, for every stream, segmentation and       *)
(* buffer size: of TcpRecv, where the buffer is a sequence, of the ring    *)
(* buffer, which is a bounded queue, and of TcpRecvRing, which puts one in *)
(* the place of the other.                                                 *)
(***************************************************************************)
EXTENDS TcpRecvRing, SequenceTheorems, TLAPS

-----------------------------------------------------------------------------
(* The receive path on a sequence.                                         *)

Stored == Len(delivered) + Len(rcv_buf)

\* Where the network thread is in the middle of a segment: nothing of it
\* stored yet, or everything up to seq_end stored and the list half drained.
Inserting == npc \in {"insert", "insert_to_sleep", "insert_asleep"}
Draining  == npc \in {"drain", "drain_to_sleep", "drain_asleep"}

\* The types of the variables; the bounds of TypeOK follow from IInv.
BasicTypes ==
  /\ state \in {"ESTABLISHED", "LAST_ACK"}
  /\ rcv_nxt \in Nat /\ acked \in Nat /\ rcv_wnd \in Nat /\ seq_end \in Nat
  /\ rcv_buf \in Seq(Nat) /\ delivered \in Seq(Nat)
  /\ rcv_ofo_buf \in Seq(Segs) /\ ofo_head \in OfoHeads
  /\ wait_read \in Wait /\ wait_recv \in Wait
  /\ npc \in NetPc
  /\ cb \in Segs \cup {NoSegment}
  /\ rpc \in {"check", "to_sleep", "asleep", "spin", "wake"}

\* What StreamPrefix and RcvWndIsRoom say of the states they speak about.
InOrder == /\ \A i \in 1 .. Len(delivered) : delivered[i] = i - 1
           /\ \A i \in 1 .. Len(rcv_buf) : rcv_buf[i] = Len(delivered) + i - 1
WndIsRoom == rcv_wnd = RcvBufSize - Len(rcv_buf) /\ rcv_wnd \in Nat

OfoSorted == \A i, j \in 1 .. Len(rcv_ofo_buf) :
               i < j => rcv_ofo_buf[i].seq < rcv_ofo_buf[j].seq

\* Nothing in the list is stored already: what is stored ends at seq_end while
\* the list is being drained, and at rcv_nxt otherwise; a segment that starts
\* at rcv_nxt itself is not put into the list.
OfoBound == IF Draining THEN seq_end ELSE rcv_nxt + 1
OfoMissing == state = "ESTABLISHED" =>
                \A i \in 1 .. Len(rcv_ofo_buf) : rcv_ofo_buf[i].seq >= OfoBound

\* How far the stream has got, by the point the network thread is at.
Progress ==
  /\ npc = "idle" => cb = NoSegment
  /\ state = "LAST_ACK" => npc = "idle" /\ rcv_nxt = StreamLen + 1 /\ acked = StreamLen + 1
  /\ state = "ESTABLISHED" => rcv_nxt <= StreamLen
  /\ state = "ESTABLISHED" /\ npc # "undefined" => acked <= Stored
  /\ state = "ESTABLISHED" /\ npc \in {"idle", "notify"} => rcv_nxt = Stored
  /\ Inserting => cb \in Segs /\ cb.seq = rcv_nxt /\ seq_end = rcv_nxt /\ rcv_nxt = Stored
  /\ Draining => seq_end = Stored /\ rcv_nxt <= seq_end
  /\ acked <= StreamLen + 1 /\ Stored <= StreamLen /\ seq_end <= StreamLen

IInv == /\ BasicTypes /\ InOrder /\ WndIsRoom
        /\ OfoSorted /\ OfoMissing /\ Progress

\* The socket alloc_tcp_sock and the handshake leave satisfies the invariant.
LEMMA InitIInv == Init => IInv
  BY TcpRecvAssumption DEF Init, IInv, BasicTypes, InOrder, WndIsRoom, OfoSorted,
     OfoMissing, OfoBound, Progress, Inserting, Draining, Stored, Wait, wait_init, NetPc,
     OfoHeads

\* The operations on a notification return notifications.
LEMMA WaitFacts ==
  /\ wait_init \in Wait
  /\ \A w \in Wait : wake_up(w) \in Wait /\ sleep_on(w) \in Wait /\ resume(w) \in Wait
<1>1. wait_init \in Wait
  BY DEF wait_init, Wait
<1>2. ASSUME NEW w \in Wait PROVE wake_up(w) \in Wait
  BY DEF wake_up, Wait
<1>3. ASSUME NEW w \in Wait PROVE resume(w) \in Wait
  BY DEF resume, Wait
<1>4. ASSUME NEW w \in Wait PROVE sleep_on(w) \in Wait
  <2>1. [w EXCEPT !.sleep = TRUE] \in Wait
    BY DEF Wait
  <2> QED BY <2>1, <1>1 DEF sleep_on
<1> QED BY <1>1, <1>2, <1>3, <1>4

\* Every segment is a non-empty part of the stream, given by two naturals.
LEMMA SegFacts ==
  \A s \in Segs : /\ s.seq \in Nat /\ s.seq_end \in Nat
                  /\ s.seq < s.seq_end /\ s.seq_end <= StreamLen
  BY TcpRecvAssumption DEF Segment

\* Two segments are disjoint, or one and the same.
LEMMA SegDisjoint ==
  ASSUME NEW s \in Segs, NEW t \in Segs, t.seq >= s.seq + 1
  PROVE  t.seq >= s.seq_end
  BY SegFacts, TcpRecvAssumption

\* The payload of a segment is the part of the stream the segment names.
LEMMA PayloadFacts ==
  ASSUME NEW s \in Segs
  PROVE  /\ payload(s) \in Seq(Nat)
         /\ PlLen(s) \in Nat
         /\ Len(payload(s)) = PlLen(s)
         /\ \A i \in 1 .. PlLen(s) : payload(s)[i] = s.seq + i - 1
<1>1. PlLen(s) \in Nat
  BY SegFacts DEF PlLen
<1>2. \A i \in 1 .. PlLen(s) : s.seq + i - 1 \in Nat
  BY SegFacts, <1>1
<1> QED BY <1>1, <1>2 DEF payload

\* Where concatenation puts the elements.
LEMMA ConcatFacts ==
  ASSUME NEW S, NEW q \in Seq(S), NEW r \in Seq(S)
  PROVE  /\ q \o r \in Seq(S)
         /\ Len(q \o r) = Len(q) + Len(r)
         /\ \A i \in 1 .. Len(q) : (q \o r)[i] = q[i]
         /\ \A i \in Len(q) + 1 .. Len(q) + Len(r) : (q \o r)[i] = r[i - Len(q)]
  OBVIOUS

\* Where InsertAt puts the elements.
LEMMA InsertAtFacts ==
  ASSUME NEW S, NEW q \in Seq(S), NEW k \in 1 .. Len(q) + 1, NEW e \in S
  PROVE  /\ InsertAt(q, k, e) \in Seq(S)
         /\ Len(InsertAt(q, k, e)) = Len(q) + 1
         /\ \A i \in 1 .. k - 1 : InsertAt(q, k, e)[i] = q[i]
         /\ InsertAt(q, k, e)[k] = e
         /\ \A i \in k + 1 .. Len(q) + 1 : InsertAt(q, k, e)[i] = q[i - 1]
<1> DEFINE a == SubSeq(q, 1, k - 1)
           b == SubSeq(q, k, Len(q))
<1>1. a \in Seq(S) /\ Len(a) = k - 1 /\ \A i \in 1 .. k - 1 : a[i] = q[i]
  OBVIOUS
<1>2. b \in Seq(S) /\ Len(b) = Len(q) - k + 1
      /\ \A i \in 1 .. Len(q) - k + 1 : b[i] = q[i + k - 1]
  OBVIOUS
<1>3. <<e>> \in Seq(S) /\ Len(<<e>>) = 1 /\ <<e>>[1] = e
  OBVIOUS
<1> HIDE DEF a, b
<1>4. a \o <<e>> \in Seq(S) /\ Len(a \o <<e>>) = k
      /\ (\A i \in 1 .. k - 1 : (a \o <<e>>)[i] = q[i]) /\ (a \o <<e>>)[k] = e
  BY <1>1, <1>3
<1> DEFINE c == a \o <<e>>
<1>5. InsertAt(q, k, e) = c \o b
  BY DEF InsertAt, a, b
<1> HIDE DEF c
<1>6. c \in Seq(S) /\ Len(c) = k /\ c[k] = e /\ \A i \in 1 .. k - 1 : c[i] = q[i]
  BY <1>4 DEF c
<1>7. /\ c \o b \in Seq(S) /\ Len(c \o b) = Len(q) + 1
      /\ \A i \in 1 .. k : (c \o b)[i] = c[i]
      /\ \A i \in k + 1 .. Len(q) + 1 : (c \o b)[i] = b[i - k]
  BY <1>6, <1>2
<1>8. \A i \in k + 1 .. Len(q) + 1 : b[i - k] = q[i - 1]
  <2> SUFFICES ASSUME NEW i \in k + 1 .. Len(q) + 1 PROVE b[i - k] = q[i - 1]
    OBVIOUS
  <2>1. i - k \in 1 .. Len(q) - k + 1 /\ (i - k) + k - 1 = i - 1
    OBVIOUS
  <2> QED BY <2>1, <1>2
<1> DEFINE r == InsertAt(q, k, e)
<1> HIDE DEF r
<1>9. r = c \o b
  BY <1>5 DEF r
<1>10. r \in Seq(S) /\ Len(r) = Len(q) + 1
  BY <1>7, <1>9
<1>11. \A i \in 1 .. k - 1 : r[i] = q[i]
  BY <1>6, <1>7, <1>9
<1>12. r[k] = e
  BY <1>6, <1>7, <1>9
<1>13. \A i \in k + 1 .. Len(q) + 1 : r[i] = q[i - 1]
  BY <1>7, <1>8, <1>9
<1> QED BY <1>10, <1>11, <1>12, <1>13 DEF r

-----------------------------------------------------------------------------
(* The network thread preserves the invariant, action by action.           *)

USE DEF PlLen

\* Taking up the segment that starts at rcv_nxt (tcp_in.c 222) preserves it.
LEMMA NetInOrderInv ==
  ASSUME IInv, NEW s \in Segs, NetInOrder(s)
  PROVE  IInv'
<1>1. /\ UNCHANGED <<rcv_buf, rcv_ofo_buf, ofo_head, rcv_wnd, delivered, state, rcv_nxt, acked>>
      /\ npc = "idle" /\ npc' = "insert" /\ cb' = s /\ seq_end' = rcv_nxt
      /\ s.seq = rcv_nxt
  BY DEF NetInOrder, sockVars, appVars
<1>2. s.seq \in Nat /\ s.seq < StreamLen
  BY SegFacts, TcpRecvAssumption
<1>3. BasicTypes'
  BY <1>1 DEF IInv, BasicTypes, NetInOrder, NetPc, appVars
<1>4. state = "ESTABLISHED"
  BY <1>1, <1>2, TcpRecvAssumption DEF IInv, BasicTypes, Progress
<1>5. Progress'
  BY <1>1, <1>2, <1>4 DEF IInv, BasicTypes, Progress, Inserting, Draining, Stored
<1>6. OfoMissing'
  BY <1>1 DEF IInv, OfoMissing, OfoBound, Draining
<1>7. InOrder' /\ WndIsRoom' /\ OfoSorted'
  BY <1>1 DEF IInv, InOrder, WndIsRoom, OfoSorted
<1> QED BY <1>3, <1>5, <1>6, <1>7 DEF IInv

\* write_ofo_buffer keeps the list sorted and free of stored data, also when it
\* links the segment where nobody will meet it (tcp_in.c 69-91).
LEMMA WriteOfoInv ==
  ASSUME IInv, NEW s \in Segs, NetEarly(s), ofo_head # "freed"
  PROVE  IInv'
<1>1. PICK k \in 1 .. Len(rcv_ofo_buf) + 1 :
        /\ \A i \in 1 .. k - 1 : rcv_ofo_buf[i].seq < s.seq
        /\ k <= Len(rcv_ofo_buf) => rcv_ofo_buf[k].seq >= s.seq
        /\ \/ rcv_ofo_buf' = rcv_ofo_buf
           \/ /\ rcv_ofo_buf' = InsertAt(rcv_ofo_buf, k, s)
              /\ k <= Len(rcv_ofo_buf) => rcv_ofo_buf[k].seq > s.seq
        /\ ofo_head' \in {ofo_head, "bypassed"}
  BY DEF NetEarly, write_ofo_buffer
<1>10. ofo_head' \in OfoHeads
  BY <1>1 DEF OfoHeads, IInv, BasicTypes
<1>2. /\ UNCHANGED <<rcv_buf, rcv_wnd, delivered, state, rcv_nxt, acked, cb, seq_end>>
      /\ npc = "idle" /\ npc' = "notify" /\ s.seq > rcv_nxt
  BY DEF NetEarly, appVars
<1>3. s.seq \in Nat /\ s.seq < StreamLen
  BY SegFacts, TcpRecvAssumption
<1>4. state = "ESTABLISHED" /\ s.seq >= rcv_nxt + 1
  BY <1>2, <1>3, TcpRecvAssumption DEF IInv, BasicTypes, Progress
<1>5. Progress'
  BY <1>2, <1>4 DEF IInv, BasicTypes, Progress, Inserting, Draining, Stored
<1>6. InOrder' /\ WndIsRoom'
  BY <1>2 DEF IInv, InOrder, WndIsRoom
<1>7. \A i \in 1 .. Len(rcv_ofo_buf) :
        /\ rcv_ofo_buf[i] \in Segs /\ rcv_ofo_buf[i].seq \in Nat
        /\ rcv_ofo_buf[i].seq >= rcv_nxt + 1
  BY <1>2, <1>4, SegFacts DEF IInv, BasicTypes, OfoMissing, OfoBound, Draining
<1>8. CASE rcv_ofo_buf' = rcv_ofo_buf
  <2>1. BasicTypes'
    BY <1>2, <1>8, <1>10 DEF IInv, BasicTypes, NetEarly, NetPc, appVars
  <2>2. OfoSorted' /\ OfoMissing'
    BY <1>2, <1>8, <1>7 DEF IInv, OfoSorted, OfoMissing, OfoBound, Draining
  <2> QED BY <1>5, <1>6, <2>1, <2>2 DEF IInv
<1>9. CASE /\ rcv_ofo_buf' = InsertAt(rcv_ofo_buf, k, s)
           /\ k <= Len(rcv_ofo_buf) => rcv_ofo_buf[k].seq > s.seq
  <2> DEFINE q == rcv_ofo_buf'
             n == Len(rcv_ofo_buf)
  <2>0. n \in Nat
    BY DEF IInv, BasicTypes
  <2>1. /\ q \in Seq(Segs)
        /\ Len(q) = n + 1
        /\ \A i \in 1 .. k - 1 : q[i] = rcv_ofo_buf[i]
        /\ q[k] = s
        /\ \A i \in k + 1 .. n + 1 : q[i] = rcv_ofo_buf[i - 1]
    <3>1. rcv_ofo_buf \in Seq(Segs) /\ s \in Segs /\ k \in 1 .. Len(rcv_ofo_buf) + 1
      BY DEF IInv, BasicTypes
    <3>2. q = InsertAt(rcv_ofo_buf, k, s)
      BY <1>9
    <3> DEFINE a == InsertAt(rcv_ofo_buf, k, s)
    <3>3. /\ a \in Seq(Segs) /\ Len(a) = n + 1 /\ a[k] = s
          /\ \A i \in 1 .. k - 1 : a[i] = rcv_ofo_buf[i]
          /\ \A i \in k + 1 .. n + 1 : a[i] = rcv_ofo_buf[i - 1]
      <4>1. /\ a \in Seq(Segs) /\ Len(a) = Len(rcv_ofo_buf) + 1 /\ a[k] = s
            /\ \A i \in 1 .. k - 1 : a[i] = rcv_ofo_buf[i]
            /\ \A i \in k + 1 .. Len(rcv_ofo_buf) + 1 : a[i] = rcv_ofo_buf[i - 1]
        BY <3>1, InsertAtFacts
      <4> QED BY <4>1
    <3>4. q = a
      BY <3>2
    <3> HIDE DEF q, a, n
    <3> QED BY <3>3, <3>4, Zenon
  <2>2. BasicTypes'
    BY <1>2, <1>10, <2>1 DEF IInv, BasicTypes, NetEarly, NetPc, appVars
  <2>3. \A i \in k .. n : rcv_ofo_buf[i].seq > s.seq
    <3> SUFFICES ASSUME NEW i \in k .. n PROVE rcv_ofo_buf[i].seq > s.seq
      OBVIOUS
    <3>1. CASE i = k
      BY <3>1, <1>9
    <3>2. CASE i > k
      <4>1. rcv_ofo_buf[k].seq < rcv_ofo_buf[i].seq
        BY <3>2, <2>0 DEF IInv, OfoSorted
      <4>2. k \in 1 .. n /\ i \in 1 .. n
        BY <3>2, <2>0
      <4> QED BY <4>1, <4>2, <1>3, <1>7, <1>9
    <3> QED BY <3>1, <3>2
  <2> HIDE DEF q, n
  <2>4. \A i \in 1 .. n + 1 :
          \/ i \in 1 .. k - 1 /\ q[i] = rcv_ofo_buf[i]
          \/ i = k /\ q[i] = s
          \/ i \in k + 1 .. n + 1 /\ i - 1 \in k .. n /\ q[i] = rcv_ofo_buf[i - 1]
    BY <2>0, <2>1
  <2>5. \A i \in 1 .. n : rcv_ofo_buf[i].seq \in Nat /\ rcv_ofo_buf[i].seq >= rcv_nxt + 1
    BY <1>7 DEF n
  <2>6. \A i \in 1 .. k - 1 : rcv_ofo_buf[i].seq < s.seq
    BY <1>1
  <2>7. \A i, j \in 1 .. n : i < j => rcv_ofo_buf[i].seq < rcv_ofo_buf[j].seq
    BY DEF IInv, OfoSorted, n
  <2>8. k \in 1 .. n + 1
    BY DEF n
  <2>9. \A i \in 1 .. n + 1 : q[i].seq >= rcv_nxt + 1
    <3> SUFFICES ASSUME NEW i \in 1 .. n + 1 PROVE q[i].seq >= rcv_nxt + 1
      OBVIOUS
    <3>1. CASE i \in 1 .. k - 1 /\ q[i] = rcv_ofo_buf[i]
      BY <3>1, <2>0, <2>5, <2>8
    <3>2. CASE i = k /\ q[i] = s
      BY <3>2, <1>4
    <3>3. CASE i - 1 \in k .. n /\ q[i] = rcv_ofo_buf[i - 1]
      BY <3>3, <2>0, <2>5, <2>8
    <3> QED BY <3>1, <3>2, <3>3, <2>4
  <2>10. \A i, j \in 1 .. n + 1 : i < j => q[i].seq < q[j].seq
    <3> SUFFICES ASSUME NEW i \in 1 .. n + 1, NEW j \in 1 .. n + 1, i < j
                 PROVE  q[i].seq < q[j].seq
      OBVIOUS
    <3>1. CASE i \in 1 .. k - 1 /\ j \in 1 .. k - 1
      <4>1. q[i] = rcv_ofo_buf[i] /\ q[j] = rcv_ofo_buf[j]
        BY <3>1, <2>1
      <4>2. i \in 1 .. n /\ j \in 1 .. n
        BY <3>1, <2>0, <2>8
      <4>3. rcv_ofo_buf[i].seq < rcv_ofo_buf[j].seq
        BY <4>2, <2>7
      <4> QED BY <4>1, <4>3
    <3>2. CASE i \in 1 .. k - 1 /\ j = k
      BY <3>2, <2>1, <2>6
    <3>3. CASE i \in 1 .. k - 1 /\ j \in k + 1 .. n + 1
      <4>1. q[j] = rcv_ofo_buf[j - 1] /\ j - 1 \in 1 .. n /\ i \in 1 .. n /\ i < j - 1
        BY <3>3, <2>0, <2>1, <2>8
      <4> QED BY <4>1, <3>3, <2>1, <2>7
    <3>4. CASE i = k /\ j \in k + 1 .. n + 1
      <4>1. q[j] = rcv_ofo_buf[j - 1] /\ j - 1 \in k .. n
        BY <3>4, <2>0, <2>1, <2>8
      <4>2. rcv_ofo_buf[j - 1].seq \in Nat
        BY <4>1, <2>0, <2>5, <2>8
      <4> QED BY <4>1, <4>2, <3>4, <2>1, <2>3, <1>3 DEF n
    <3>5. CASE i \in k + 1 .. n + 1 /\ j \in k + 1 .. n + 1
      <4>1. /\ q[i] = rcv_ofo_buf[i - 1] /\ q[j] = rcv_ofo_buf[j - 1]
            /\ i - 1 \in 1 .. n /\ j - 1 \in 1 .. n /\ i - 1 < j - 1
        BY <3>5, <2>0, <2>1, <2>8
      <4> QED BY <4>1, <2>7
    <3> QED BY <3>1, <3>2, <3>3, <3>4, <3>5, <2>0, <2>8
  <2>11. OfoSorted' /\ OfoMissing'
    BY <2>1, <2>9, <2>10, <1>2 DEF OfoSorted, OfoMissing, OfoBound, Draining, q
  <2> QED BY <1>5, <1>6, <2>2, <2>11 DEF IInv
<1> QED BY <1>1, <1>8, <1>9

\* Where the list begins with freed memory the thread becomes undefined.
LEMMA NetEarlyInv ==
  ASSUME IInv, NEW s \in Segs, NetEarly(s)
  PROVE  IInv'
<1>1. CASE ofo_head # "freed"
  BY <1>1, WriteOfoInv
<1>2. CASE ofo_head = "freed"
  <2>1. /\ UNCHANGED <<rcv_buf, rcv_ofo_buf, ofo_head, rcv_wnd, delivered, state, rcv_nxt,
                       acked, cb, seq_end, wait_read, wait_recv, rpc>>
        /\ npc = "idle" /\ npc' = "undefined" /\ s.seq > rcv_nxt
    BY <1>2 DEF NetEarly, appVars
  <2>2. s.seq \in Nat /\ s.seq < StreamLen
    BY SegFacts, TcpRecvAssumption
  <2>3. state = "ESTABLISHED"
    BY <2>1, <2>2, TcpRecvAssumption DEF IInv, BasicTypes, Progress
  <2>4. BasicTypes'
    BY <2>1 DEF IInv, BasicTypes, NetPc
  <2>5. Progress'
    BY <2>1, <2>3 DEF IInv, BasicTypes, Progress, Inserting, Draining, Stored
  <2>6. InOrder' /\ WndIsRoom' /\ OfoSorted' /\ OfoMissing'
    BY <2>1 DEF IInv, InOrder, WndIsRoom, OfoSorted, OfoMissing, OfoBound, Draining
  <2> QED BY <2>4, <2>5, <2>6 DEF IInv
<1> QED BY <1>1, <1>2

\* A segment below rcv_nxt is only acknowledged (tcp_in.c 258-262).
LEMMA NetOldInv ==
  ASSUME IInv, NEW s \in Segs, NetOld(s)
  PROVE  IInv'
<1>1. /\ UNCHANGED <<rcv_buf, rcv_ofo_buf, ofo_head, rcv_wnd, delivered, state, rcv_nxt, npc, cb, seq_end>>
      /\ npc = "idle" /\ acked' = Ack(rcv_nxt)
  BY DEF NetOld, netVars, appVars
<1>2. BasicTypes'
  BY <1>1 DEF IInv, BasicTypes, NetOld, netVars, appVars, Ack
<1>3. Progress'
  BY <1>1, TcpRecvAssumption
     DEF IInv, BasicTypes, Progress, Inserting, Draining, Stored, Ack
<1>4. InOrder' /\ WndIsRoom' /\ OfoSorted' /\ OfoMissing'
  BY <1>1 DEF IInv, InOrder, WndIsRoom, OfoSorted, OfoMissing, OfoBound, Draining
<1> QED BY <1>2, <1>3, <1>4 DEF IInv

\* A step that moves the threads about and touches nothing of the socket but
\* the notifications.
LEMMA WaitingInv ==
  ASSUME IInv, BasicTypes', UNCHANGED <<sockVars, cb, seq_end, delivered>>,
         \/ npc' = npc
         \/ Inserting /\ Inserting'
         \/ Draining /\ Draining'
  PROVE  IInv'
<1>1. UNCHANGED <<rcv_buf, rcv_ofo_buf, ofo_head, rcv_wnd, delivered, state, rcv_nxt, acked, cb, seq_end>>
  BY DEF sockVars
<1>2. Progress'
  BY <1>1 DEF IInv, Progress, Inserting, Draining, Stored
<1>3. (Draining <=> Draining')
  BY DEF Inserting, Draining
<1>4. InOrder' /\ WndIsRoom' /\ OfoSorted' /\ OfoMissing'
  BY <1>1, <1>3 DEF IInv, InOrder, WndIsRoom, OfoSorted, OfoMissing, OfoBound
<1> QED BY <1>2, <1>4 DEF IInv

\* Appending the payload of a segment that starts where the stream ends so
\* far lengthens the stream by that segment.
LEMMA StoreFacts ==
  ASSUME IInv, NEW s \in Segs, Store(s), HasRoom(s), s.seq = Stored,
         UNCHANGED delivered
  PROVE  /\ InOrder' /\ WndIsRoom'
         /\ rcv_buf' \in Seq(Nat) /\ rcv_wnd' \in Nat
         /\ Stored' = s.seq_end /\ seq_end' = s.seq_end
<1> DEFINE p == payload(s)
<1>1. /\ p \in Seq(Nat) /\ Len(p) = s.seq_end - s.seq /\ s.seq_end - s.seq \in Nat
      /\ \A i \in 1 .. s.seq_end - s.seq : p[i] = s.seq + i - 1
  BY PayloadFacts DEF PlLen
<1> HIDE DEF p
<1>2. rcv_buf \in Seq(Nat) /\ delivered \in Seq(Nat) /\ rcv_wnd \in Nat
      /\ s.seq \in Nat /\ s.seq_end \in Nat
  BY SegFacts DEF IInv, BasicTypes
<1>3. rcv_buf' = rcv_buf \o p /\ rcv_wnd' = rcv_wnd - (s.seq_end - s.seq) /\ seq_end' = s.seq_end
  BY DEF Store, PlLen, p
<1>4. /\ rcv_buf' \in Seq(Nat) /\ Len(rcv_buf') = Len(rcv_buf) + (s.seq_end - s.seq)
      /\ \A i \in 1 .. Len(rcv_buf) : rcv_buf'[i] = rcv_buf[i]
      /\ \A i \in Len(rcv_buf) + 1 .. Len(rcv_buf) + (s.seq_end - s.seq) :
           rcv_buf'[i] = p[i - Len(rcv_buf)]
  <2>1. rcv_buf' = rcv_buf \o p /\ Len(p) = s.seq_end - s.seq
    BY <1>1, <1>3
  <2>2. p \in Seq(Nat) /\ rcv_buf \in Seq(Nat)
    BY <1>1, <1>2
  <2>3. /\ rcv_buf \o p \in Seq(Nat)
        /\ Len(rcv_buf \o p) = Len(rcv_buf) + Len(p)
        /\ \A i \in 1 .. Len(rcv_buf) : (rcv_buf \o p)[i] = rcv_buf[i]
        /\ \A i \in Len(rcv_buf) + 1 .. Len(rcv_buf) + Len(p) :
             (rcv_buf \o p)[i] = p[i - Len(rcv_buf)]
    BY <2>2, ConcatFacts
  <2> QED BY <2>1, <2>3
<1>5. \A i \in Len(rcv_buf) + 1 .. Len(rcv_buf) + (s.seq_end - s.seq) :
        rcv_buf'[i] = Len(delivered) + i - 1
  <2> SUFFICES ASSUME NEW i \in Len(rcv_buf) + 1 .. Len(rcv_buf) + (s.seq_end - s.seq)
               PROVE  rcv_buf'[i] = Len(delivered) + i - 1
    OBVIOUS
  <2>1. i - Len(rcv_buf) \in 1 .. s.seq_end - s.seq
    BY <1>1, <1>2
  <2>2. p[i - Len(rcv_buf)] = s.seq + (i - Len(rcv_buf)) - 1
    BY <2>1, <1>1
  <2>3. rcv_buf'[i] = s.seq + (i - Len(rcv_buf)) - 1
    BY <2>2, <1>4
  <2>4. /\ s.seq = Len(delivered) + Len(rcv_buf) /\ i \in Nat
        /\ Len(delivered) \in Nat /\ Len(rcv_buf) \in Nat
    BY <1>2 DEF Stored
  <2> QED BY <2>3, <2>4
<1>6. InOrder'
  <2>1. \A i \in 1 .. Len(rcv_buf') : rcv_buf'[i] = Len(delivered) + i - 1
    <3> SUFFICES ASSUME NEW i \in 1 .. Len(rcv_buf')
                 PROVE  rcv_buf'[i] = Len(delivered) + i - 1
      OBVIOUS
    <3>1. CASE i <= Len(rcv_buf)
      <4>1. i \in 1 .. Len(rcv_buf)
        BY <3>1, <1>1, <1>2, <1>4
      <4> QED BY <4>1, <1>4 DEF IInv, InOrder
    <3>2. CASE i > Len(rcv_buf)
      <4>1. i \in Len(rcv_buf) + 1 .. Len(rcv_buf) + (s.seq_end - s.seq)
        BY <3>2, <1>1, <1>2, <1>4
      <4> QED BY <4>1, <1>5
    <3> QED BY <3>1, <3>2, <1>2
  <2> QED BY <2>1 DEF IInv, InOrder
<1>7. rcv_wnd' \in Nat /\ WndIsRoom'
  <2>1. rcv_wnd = RcvBufSize - Len(rcv_buf)
    BY DEF IInv, WndIsRoom
  <2>2. RcvBufSize - Len(rcv_buf) >= s.seq_end - s.seq
    BY DEF HasRoom, ring_buffer_free, ring_buffer_used, PlLen
  <2>3. Len(rcv_buf) \in Nat /\ RcvBufSize \in Nat
    BY <1>2, TcpRecvAssumption
  <2>4. Len(rcv_buf') = Len(rcv_buf) + (s.seq_end - s.seq) /\ s.seq_end - s.seq \in Nat
    BY <1>1, <1>4
  <2>5. rcv_wnd' = rcv_wnd - (s.seq_end - s.seq)
    BY <1>3
  <2> DEFINE n == s.seq_end - s.seq  held == Len(rcv_buf)  after == Len(rcv_buf')
  <2> HIDE DEF n, held, after
  <2>6. /\ rcv_wnd = RcvBufSize - held /\ RcvBufSize - held >= n /\ after = held + n
        /\ rcv_wnd' = rcv_wnd - n /\ n \in Nat /\ held \in Nat /\ RcvBufSize \in Nat
    BY <2>1, <2>2, <2>3, <2>4, <2>5 DEF n, held, after
  <2>7. rcv_wnd' \in Nat /\ rcv_wnd' = RcvBufSize - after
    BY <2>6
  <2> QED BY <2>7 DEF WndIsRoom, after
<1>8. Stored' = s.seq_end
  BY <1>1, <1>2, <1>4 DEF Stored
<1> QED BY <1>3, <1>4, <1>6, <1>7, <1>8

\* Storing the segment, or giving up for lack of room (tcp_in.c 226-235).
LEMMA NetInsertInv ==
  ASSUME IInv, NetInsert
  PROVE  IInv'
<1>1. CASE NetFull /\ npc' = "insert_to_sleep"
  <2>1. BasicTypes'
    BY <1>1 DEF IInv, BasicTypes, NetFull, NetPc, Wait, wake_up, sockVars, appVars
  <2>2. Inserting /\ Inserting' /\ UNCHANGED <<sockVars, cb, seq_end, delivered>>
    BY <1>1 DEF NetInsert, NetFull, Inserting, appVars
  <2> QED BY <2>1, <2>2, WaitingInv
<1>2. CASE HasRoom(cb) /\ Store(cb) /\ npc' \in {"drain", "undefined"}
           /\ UNCHANGED <<state, rcv_nxt, rcv_ofo_buf, ofo_head, acked, wait_read, wait_recv, cb, appVars>>
  <2>1. npc = "insert" /\ cb \in Segs /\ cb.seq = rcv_nxt /\ rcv_nxt = Stored
        /\ state = "ESTABLISHED"
    BY DEF NetInsert, IInv, Progress, Inserting, BasicTypes
  <2>2. UNCHANGED <<delivered, rpc>>
    BY <1>2 DEF appVars
  <2>3. /\ InOrder' /\ WndIsRoom'
        /\ rcv_buf' \in Seq(Nat) /\ rcv_wnd' \in Nat
        /\ Stored' = cb.seq_end /\ seq_end' = cb.seq_end
    BY <1>2, <2>1, <2>2, StoreFacts
  <2>4. cb.seq \in Nat /\ cb.seq_end \in Nat /\ cb.seq < cb.seq_end /\ cb.seq_end <= StreamLen
    BY <2>1, SegFacts
  <2>5. BasicTypes'
    BY <1>2, <2>2, <2>3, <2>4 DEF IInv, BasicTypes, NetPc
  <2>6. Progress'
    BY <1>2, <2>1, <2>3, <2>4 DEF IInv, BasicTypes, Progress, Inserting, Draining
  <2>7. OfoSorted'
    BY <1>2 DEF IInv, OfoSorted
  <2>8. OfoMissing'
    <3> SUFFICES ASSUME NEW i \in 1 .. Len(rcv_ofo_buf)
                 PROVE  rcv_ofo_buf[i].seq >= cb.seq_end
      <4> SUFFICES ASSUME NEW i \in 1 .. Len(rcv_ofo_buf)
                   PROVE  rcv_ofo_buf[i].seq >= OfoBound'
        BY <1>2 DEF OfoMissing
      <4>1. rcv_ofo_buf[i].seq \in Nat /\ rcv_ofo_buf[i].seq >= cb.seq_end
        BY SegFacts DEF IInv, BasicTypes
      <4>2. OfoBound' = cb.seq_end \/ OfoBound' = cb.seq + 1
        BY <1>2, <2>1, <2>3 DEF OfoBound
      <4> QED BY <4>1, <4>2, <2>4
    <3>1. rcv_ofo_buf[i] \in Segs /\ rcv_ofo_buf[i].seq >= cb.seq + 1
      BY <2>1 DEF IInv, BasicTypes, OfoMissing, OfoBound, Draining
    <3> QED BY <2>1, <3>1, SegDisjoint
  <2> QED BY <2>3, <2>5, <2>6, <2>7, <2>8 DEF IInv
<1> QED BY <1>1, <1>2 DEF NetInsert

\* Storing the head of the out-of-order list, or giving up (tcp_in.c 236-254).
LEMMA NetDrainInv ==
  ASSUME IInv, NetDrain
  PROVE  IInv'
<1> DEFINE h == Head(rcv_ofo_buf)
<1>0. rcv_ofo_buf # << >> /\ rcv_ofo_buf \in Seq(Segs) /\ Len(rcv_ofo_buf) \in Nat
  BY DEF NetDrain, OfoReady, IInv, BasicTypes
<1>1. CASE NetFull /\ npc' = "drain_to_sleep"
  <2>1. BasicTypes'
    BY <1>1 DEF IInv, BasicTypes, NetFull, NetPc, Wait, wake_up, sockVars, appVars
  <2>2. Draining /\ Draining' /\ UNCHANGED <<sockVars, cb, seq_end, delivered>>
    BY <1>1 DEF NetDrain, NetFull, Draining, appVars
  <2> QED BY <2>1, <2>2, WaitingInv
<1>2. CASE HasRoom(h) /\ Store(h) /\ rcv_ofo_buf' = Tail(rcv_ofo_buf)
           /\ ofo_head' = HeadAfterDelete
           /\ UNCHANGED <<state, rcv_nxt, acked, wait_read, wait_recv, npc, cb, appVars>>
  <2>1. npc = "drain" /\ seq_end = Stored /\ rcv_nxt <= seq_end /\ state = "ESTABLISHED"
    BY DEF NetDrain, IInv, Progress, Draining, BasicTypes
  <2>2. UNCHANGED <<delivered, rpc>>
    BY <1>2 DEF appVars
  <2>3. h \in Segs /\ h = rcv_ofo_buf[1] /\ Len(rcv_ofo_buf) >= 1
    BY <1>0
  <2>4. h.seq \in Nat /\ h.seq_end \in Nat /\ h.seq < h.seq_end /\ h.seq_end <= StreamLen
    BY <2>3, SegFacts
  <2>5. h.seq = seq_end
    <3>1. h.seq >= seq_end
      BY <1>0, <2>1, <2>3 DEF IInv, OfoMissing, OfoBound, Draining
    <3>2. seq_end >= h.seq /\ seq_end \in Nat
      BY DEF NetDrain, OfoReady, IInv, BasicTypes
    <3> QED BY <3>1, <3>2, <2>4
  <2>6. /\ InOrder' /\ WndIsRoom'
        /\ rcv_buf' \in Seq(Nat) /\ rcv_wnd' \in Nat
        /\ Stored' = h.seq_end /\ seq_end' = h.seq_end
    BY <1>2, <2>1, <2>2, <2>3, <2>5, StoreFacts
  <2>7. /\ rcv_ofo_buf' \in Seq(Segs) /\ Len(rcv_ofo_buf') = Len(rcv_ofo_buf) - 1
        /\ \A i \in 1 .. Len(rcv_ofo_buf) - 1 : rcv_ofo_buf'[i] = rcv_ofo_buf[i + 1]
    BY <1>0, <1>2
  <2>8. BasicTypes'
    <3>1. ofo_head' \in OfoHeads
      BY <1>2 DEF HeadAfterDelete, OfoHeads
    <3> QED BY <1>2, <2>2, <2>4, <2>6, <2>7, <3>1 DEF IInv, BasicTypes
  <2>9. Progress'
    BY <1>2, <2>1, <2>4, <2>5, <2>6 DEF IInv, BasicTypes, Progress, Inserting, Draining
  <2>10. OfoSorted'
    <3> SUFFICES ASSUME NEW i \in 1 .. Len(rcv_ofo_buf'), NEW j \in 1 .. Len(rcv_ofo_buf'), i < j
                 PROVE  rcv_ofo_buf'[i].seq < rcv_ofo_buf'[j].seq
      BY DEF OfoSorted
    <3>1. /\ i + 1 \in 1 .. Len(rcv_ofo_buf) /\ j + 1 \in 1 .. Len(rcv_ofo_buf) /\ i + 1 < j + 1
          /\ rcv_ofo_buf'[i] = rcv_ofo_buf[i + 1] /\ rcv_ofo_buf'[j] = rcv_ofo_buf[j + 1]
      BY <1>0, <2>7
    <3> QED BY <3>1 DEF IInv, OfoSorted
  <2>11. OfoMissing'
    <3> SUFFICES ASSUME NEW i \in 1 .. Len(rcv_ofo_buf')
                 PROVE  rcv_ofo_buf'[i].seq >= h.seq_end
      BY <1>2, <2>1, <2>6 DEF OfoMissing, OfoBound, Draining
    <3>1. /\ i + 1 \in 1 .. Len(rcv_ofo_buf) /\ 1 \in 1 .. Len(rcv_ofo_buf) /\ 1 < i + 1
          /\ rcv_ofo_buf'[i] = rcv_ofo_buf[i + 1]
      BY <1>0, <2>3, <2>7
    <3>2. rcv_ofo_buf[i + 1] \in Segs /\ rcv_ofo_buf[i + 1].seq > h.seq
      BY <1>0, <2>3, <3>1 DEF IInv, OfoSorted
    <3>3. rcv_ofo_buf[i + 1].seq >= h.seq + 1
      BY <2>4, <3>2, SegFacts
    <3> QED BY <2>3, <3>1, <3>2, <3>3, SegDisjoint
  <2> QED BY <2>6, <2>8, <2>9, <2>10, <2>11 DEF IInv
<1> QED BY <1>1, <1>2 DEF NetDrain

\* The end of the drain loop moves rcv_nxt (tcp_in.c 254-255).
LEMMA NetDrainedInv ==
  ASSUME IInv, NetDrained
  PROVE  IInv'
<1>1. /\ UNCHANGED <<rcv_buf, rcv_ofo_buf, ofo_head, rcv_wnd, delivered, state, acked, cb, seq_end>>
      /\ npc = "drain" /\ npc' = "notify" /\ rcv_nxt' = seq_end
  BY DEF NetDrained, appVars
<1>2. state = "ESTABLISHED" /\ seq_end = Stored /\ seq_end \in Nat /\ seq_end <= StreamLen
  BY <1>1 DEF IInv, Progress, Draining, BasicTypes
<1>3. BasicTypes'
  BY <1>1, <1>2 DEF IInv, BasicTypes, NetDrained, NetPc, appVars
<1>4. Progress'
  BY <1>1, <1>2 DEF IInv, Progress, Inserting, Draining, Stored
<1>5. InOrder' /\ WndIsRoom' /\ OfoSorted'
  BY <1>1 DEF IInv, InOrder, WndIsRoom, OfoSorted
<1>6. OfoMissing'
  <2> SUFFICES ASSUME NEW i \in 1 .. Len(rcv_ofo_buf)
               PROVE  rcv_ofo_buf[i].seq >= seq_end + 1
    BY <1>1 DEF OfoMissing, OfoBound, Draining
  <2>1. /\ rcv_ofo_buf \in Seq(Segs) /\ rcv_ofo_buf # << >>
        /\ rcv_ofo_buf[i] \in Segs /\ Head(rcv_ofo_buf) = rcv_ofo_buf[1]
        /\ 1 \in 1 .. Len(rcv_ofo_buf) /\ rcv_ofo_buf[1] \in Segs
    BY DEF IInv, BasicTypes
  <2>2. rcv_ofo_buf[1].seq >= seq_end + 1
    BY <1>2, <2>1, SegFacts DEF NetDrained, OfoReady
  <2>3. i = 1 \/ rcv_ofo_buf[1].seq < rcv_ofo_buf[i].seq
    BY <2>1 DEF IInv, OfoSorted
  <2> QED BY <1>2, <2>1, <2>2, <2>3, SegFacts
<1> QED BY <1>3, <1>4, <1>5, <1>6 DEF IInv

\* Waking the reader and acknowledging rcv_nxt (tcp_in.c 263-271).
LEMMA NetNotifyInv ==
  ASSUME IInv, NetNotify
  PROVE  IInv'
<1>1. /\ UNCHANGED <<rcv_buf, rcv_ofo_buf, ofo_head, rcv_wnd, delivered, state, rcv_nxt>>
      /\ npc = "notify" /\ npc' = "idle" /\ acked' = Ack(rcv_nxt)
      /\ cb' = NoSegment /\ seq_end' = 0
  BY DEF NetNotify, appVars
<1>2. BasicTypes'
  <2>1. wait_read' \in Wait
    BY WaitFacts DEF NetNotify, NotifyReader, IInv, BasicTypes
  <2>2. acked' \in Nat
    BY <1>1 DEF IInv, BasicTypes, Ack
  <2> QED BY <1>1, <2>1, <2>2 DEF IInv, BasicTypes, NetNotify, NetPc, appVars
<1>3. Progress'
  BY <1>1, TcpRecvAssumption
     DEF IInv, BasicTypes, Progress, Inserting, Draining, Stored, Ack
<1>4. InOrder' /\ WndIsRoom' /\ OfoSorted' /\ OfoMissing'
  BY <1>1 DEF IInv, InOrder, WndIsRoom, OfoSorted, OfoMissing, OfoBound, Draining
<1> QED BY <1>2, <1>3, <1>4 DEF IInv

\* Sleeping and waking on wait_recv (tcp_in.c 229, 244).
LEMMA NetSleepInv ==
  ASSUME IInv,
         \/ NetSleep("insert_to_sleep", "insert_asleep", "insert")
         \/ NetSleep("drain_to_sleep", "drain_asleep", "drain")
         \/ NetResume("insert_asleep", "insert")
         \/ NetResume("drain_asleep", "drain")
  PROVE  IInv'
<1>1. UNCHANGED <<sockVars, wait_read, cb, seq_end, appVars>>
  BY DEF NetSleep, NetResume
<1>2. wait_recv' \in Wait
  BY WaitFacts DEF NetSleep, NetResume, IInv, BasicTypes
<1>3. \/ /\ npc \in {"insert_to_sleep", "insert_asleep"}
         /\ npc' \in {"insert_asleep", "insert"}
      \/ /\ npc \in {"drain_to_sleep", "drain_asleep"}
         /\ npc' \in {"drain_asleep", "drain"}
  <2>1. CASE NetSleep("insert_to_sleep", "insert_asleep", "insert")
    BY <2>1, Zenon DEF NetSleep
  <2>2. CASE NetSleep("drain_to_sleep", "drain_asleep", "drain")
    BY <2>2, Zenon DEF NetSleep
  <2>3. CASE NetResume("insert_asleep", "insert") \/ NetResume("drain_asleep", "drain")
    BY <2>3 DEF NetResume
  <2> QED BY <2>1, <2>2, <2>3
<1>5. npc' \in NetPc /\ ((Inserting /\ Inserting') \/ (Draining /\ Draining'))
  <2>1. CASE /\ npc \in {"insert_to_sleep", "insert_asleep"}
             /\ npc' \in {"insert_asleep", "insert"}
    <3>1. Inserting
      BY <2>1 DEF Inserting
    <3>2. Inserting' /\ npc' \in NetPc
      BY <2>1 DEF Inserting, NetPc
    <3> QED BY <3>1, <3>2
  <2>2. CASE /\ npc \in {"drain_to_sleep", "drain_asleep"}
             /\ npc' \in {"drain_asleep", "drain"}
    <3>1. Draining
      BY <2>2 DEF Draining
    <3>2. Draining' /\ npc' \in NetPc
      BY <2>2 DEF Draining, NetPc
    <3> QED BY <3>1, <3>2
  <2> QED BY <1>3, <2>1, <2>2
<1>4. BasicTypes'
  BY <1>1, <1>2, <1>5 DEF IInv, BasicTypes, sockVars, appVars
<1> QED BY <1>1, <1>5, <1>4, WaitingInv DEF appVars

\* The FIN of the peer (tcp_in.c 101, 279-289).
LEMMA NetFinInv ==
  ASSUME IInv, NetFin
  PROVE  IInv'
<1>1. /\ UNCHANGED <<rcv_buf, rcv_ofo_buf, ofo_head, rcv_wnd, delivered, npc, cb, seq_end,
                     wait_read, wait_recv, rpc>>
      /\ npc = "idle" /\ rcv_nxt' = StreamLen + 1 /\ state' = "LAST_ACK"
      /\ acked' = Ack(StreamLen + 1) \/ acked' = acked
  BY DEF NetFin, netVars, appVars
<1>2. BasicTypes'
  BY <1>1, TcpRecvAssumption DEF IInv, BasicTypes, Ack
<1>5. acked' = StreamLen + 1
  <2>1. CASE state = "ESTABLISHED"
    <3>1. acked \in Nat /\ acked <= Stored /\ Stored <= StreamLen /\ Stored \in Nat
      BY <1>1, <2>1 DEF IInv, BasicTypes, Progress, Stored
    <3>2. acked' = Ack(StreamLen + 1)
      BY <2>1 DEF NetFin
    <3> QED BY <3>1, <3>2, TcpRecvAssumption DEF Ack
  <2>2. CASE state = "LAST_ACK"
    BY <2>2 DEF NetFin, IInv, Progress
  <2> QED BY <2>1, <2>2 DEF NetFin
<1>6. Stored' = Stored /\ StreamLen \in Nat
  BY <1>1, TcpRecvAssumption DEF Stored
<1>3. Progress'
  BY <1>1, <1>5, <1>6 DEF IInv, Progress, Inserting, Draining
<1>4. InOrder' /\ WndIsRoom' /\ OfoSorted' /\ OfoMissing'
  BY <1>1 DEF IInv, InOrder, WndIsRoom, OfoSorted, OfoMissing
<1> QED BY <1>2, <1>3, <1>4 DEF IInv

-----------------------------------------------------------------------------
(* The application thread.                                                 *)

\* One tcp_sock_read that finds data (tcp_sock.c 372-376).
LEMMA ReadDataInv ==
  ASSUME IInv, ReadData
  PROVE  IInv'
<1> DEFINE n == IF ring_buffer_used < ReadLen THEN ring_buffer_used ELSE ReadLen
           b == Len(rcv_buf)
           d == Len(delivered)
           r == SubSeq(rcv_buf, 1, n)
<1>1. /\ UNCHANGED <<state, rcv_nxt, rcv_ofo_buf, ofo_head, acked, wait_read, wait_recv, npc, cb, seq_end>>
      /\ delivered' = delivered \o r
      /\ rcv_buf' = SubSeq(rcv_buf, n + 1, b)
      /\ rcv_wnd' = rcv_wnd + n
      /\ rpc' = "spin"
  BY DEF ReadData, netVars, Unread, WndAfterRead
<1>2. n \in 1 .. b /\ b \in Nat /\ d \in Nat
  BY TcpRecvAssumption DEF ReadData, ring_buffer_used, IInv, BasicTypes
<1> HIDE DEF n
<1>3. rcv_buf \in Seq(Nat) /\ delivered \in Seq(Nat)
  BY DEF IInv, BasicTypes
<1>4. r \in Seq(Nat) /\ Len(r) = n /\ \A i \in 1 .. n : r[i] = rcv_buf[i]
  BY <1>2, <1>3
<1> HIDE DEF r
<1>5. /\ delivered' \in Seq(Nat) /\ Len(delivered') = d + n
      /\ \A i \in 1 .. d : delivered'[i] = delivered[i]
      /\ \A i \in d + 1 .. d + n : delivered'[i] = r[i - d]
  <2>1. /\ delivered \o r \in Seq(Nat)
        /\ Len(delivered \o r) = Len(delivered) + Len(r)
        /\ \A i \in 1 .. Len(delivered) : (delivered \o r)[i] = delivered[i]
        /\ \A i \in Len(delivered) + 1 .. Len(delivered) + Len(r) :
             (delivered \o r)[i] = r[i - Len(delivered)]
    <3>1. delivered \in Seq(Nat) /\ r \in Seq(Nat)
      BY <1>3, <1>4
    <3> QED BY <3>1, ConcatFacts
  <2> QED BY <2>1, <1>1, <1>4
<1>6. /\ rcv_buf' \in Seq(Nat) /\ Len(rcv_buf') = b - n
      /\ \A i \in 1 .. b - n : rcv_buf'[i] = rcv_buf[i + n]
  <2>1. /\ n + 1 \in 1 .. b + 1 /\ b - (n + 1) + 1 = b - n
        /\ \A i \in 1 .. b - n : i + n \in 1 .. b /\ n + 1 + i - 1 = i + n
    BY <1>2
  <2>2. rcv_buf' = SubSeq(rcv_buf, n + 1, b)
    BY <1>1
  <2>3. /\ rcv_buf' \in Seq(Nat) /\ Len(rcv_buf') = b - n
        /\ \A i \in 1 .. b - n : rcv_buf'[i] = rcv_buf[n + 1 + i - 1]
    <3>1. n + 1 \in Int /\ b \in Int /\ n + 1 <= b + 1 /\ \A i \in n + 1 .. b : i \in 1 .. b
      BY <1>2
    <3>2. \A i \in n + 1 .. b : rcv_buf[i] \in Nat
      BY <1>3, <3>1
    <3> HIDE DEF b
    <3>3. /\ rcv_buf' \in Seq(Nat)
          /\ Len(rcv_buf') = IF n + 1 <= b THEN b - (n + 1) + 1 ELSE 0
          /\ \A i \in 1 .. b - (n + 1) + 1 : rcv_buf'[i] = rcv_buf[n + 1 + i - 1]
      BY <2>2, <3>1, <3>2, SubSeqProperties
    <3> QED BY <1>2, <2>1, <3>1, <3>3
  <2> HIDE DEF b
  <2> QED BY <2>1, <2>3
<1>7. \A i \in 1 .. d : delivered[i] = i - 1
  BY DEF IInv, InOrder
<1>8. \A i \in 1 .. b : rcv_buf[i] = d + i - 1
  BY DEF IInv, InOrder
<1> HIDE DEF b, d
<1>9. InOrder'
  <2>1. \A i \in 1 .. d + n : delivered'[i] = i - 1
    <3> SUFFICES ASSUME NEW i \in 1 .. d + n PROVE delivered'[i] = i - 1
      OBVIOUS
    <3>1. CASE i \in 1 .. d
      BY <3>1, <1>5, <1>7
    <3>2. CASE i \in d + 1 .. d + n
      <4>1. i - d \in 1 .. n /\ i - d \in 1 .. b
        BY <3>2, <1>2
      <4>2. delivered'[i] = rcv_buf[i - d] /\ rcv_buf[i - d] = d + (i - d) - 1
        BY <3>2, <4>1, <1>4, <1>5, <1>8
      <4> QED BY <4>2, <1>2
    <3> QED BY <3>1, <3>2, <1>2
  <2>2. \A i \in 1 .. b - n : rcv_buf'[i] = d + n + i - 1
    <3> SUFFICES ASSUME NEW i \in 1 .. b - n PROVE rcv_buf'[i] = d + n + i - 1
      OBVIOUS
    <3>1. i + n \in 1 .. b
      BY <1>2
    <3>2. rcv_buf'[i] = rcv_buf[i + n] /\ rcv_buf[i + n] = d + (i + n) - 1
      BY <3>1, <1>6, <1>8
    <3> QED BY <3>2, <1>2
  <2> QED BY <2>1, <2>2, <1>5, <1>6 DEF InOrder
<1>10. Stored' = Stored /\ Stored \in Nat
  BY <1>2, <1>5, <1>6 DEF Stored, b, d
<1>11. WndIsRoom' /\ rcv_wnd' \in Nat
  <2>1. rcv_wnd \in Nat /\ rcv_wnd = RcvBufSize - b /\ RcvBufSize \in Nat
    BY TcpRecvAssumption DEF IInv, BasicTypes, WndIsRoom, b
  <2> QED BY <2>1, <1>1, <1>2, <1>6 DEF WndIsRoom
<1>12. BasicTypes'
  BY <1>1, <1>5, <1>6, <1>11 DEF IInv, BasicTypes
<1>13. Progress'
  BY <1>1, <1>10 DEF IInv, Progress, Inserting, Draining
<1>14. OfoSorted' /\ OfoMissing'
  BY <1>1 DEF IInv, OfoSorted, OfoMissing, OfoBound, Draining
<1> QED BY <1>9, <1>11, <1>12, <1>13, <1>14 DEF IInv

\* The waiting steps of tcp_sock_read (tcp_sock.c 367-371, 377-379).
LEMMA ReadWaitInv ==
  ASSUME IInv, ReadEmpty \/ ReadSleep \/ ReadResume \/ ReadSpin \/ ReadWake
  PROVE  IInv'
<1>1. UNCHANGED <<sockVars, netVars, delivered>>
  BY DEF ReadEmpty, ReadSleep, ReadResume, ReadSpin, ReadWake
<1>2. wait_recv' \in Wait /\ wait_read' \in Wait
  <2>1. wait_recv \in Wait /\ wait_read \in Wait
    BY DEF IInv, BasicTypes
  <2>2. /\ wait_read' \in {wait_read, sleep_on(wait_read), resume(wait_read)}
        /\ wait_recv' \in {wait_recv, wake_up(wait_recv)}
    BY DEF ReadEmpty, ReadSleep, ReadResume, ReadSpin, ReadWake
  <2> QED BY <2>1, <2>2, WaitFacts
<1>3. rpc' \in {"check", "to_sleep", "asleep", "spin", "wake"}
  BY DEF ReadEmpty, ReadSleep, ReadResume, ReadSpin, ReadWake
<1>4. BasicTypes'
  BY <1>1, <1>2, <1>3 DEF IInv, BasicTypes, sockVars, netVars
<1> QED BY <1>1, <1>4, WaitingInv DEF netVars

-----------------------------------------------------------------------------
(* The theorems.                                                           *)

\* A stuttering step preserves the invariant.
LEMMA StutterInv ==
  ASSUME IInv, UNCHANGED vars
  PROVE  IInv'
<1>1. UNCHANGED <<sockVars, cb, seq_end, delivered>> /\ npc' = npc
  BY DEF vars, netVars, appVars
<1>2. BasicTypes'
  BY DEF IInv, BasicTypes, vars, sockVars, netVars, appVars
<1> QED BY <1>1, <1>2, WaitingInv

\* Once a freed entry has been read, any acknowledgement may go out.
LEMMA NetUndefinedInv ==
  ASSUME IInv, NetUndefined
  PROVE  IInv'
<1>1. /\ UNCHANGED <<rcv_buf, rcv_ofo_buf, ofo_head, rcv_wnd, delivered, state, rcv_nxt,
                     npc, cb, seq_end, wait_read, wait_recv, rpc>>
      /\ npc = "undefined" /\ acked' \in 0 .. StreamLen + 1
  BY DEF NetUndefined, netVars, appVars
<1>2. acked' \in Nat /\ acked' <= StreamLen + 1
  BY <1>1, TcpRecvAssumption
<1>3. BasicTypes'
  BY <1>1, <1>2 DEF IInv, BasicTypes
<1>4. Progress'
  BY <1>1, <1>2 DEF IInv, Progress, Inserting, Draining, Stored
<1>5. InOrder' /\ WndIsRoom' /\ OfoSorted' /\ OfoMissing'
  BY <1>1 DEF IInv, InOrder, WndIsRoom, OfoSorted, OfoMissing, OfoBound, Draining
<1> QED BY <1>3, <1>4, <1>5 DEF IInv

\* Every step of either thread preserves the inductive invariant.
LEMMA NextInv ==
  ASSUME IInv, [Next]_vars
  PROVE  IInv'
<1>1. CASE NetData
  <2>1. PICK s \in Segs : NetArrive(s)
    BY <1>1 DEF NetData
  <2> QED BY <2>1, NetInOrderInv, NetEarlyInv, NetOldInv DEF NetArrive
<1>2. CASE NetFin
  BY <1>2, NetFinInv
<1>3. CASE NetRun
  BY <1>3, NetInsertInv, NetDrainInv, NetDrainedInv, NetNotifyInv, NetSleepInv DEF NetRun
<1>4. CASE NetWoken
  BY <1>4, NetSleepInv DEF NetWoken
<1>5. CASE AppRun
  BY <1>5, ReadDataInv, ReadWaitInv DEF AppRun
<1>6. CASE AppWoken
  BY <1>6, ReadWaitInv DEF AppWoken
<1>7. CASE Spurious
  BY <1>7, ReadWaitInv, NetSleepInv DEF Spurious
<1>8. CASE NetUndefined
  BY <1>8, NetUndefinedInv
<1>9. CASE UNCHANGED vars
  BY <1>9, StutterInv
<1> QED BY <1>1, <1>2, <1>3, <1>4, <1>5, <1>6, <1>7, <1>8, <1>9 DEF Next

\* The inductive invariant holds in every reachable state.
LEMMA Invariant == Spec => []IInv
  BY InitIInv, NextInv, PTL DEF Spec

\* A sequence is a sequence over any set that holds its elements.
LEMMA SeqOver ==
  ASSUME NEW S, NEW T, NEW q \in Seq(S), \A i \in 1 .. Len(q) : q[i] \in T
  PROVE  q \in Seq(T)
<1>1. Len(q) \in Nat /\ q = [i \in 1 .. Len(q) |-> q[i]]
  OBVIOUS
<1>2. [i \in 1 .. Len(q) |-> q[i]] \in Seq(T)
  BY <1>1
<1> QED BY <1>1, <1>2

\* The bounds of the type invariant follow: what is in rcv_buf or delivered is
\* an initial part of the stream, and the window is the room in rcv_buf.
LEMMA IInvTypeOK == IInv => TypeOK
<1> SUFFICES ASSUME IInv PROVE TypeOK
  OBVIOUS
<1> DEFINE d == Len(delivered)
           b == Len(rcv_buf)
<1>1. /\ d \in Nat /\ b \in Nat /\ StreamLen \in Nat /\ RcvBufSize \in Nat
      /\ delivered \in Seq(Nat) /\ rcv_buf \in Seq(Nat)
  BY TcpRecvAssumption DEF IInv, BasicTypes
<1>2. /\ d + b <= StreamLen
      /\ \A i \in 1 .. d : delivered[i] = i - 1
      /\ \A i \in 1 .. b : rcv_buf[i] = d + i - 1
  BY DEF IInv, InOrder, Progress, Stored
<1> HIDE DEF d, b
<1>3. \A i \in 1 .. d : delivered[i] \in 0 .. StreamLen - 1
  BY <1>1, <1>2
<1>4. \A i \in 1 .. b : rcv_buf[i] \in 0 .. StreamLen - 1
  BY <1>1, <1>2
<1>5. delivered \in Seq(0 .. StreamLen - 1) /\ rcv_buf \in Seq(0 .. StreamLen - 1)
  <2>1. \A i \in 1 .. Len(delivered) : delivered[i] \in 0 .. StreamLen - 1
    BY <1>3 DEF d
  <2>2. \A i \in 1 .. Len(rcv_buf) : rcv_buf[i] \in 0 .. StreamLen - 1
    BY <1>4 DEF b
  <2>3. delivered \in Seq(0 .. StreamLen - 1)
    BY <1>1, <2>1, SeqOver
  <2>4. rcv_buf \in Seq(0 .. StreamLen - 1)
    BY <1>1, <2>2, SeqOver
  <2> QED BY <2>3, <2>4
<1>6. rcv_wnd \in 0 .. RcvBufSize
  BY <1>1 DEF IInv, BasicTypes, WndIsRoom, b
<1>7. rcv_nxt \in 0 .. StreamLen + 1 /\ acked \in 0 .. StreamLen + 1
      /\ seq_end \in 0 .. StreamLen
  <2>1. state = "ESTABLISHED" \/ state = "LAST_ACK"
    BY DEF IInv, BasicTypes
  <2> QED BY <2>1, <1>1 DEF IInv, BasicTypes, Progress
<1> QED BY <1>5, <1>6, <1>7 DEF TypeOK, IInv, BasicTypes

\* Every variable keeps its type; rcv_wnd, a u16 that the network thread
\* lowers and the reader raises (tcp_in.c 233, 249; tcp_sock.c 374), never
\* wraps, whatever the size of the buffer.
THEOREM TypeCorrect == Spec => []TypeOK
  BY Invariant, IInvTypeOK, PTL

\* The application reads the peer's stream, in order and without a gap, for
\* every segmentation, buffer size and arrival order, with the segments that
\* write_ofo_buffer loses, until a freed entry of the list is read (tcp_process, case
\* TCP_PSH, with write_ofo_buffer and tcp_sock_read).
THEOREM StreamCorrect == Spec => []StreamPrefix
<1>1. IInv => StreamPrefix
  BY DEF IInv, InOrder, StreamPrefix
<1> QED BY <1>1, Invariant, PTL

\* The window advertised is the room in the ring buffer (rcv_wnd against
\* ring_buffer_free, tcp_in.c 226-249 and tcp_sock.c 374).
THEOREM WindowCorrect == Spec => []RcvWndIsRoom
<1>1. IInv => RcvWndIsRoom
  BY DEF IInv, WndIsRoom, RcvWndIsRoom
<1> QED BY <1>1, Invariant, PTL

\* What is met from the head of the out-of-order list on is sorted, without
\* repetition, and nothing of it is stored already once a segment has been processed, also
\* after a segment that belonged before the first entry was lost (write_ofo_buffer).
THEOREM OfoCorrect == Spec => []OfoSortedAndMissing
<1>1. IInv => OfoSortedAndMissing
  <2> SUFFICES ASSUME IInv PROVE OfoSortedAndMissing
    OBVIOUS
  <2>1. ASSUME npc = "idle", state = "ESTABLISHED", NEW i \in 1 .. Len(rcv_ofo_buf)
        PROVE  rcv_ofo_buf[i].seq > rcv_nxt
    <3>1. rcv_ofo_buf[i].seq >= rcv_nxt + 1
      BY <2>1 DEF IInv, OfoMissing, OfoBound, Draining
    <3>2. rcv_ofo_buf[i] \in Segs /\ rcv_nxt \in Nat
      BY DEF IInv, BasicTypes
    <3> QED BY <3>1, <3>2, SegFacts
  <2> QED BY <2>1 DEF IInv, OfoSorted, OfoSortedAndMissing
<1> QED BY <1>1, Invariant, PTL

\* Until the FIN, or a freed entry is read, what has been acknowledged is in
\* rcv_buf or read: the peer can forget it (the TCP_ACK of tcp_in.c 267).
THEOREM AckCorrect == Spec => []AckedIsStored
<1>1. IInv => AckedIsStored
  BY DEF IInv, Progress, AckedIsStored, Defined, Stored
<1> QED BY <1>1, Invariant, PTL

\* One tcp_sock_read hands over the next part of the stream.
LEMMA ReadDelivers ==
  ASSUME IInv, ReadData
  PROVE  ByteStreamSpec!Deliver
<1> DEFINE n == IF ring_buffer_used < ReadLen THEN ring_buffer_used ELSE ReadLen
           d == Len(delivered)
           r == SubSeq(rcv_buf, 1, n)
           t == [i \in 1 .. n |-> d + i - 1]
<1>1. /\ n \in Nat /\ n >= 1 /\ n <= Len(rcv_buf) /\ d \in Nat
      /\ rcv_buf \in Seq(Nat) /\ Len(rcv_buf) \in Nat
  BY TcpRecvAssumption DEF ReadData, ring_buffer_used, IInv, BasicTypes
<1>2. delivered' = delivered \o r
  BY DEF ReadData
<1>3. UNCHANGED <<state, acked, npc>> /\ npc # "undefined"
  BY DEF ReadData, netVars, RcvBufLocked
<1>4. \A i \in 1 .. Len(rcv_buf) : rcv_buf[i] = d + i - 1
  BY DEF IInv, InOrder
<1>5. Stored' = Stored /\ Stored = d + Len(rcv_buf)
  <2>1. delivered \in Seq(Nat) /\ Len(delivered') = d + n
    <3>1. delivered \in Seq(Nat)
      BY DEF IInv, BasicTypes
    <3>2. r \in Seq(Nat) /\ Len(r) = n
      BY <1>1
    <3>3. Len(delivered \o r) = Len(delivered) + Len(r)
      <4> HIDE DEF r
      <4> QED BY <3>1, <3>2, ConcatFacts
    <3> HIDE DEF r, n
    <3> QED BY <1>2, <3>1, <3>2, <3>3
  <2>2. Len(rcv_buf') = Len(rcv_buf) - n
    <3>1. rcv_buf' = SubSeq(rcv_buf, n + 1, Len(rcv_buf))
      BY DEF ReadData, Unread
    <3> HIDE DEF n
    <3> QED BY <1>1, <3>1
  <2> HIDE DEF n
  <2> QED BY <1>1, <2>1, <2>2 DEF Stored
<1> HIDE DEF n, d
<1>6. r = t
  <2>1. r = [i \in 1 .. n |-> rcv_buf[i]]
    BY <1>1
  <2>2. \A i \in 1 .. n : rcv_buf[i] = d + i - 1
    BY <1>1, <1>4
  <2> QED BY <2>1, <2>2
<1>7. n \in 1 .. (d + Len(rcv_buf)) - d
  BY <1>1
<1> HIDE DEF r
<1>8. \E m \in 1 .. Stored - d : delivered' = delivered \o [i \in 1 .. m |-> d + i - 1]
  BY <1>2, <1>5, <1>6, <1>7
<1> QED BY <1>3, <1>5, <1>8 DEF ByteStreamSpec!Deliver, Stored, Defined, d

\* A step that leaves what is stored, acknowledged and read alone, and the mode,
\* is none of the abstract stream.
LEMMA SameStream ==
  ASSUME UNCHANGED <<rcv_buf, delivered, acked, state>>, npc # "undefined", npc' # "undefined"
  PROVE  UNCHANGED ByteStreamSpec!vars
  BY DEF ByteStreamSpec!vars, Defined

\* An arriving segment is acknowledged, or taken up, or makes the socket fail.
LEMMA DataRefines ==
  ASSUME IInv, NEW s \in Segs, NetArrive(s)
  PROVE  [ByteStreamSpec!Next]_ByteStreamSpec!vars
<1>1. npc = "idle" /\ UNCHANGED <<rcv_buf, delivered, state>>
  BY DEF NetArrive, NetInOrder, NetEarly, NetOld, sockVars, appVars
<1>2. CASE NetInOrder(s)
  BY <1>1, <1>2, SameStream DEF NetInOrder, sockVars
<1>3. CASE NetEarly(s) /\ npc' = "notify"
  BY <1>1, <1>3, SameStream DEF NetEarly
<1>4. CASE NetEarly(s) /\ npc' = "undefined"
  <2>1. s.seq \in Nat /\ s.seq < StreamLen /\ s.seq > rcv_nxt
    BY <1>4, SegFacts, TcpRecvAssumption DEF NetEarly
  <2>2. state = "ESTABLISHED"
    BY <2>1, TcpRecvAssumption DEF IInv, BasicTypes, Progress
  <2>3. Stored \in Nat /\ Stored <= StreamLen /\ StreamLen \in Nat /\ Stored' = Stored
    BY <1>1, TcpRecvAssumption DEF IInv, BasicTypes, Progress, Stored
  <2>4. Stored' \in Stored .. StreamLen
    BY <2>3
  <2>5. acked' = acked
    BY <1>4 DEF NetEarly
  <2>6. ByteStreamSpec!Fail
    BY <1>1, <1>4, <2>2, <2>4, <2>5 DEF ByteStreamSpec!Fail, Defined, Stored
  <2> QED BY <2>6 DEF ByteStreamSpec!Next
<1>5. CASE NetOld(s)
  <2>1. acked' = Ack(rcv_nxt) /\ npc' = npc
    BY <1>5 DEF NetOld, netVars
  <2>2. CASE acked' = acked
    BY <1>1, <2>1, <2>2, SameStream
  <2>3. CASE acked' # acked
    <3>1. acked' = rcv_nxt /\ rcv_nxt > acked
      BY <2>1, <2>3 DEF Ack
    <3>2. state = "ESTABLISHED" /\ rcv_nxt = Stored
      BY <1>1, <3>1 DEF IInv, BasicTypes, Progress
    <3>3. acked' \in acked + 1 .. Stored
      BY <3>1, <3>2 DEF IInv, BasicTypes
    <3>4. ByteStreamSpec!Acknowledge
      BY <1>1, <2>1, <3>2, <3>3 DEF ByteStreamSpec!Acknowledge, Defined, Stored
    <3> QED BY <3>4 DEF ByteStreamSpec!Next
  <2> QED BY <2>2, <2>3
<1> QED BY <1>2, <1>3, <1>4, <1>5 DEF NetArrive, NetEarly

\* Storing a segment lengthens what is stored, and fails if the list then read
\* begins with freed memory.
LEMMA StoreRefines ==
  ASSUME IInv, NEW s \in Segs, Store(s), HasRoom(s), s.seq = Stored,
         UNCHANGED <<delivered, acked, state>>, state = "ESTABLISHED", npc # "undefined",
         IInv'
  PROVE  ByteStreamSpec!Next
<1>1. Stored' = s.seq_end /\ s.seq_end \in Nat /\ s.seq \in Nat /\ s.seq < s.seq_end
      /\ s.seq_end <= StreamLen
  BY StoreFacts, SegFacts
<1>2. StreamLen \in Nat
  BY TcpRecvAssumption
<1>3. Stored' \in Stored + 1 .. StreamLen /\ Stored' \in Stored .. StreamLen
  BY <1>1, <1>2
<1>4. CASE npc' = "undefined"
  <2>1. ByteStreamSpec!Fail
    BY <1>3, <1>4 DEF ByteStreamSpec!Fail, Defined, Stored
  <2> QED BY <2>1 DEF ByteStreamSpec!Next
<1>5. CASE npc' # "undefined"
  <2>1. ByteStreamSpec!Store
    BY <1>3, <1>5 DEF ByteStreamSpec!Store, Defined, Stored
  <2> QED BY <2>1 DEF ByteStreamSpec!Next
<1> QED BY <1>4, <1>5

\* The network thread in the middle of a segment.
LEMMA NetRunRefines ==
  ASSUME IInv, NetRun, IInv'
  PROVE  [ByteStreamSpec!Next]_ByteStreamSpec!vars
<1>1. CASE NetInsert /\ HasRoom(cb) /\ Store(cb)
  <2>1. /\ npc = "insert" /\ cb \in Segs /\ cb.seq = rcv_nxt /\ rcv_nxt = Stored
        /\ state = "ESTABLISHED"
    BY <1>1 DEF NetInsert, IInv, Progress, Inserting, BasicTypes
  <2>2. UNCHANGED <<delivered, acked, state>>
    BY <1>1 DEF NetInsert, NetFull, sockVars, appVars
  <2> QED BY <1>1, <2>1, <2>2, StoreRefines
<1>2. CASE NetDrain /\ HasRoom(Head(rcv_ofo_buf)) /\ Store(Head(rcv_ofo_buf))
  <2> DEFINE h == Head(rcv_ofo_buf)
  <2>1. npc = "drain" /\ seq_end = Stored /\ state = "ESTABLISHED" /\ seq_end \in Nat
    BY <1>2 DEF NetDrain, IInv, Progress, Draining, BasicTypes
  <2>2. h \in Segs /\ h = rcv_ofo_buf[1] /\ 1 \in 1 .. Len(rcv_ofo_buf)
    BY <1>2 DEF NetDrain, OfoReady, IInv, BasicTypes
  <2>3. h.seq >= seq_end
    BY <2>1, <2>2 DEF IInv, OfoMissing, OfoBound, Draining
  <2>4. h.seq = Stored
    <3>1. seq_end >= h.seq /\ h.seq \in Nat
      BY <1>2, <2>2, SegFacts DEF NetDrain, OfoReady
    <3> QED BY <2>1, <2>3, <3>1
  <2>5. UNCHANGED <<delivered, acked, state>>
    BY <1>2 DEF NetDrain, NetFull, sockVars, appVars
  <2> QED BY <1>2, <2>1, <2>2, <2>4, <2>5, StoreRefines
<1>3. CASE NetNotify
  <2>1. /\ UNCHANGED <<rcv_buf, delivered, state>> /\ acked' = Ack(rcv_nxt)
        /\ npc = "notify" /\ npc' = "idle"
    BY <1>3 DEF NetNotify, appVars
  <2>2. CASE acked' = acked
    BY <2>1, <2>2, SameStream
  <2>3. CASE acked' # acked
    <3>1. acked' = rcv_nxt /\ rcv_nxt > acked
      BY <2>1, <2>3 DEF Ack
    <3>2. state = "ESTABLISHED" /\ rcv_nxt = Stored
      BY <2>1 DEF IInv, BasicTypes, Progress
    <3>3. acked' \in acked + 1 .. Stored
      BY <3>1, <3>2 DEF IInv, BasicTypes
    <3>4. ByteStreamSpec!Acknowledge
      BY <2>1, <3>2, <3>3 DEF ByteStreamSpec!Acknowledge, Defined, Stored
    <3> QED BY <3>4 DEF ByteStreamSpec!Next
  <2> QED BY <2>2, <2>3
<1>4. CASE \/ NetDrained
           \/ NetInsert /\ NetFull /\ npc' = "insert_to_sleep"
           \/ NetDrain /\ NetFull /\ npc' = "drain_to_sleep"
           \/ NetSleep("insert_to_sleep", "insert_asleep", "insert")
           \/ NetSleep("drain_to_sleep", "drain_asleep", "drain")
  <2>1. /\ UNCHANGED <<rcv_buf, delivered, acked, state>>
        /\ npc # "undefined" /\ npc' # "undefined"
    BY <1>4 DEF NetDrained, NetInsert, NetDrain, NetFull, NetSleep, sockVars, appVars
  <2> QED BY <2>1, SameStream
<1> QED BY <1>1, <1>2, <1>3, <1>4 DEF NetRun, NetInsert, NetDrain

\* The peer closes.
LEMMA NetFinRefines ==
  ASSUME IInv, NetFin, IInv'
  PROVE  [ByteStreamSpec!Next]_ByteStreamSpec!vars
<1>1. /\ UNCHANGED <<rcv_buf, delivered, npc>> /\ npc = "idle" /\ state' = "LAST_ACK"
      /\ state \in {"ESTABLISHED", "LAST_ACK"}
  BY DEF NetFin, netVars, appVars
<1>2. acked' = StreamLen + 1
  BY <1>1 DEF IInv, Progress
<1>3. CASE state = "ESTABLISHED"
  <2>1. ByteStreamSpec!Close
    BY <1>1, <1>2, <1>3 DEF ByteStreamSpec!Close, Defined
  <2> QED BY <2>1 DEF ByteStreamSpec!Next
<1>4. CASE state = "LAST_ACK"
  <2>1. acked = StreamLen + 1
    BY <1>4 DEF IInv, Progress
  <2> QED BY <1>1, <1>2, <1>4, <2>1 DEF ByteStreamSpec!vars, Defined
<1> QED BY <1>1, <1>3, <1>4

\* The rest moves the threads about.
LEMMA RestRefines ==
  ASSUME \/ NetWoken \/ ReadEmpty \/ ReadSleep \/ ReadSpin \/ ReadWake \/ AppWoken
         \/ Spurious \/ UNCHANGED vars
  PROVE  UNCHANGED ByteStreamSpec!vars
<1>1. /\ UNCHANGED <<rcv_buf, delivered, acked, state>>
      /\ npc' = npc \/ (npc # "undefined" /\ npc' # "undefined")
  <2>1. CASE NetResume("insert_asleep", "insert") \/ NetResume("drain_asleep", "drain")
    <3>1. UNCHANGED <<sockVars, appVars>>
      BY <2>1 DEF NetResume
    <3>2. \/ npc = "insert_asleep" /\ npc' = "insert"
          \/ npc = "drain_asleep" /\ npc' = "drain"
      BY <2>1, Zenon DEF NetResume
    <3> QED BY <3>1, <3>2 DEF sockVars, appVars
  <2>2. CASE ReadEmpty \/ ReadSleep \/ ReadSpin \/ ReadWake \/ ReadResume \/ UNCHANGED vars
    BY <2>2 DEF ReadEmpty, ReadSleep, ReadSpin, ReadWake, ReadResume, vars, sockVars, netVars,
                appVars
  <2> QED BY <2>1, <2>2 DEF NetWoken, AppWoken, Spurious
<1> QED BY <1>1 DEF ByteStreamSpec!vars, Defined

\* The receive path implements the abstract byte stream: what the two threads
\* store, acknowledge and hand over, for every segmentation, buffer size and arrival
\* order, is what that stream allows, the failure included that reading a freed entry
\* is (tcp_process, case TCP_PSH, and tcp_sock_read).
THEOREM ImplementsByteStream == Spec => Stream
<1>1. Init => ByteStreamSpec!Init
  BY DEF Init, ByteStreamSpec!Init, Defined
<1>2. IInv /\ IInv' /\ [Next]_vars => [ByteStreamSpec!Next]_ByteStreamSpec!vars
  <2> SUFFICES ASSUME IInv, IInv', [Next]_vars
               PROVE  [ByteStreamSpec!Next]_ByteStreamSpec!vars
    OBVIOUS
  <2>1. CASE NetData
    BY <2>1, DataRefines DEF NetData
  <2>2. CASE NetFin
    BY <2>2, NetFinRefines
  <2>3. CASE NetRun
    BY <2>3, NetRunRefines
  <2>4. CASE ReadData
    BY <2>4, ReadDelivers DEF ByteStreamSpec!Next
  <2>5. CASE NetUndefined
    <3>1. /\ UNCHANGED <<rcv_buf, delivered, state, npc>> /\ npc = "undefined"
          /\ acked' \in 0 .. StreamLen + 1
      BY <2>5 DEF NetUndefined, netVars, appVars
    <3>2. ByteStreamSpec!Failed
      BY <3>1 DEF ByteStreamSpec!Failed, Defined
    <3> QED BY <3>2 DEF ByteStreamSpec!Next
  <2>6. CASE \/ NetWoken \/ ReadEmpty \/ ReadSleep \/ ReadSpin \/ ReadWake \/ AppWoken
             \/ Spurious \/ UNCHANGED vars
    BY <2>6, RestRefines
  <2> QED BY <2>1, <2>2, <2>3, <2>4, <2>5, <2>6 DEF Next, AppRun
<1> QED BY <1>1, <1>2, Invariant, PTL DEF Spec, Stream, ByteStreamSpec!Spec

-----------------------------------------------------------------------------
(* The ring buffer.                                                        *)

\* Places are counted around the array.
LEMMA Around ==
  ASSUME NEW n \in Nat \ {0}, NEW k \in 0 .. 2 * n - 1
  PROVE  /\ k < n => k % n = k
         /\ n <= k => k % n = k - n
BY SMT

LEMMA AroundBack ==
  ASSUME NEW n \in Nat \ {0}, NEW h \in 0 .. n - 1, NEW t \in 0 .. n - 1,
         NEW k, k = t - h + n
  PROVE  /\ h <= t => k % n = t - h
         /\ t < h => k % n = t - h + n
<1>1. k \in 0 .. 2 * n - 1
  BY SMT
<1>2. (k < n => k % n = k) /\ (n <= k => k % n = k - n)
  BY <1>1, Around
<1> QED  BY <1>1, <1>2, SMT

LEMMA AroundOn ==
  ASSUME NEW n \in Nat \ {0}, NEW h \in 0 .. n - 1, NEW i \in 1 .. n,
         NEW k, k = h + i - 1
  PROVE  /\ h + i - 1 < n => k % n = h + i - 1
         /\ n <= h + i - 1 => k % n = h + i - 1 - n
         /\ k % n \in 0 .. n - 1
<1>1. k \in 0 .. 2 * n - 1
  BY SMT
<1>2. (k < n => k % n = k) /\ (n <= k => k % n = k - n)
  BY <1>1, Around
<1> QED  BY <1>1, <1>2, SMT

LEMMA AroundSum ==
  ASSUME NEW n \in Nat \ {0}, NEW t \in 0 .. n - 1, NEW m \in 0 .. n,
         NEW k, k = t + m
  PROVE  /\ t + m < n => k % n = t + m
         /\ n <= t + m => k % n = t + m - n
         /\ k % n \in 0 .. n - 1
<1>1. k \in 0 .. 2 * n - 1
  BY SMT
<1>2. (k < n => k % n = k) /\ (n <= k => k % n = k - n)
  BY <1>1, Around
<1> QED  BY <1>1, <1>2, SMT

\* What ring_buffer_used counts.
LEMMA UsedIs ==
  ASSUME NEW r, IsRing(r)
  PROVE  /\ r.head <= r.tail => used(r) = r.tail - r.head
         /\ r.tail < r.head => used(r) = r.tail - r.head + r.size
         /\ used(r) \in 0 .. r.size - 1
         /\ free(r) = r.size - 1 - used(r)
<1>1. /\ r.size \in Nat \ {0} /\ r.head \in 0 .. r.size - 1 /\ r.tail \in 0 .. r.size - 1
  BY DEF IsRing
<1>2. used(r) = (r.tail - r.head + r.size) % r.size
  BY DEF used
<1>3. /\ r.head <= r.tail => used(r) = r.tail - r.head
      /\ r.tail < r.head => used(r) = r.tail - r.head + r.size
  <2> DEFINE h == r.head  t == r.tail  s == r.size
  <2>1. PICK k : k = t - h + s
    OBVIOUS
  <2>2. s \in Nat \ {0} /\ h \in 0 .. s - 1 /\ t \in 0 .. s - 1 /\ used(r) = k % s
    BY <1>1, <1>2, <2>1
  <2> HIDE DEF h, t, s
  <2>3. /\ h <= t => k % s = t - h
        /\ t < h => k % s = t - h + s
    BY <2>1, <2>2, AroundBack
  <2>4. /\ h <= t => used(r) = t - h
        /\ t < h => used(r) = t - h + s
    BY <2>2, <2>3
  <2> QED BY <2>4 DEF h, t, s
<1>4. used(r) \in 0 .. r.size - 1
  BY <1>1, <1>3, SMT
<1>5. free(r) = r.size - 1 - used(r)
  BY <1>1, <1>4, SMT DEF free
<1> QED  BY <1>3, <1>4, <1>5

\* A function on 1 .. n is a sequence of that length.
LEMMA FunctionIsSeq ==
  ASSUME NEW T, NEW n \in Nat, NEW f \in [1 .. n -> T]
  PROVE  f \in Seq(T) /\ Len(f) = n
OBVIOUS

\* What Contents lists.
LEMMA ContentsIs ==
  ASSUME NEW r, IsRing(r)
  PROVE  /\ Contents(r) \in Seq(Nat)
         /\ Len(Contents(r)) = used(r)
         /\ \A i \in 1 .. used(r) :
              /\ r.head + i - 1 < r.size => Contents(r)[i] = r.buf[r.head + i - 1]
              /\ r.size <= r.head + i - 1 => Contents(r)[i] = r.buf[r.head + i - 1 - r.size]
<1>1. /\ r.size \in Nat \ {0} /\ r.head \in 0 .. r.size - 1
      /\ r.buf \in [0 .. r.size - 1 -> Nat]
  BY DEF IsRing
<1>2. used(r) \in 0 .. r.size - 1
  BY UsedIs
<1>3. \A i \in 1 .. used(r) :
        /\ r.head + i - 1 < r.size => (r.head + i - 1) % r.size = r.head + i - 1
        /\ r.size <= r.head + i - 1 => (r.head + i - 1) % r.size = r.head + i - 1 - r.size
        /\ (r.head + i - 1) % r.size \in 0 .. r.size - 1
  <2> TAKE i \in 1 .. used(r)
  <2>1. i \in 1 .. r.size
    BY <1>1, <1>2, SMT
  <2> QED  BY <1>1, <2>1, AroundOn
<1>4. Contents(r) = [i \in 1 .. used(r) |-> r.buf[(r.head + i - 1) % r.size]]
  BY DEF Contents
<1>5. \A i \in 1 .. used(r) : r.buf[(r.head + i - 1) % r.size] \in Nat
  BY <1>1, <1>3, Zenon
<1>6. Contents(r) \in [1 .. used(r) -> Nat]
  BY <1>4, <1>5, Zenon
<1>7. Contents(r) \in Seq(Nat) /\ Len(Contents(r)) = used(r)
  BY <1>2, <1>6, SMT
<1>8. \A i \in 1 .. used(r) : Contents(r)[i] = r.buf[(r.head + i - 1) % r.size]
  BY <1>4
<1>9. \A i \in 1 .. used(r) :
        /\ r.head + i - 1 < r.size => Contents(r)[i] = r.buf[r.head + i - 1]
        /\ r.size <= r.head + i - 1 => Contents(r)[i] = r.buf[r.head + i - 1 - r.size]
  BY <1>3, <1>8, Zenon
<1> QED  BY <1>7, <1>9

-----------------------------------------------------------------------------
\* An empty buffer is one.
LEMMA AllocIsEmpty ==
  ASSUME NEW n \in Nat
  PROVE  LET r == alloc_ring_buffer(n)
         IN  IsRing(r) /\ r.size = n + 1 /\ Contents(r) = << >>
<1> DEFINE r == alloc_ring_buffer(n)
<1>1. /\ r.size = n + 1 /\ r.head = 0 /\ r.tail = 0 /\ r.buf = [i \in 0 .. n |-> 0]
  BY DEF alloc_ring_buffer
<1>2. r = [size |-> r.size, head |-> r.head, tail |-> r.tail, buf |-> r.buf]
  BY DEF alloc_ring_buffer
<1>3. 0 .. r.size - 1 = 0 .. n
  BY <1>1, SMT
<1>4. IsRing(r)
  BY <1>1, <1>2, <1>3, SMT DEF IsRing
<1>5. used(r) = 0
  <2> HIDE DEF r
  <2> QED  BY <1>1, <1>4, UsedIs, SMT
<1>6. Contents(r) \in Seq(Nat) /\ Len(Contents(r)) = 0
  <2> HIDE DEF r
  <2> QED  BY <1>4, <1>5, ContentsIs
<1>7. Contents(r) = << >>
  <2> HIDE DEF r
  <2> QED  BY <1>6, EmptySeq, SMT
<1> QED  BY <1>1, <1>4, <1>7

-----------------------------------------------------------------------------
\* A write changes the places from the tail on, around the end of the array.
LEMMA FilledAt ==
  ASSUME NEW r, IsRing(r), NEW data \in Seq(Nat), Len(data) <= free(r)
  PROVE  /\ Filled(r, data) \in [0 .. r.size - 1 -> Nat]
         /\ \A p \in 0 .. r.size - 1 :
              Filled(r, data)[p] =
                IF r.tail <= p /\ p < r.tail + Len(data) THEN data[p - r.tail + 1]
                ELSE IF p + r.size < r.tail + Len(data) THEN data[p + r.size - r.tail + 1]
                ELSE r.buf[p]
<1> DEFINE S == r.size  t == r.tail  n == Len(data)  right == S - t
<1>1. /\ S \in Nat \ {0} /\ t \in 0 .. S - 1 /\ n \in 0 .. S - 1
      /\ r.buf \in [0 .. S - 1 -> Nat]
  <2>1. used(r) \in 0 .. S - 1 /\ free(r) = S - 1 - used(r) /\ n \in Nat /\ n <= free(r)
    BY UsedIs, LenProperties
  <2>2. S \in Nat \ {0} /\ t \in 0 .. S - 1 /\ r.buf \in [0 .. S - 1 -> Nat]
    BY DEF IsRing
  <2> HIDE DEF S, t, n
  <2> QED  BY <2>1, <2>2, SMT
<1>2. \A i \in 1 .. n : data[i] \in Nat
  BY ElementOfSeq
<1>3. CASE t + n <= S
  <2>1. Filled(r, data) = copy(r.buf, t, data)
    BY <1>1, <1>3, SMT DEF Filled
  <2>2. Filled(r, data) = [i \in 0 .. S - 1 |-> IF i >= t /\ i < t + n THEN data[i - t + 1] ELSE r.buf[i]]
    BY <1>1, <2>1 DEF copy
  <2> HIDE DEF S, t, n
  <2>3. \A i \in 0 .. S - 1 : i >= t /\ i < t + n => i - t + 1 \in 1 .. n
    BY <1>1, SMT
  <2>4. Filled(r, data) \in [0 .. S - 1 -> Nat]
    BY <1>1, <1>2, <2>2, <2>3, SMT
  <2>5. \A p \in 0 .. S - 1 : ~(p + S < t + n)
    BY <1>1, <1>3, SMT
  <2>6. \A p \in 0 .. S - 1 :
          Filled(r, data)[p] = IF t <= p /\ p < t + n THEN data[p - t + 1] ELSE r.buf[p]
    BY <1>1, <2>2, SMT
  <2> QED  BY <2>4, <2>5, <2>6 DEF S, t, n
<1>4. CASE t + n > S
  <2> DEFINE one == copy(r.buf, t, SubSeq(data, 1, right))
             two == SubSeq(data, right + 1, n)
  <2>1. Filled(r, data) = copy(one, 0, two)
    BY <1>4 DEF Filled
  <2>2. right \in 1 .. n
    <3> HIDE DEF S, t, n
    <3> QED  BY <1>1, <1>4, SMT
  <2>3. /\ Len(SubSeq(data, 1, right)) = right
        /\ \A i \in 1 .. right : SubSeq(data, 1, right)[i] = data[i]
    <3> HIDE DEF right
    <3>1. 1 \in 1 .. n + 1 /\ right \in 1 - 1 .. n
      BY <1>1, <2>2, SMT
    <3>2. right - 1 + 1 = right /\ \A i \in 1 .. right : 1 + i - 1 = i
      BY <2>2, SMT
    <3> QED  BY <2>2, <3>1, <3>2, SubSeqProperties, SMT
  <2>4. Len(two) = n - right /\ \A i \in 1 .. n - right : two[i] = data[right + i]
    <3> HIDE DEF right
    <3>1. right + 1 \in Int /\ n \in Int /\ \A i \in right + 1 .. n : i \in 1 .. n
      BY <1>1, <2>2, SMT
    <3>2. \A i \in right + 1 .. n : data[i] \in Nat
      BY <1>2, <3>1, Zenon
    <3>3. /\ Len(two) = IF right + 1 <= n THEN n - (right + 1) + 1 ELSE 0
          /\ \A i \in 1 .. n - (right + 1) + 1 : two[i] = data[right + 1 + i - 1]
      <4> HIDE DEF n, right
      <4> QED  BY <3>1, <3>2, SubSeqProperties, SMT
    <3> HIDE DEF two, n
    <3>4. n \in Nat /\ right \in Nat /\ right <= n
      BY <1>1, <2>2
    <3>5. Len(two) = n - right
      BY <3>3, <3>4
    <3>6. \A i \in 1 .. n - right : i \in 1 .. n - (right + 1) + 1 /\ right + 1 + i - 1 = right + i
      BY <3>4
    <3>7. \A i \in 1 .. n - right : two[i] = data[right + 1 + i - 1]
      BY <3>3, <3>6
    <3> QED  BY <3>5, <3>6, <3>7
  <2>5. one = [i \in 0 .. S - 1 |-> IF i >= t /\ i < t + right
                                    THEN SubSeq(data, 1, right)[i - t + 1] ELSE r.buf[i]]
    BY <1>1, <2>3 DEF copy
  <2>6. Filled(r, data) = [i \in 0 .. S - 1 |-> IF i >= 0 /\ i < 0 + (n - right)
                                                THEN two[i - 0 + 1] ELSE one[i]]
    BY <2>1, <2>4, <2>5 DEF copy
  <2> HIDE DEF two, one, right
  <2>7. right = S - t
    BY DEF right
  <2> HIDE DEF S, t, n
  <2>8. \A i \in 0 .. S - 1 : one[i] = IF i >= t THEN data[i - t + 1] ELSE r.buf[i]
    <3> TAKE i \in 0 .. S - 1
    <3>1. one[i] = IF i >= t /\ i < t + right THEN SubSeq(data, 1, right)[i - t + 1] ELSE r.buf[i]
      BY <2>5
    <3>2. i >= t => i < t + right /\ i - t + 1 \in 1 .. right
      BY <1>1, <2>7, SMT
    <3> QED  BY <2>3, <3>1, <3>2
  <2>9. \A p \in 0 .. S - 1 :
          Filled(r, data)[p] = IF t <= p /\ p < t + n THEN data[p - t + 1]
                               ELSE IF p + S < t + n THEN data[p + S - t + 1] ELSE r.buf[p]
    <3> TAKE p \in 0 .. S - 1
    <3>1. Filled(r, data)[p] = IF p >= 0 /\ p < 0 + (n - right) THEN two[p - 0 + 1] ELSE one[p]
      BY <2>6
    <3>2. CASE p < n - right
      <4>1. Filled(r, data)[p] = two[p + 1] /\ two[p + 1] = data[right + (p + 1)]
        <5>1. p + 1 \in 1 .. n - right /\ p >= 0 /\ p < 0 + (n - right) /\ p - 0 + 1 = p + 1
          BY <1>1, <2>2, <3>2, SMT
        <5> QED  BY <2>4, <3>1, <5>1
      <4>2. p + S < t + n /\ p < t /\ right + (p + 1) = p + S - t + 1
        BY <1>1, <2>7, <3>2, SMT
      <4>3. ~(t <= p)
        BY <1>1, <4>2, SMT
      <4> QED  BY <4>1, <4>2, <4>3
    <3>3. CASE ~(p < n - right)
      <4>1. Filled(r, data)[p] = one[p]
        <5>1. ~(p < 0 + (n - right))
          BY <1>1, <2>2, <3>3, SMT
        <5> QED  BY <3>1, <5>1
      <4>2. ~(p + S < t + n) /\ p < t + n /\ (p >= t <=> t <= p)
        BY <1>1, <1>4, <2>7, <3>3, SMT
      <4> QED  BY <2>8, <4>1, <4>2
    <3> QED  BY <3>2, <3>3
  <2>10. Filled(r, data) \in [0 .. S - 1 -> Nat]
    <3>1. Filled(r, data) = [p \in 0 .. S - 1 |-> Filled(r, data)[p]]
      BY <2>6
    <3>2. \A p \in 0 .. S - 1 : Filled(r, data)[p] \in Nat
      <4> TAKE p \in 0 .. S - 1
      <4>1. CASE t <= p /\ p < t + n
        <5>1. p - t + 1 \in 1 .. n
          BY <1>1, <4>1, SMT
        <5> QED  BY <1>2, <2>9, <4>1, <5>1
      <4>2. CASE ~(t <= p /\ p < t + n) /\ p + S < t + n
        <5>1. p + S - t + 1 \in 1 .. n
          BY <1>1, <4>2, SMT
        <5> QED  BY <1>2, <2>9, <4>2, <5>1
      <4>3. CASE ~(t <= p /\ p < t + n) /\ ~(p + S < t + n)
        BY <1>1, <2>9, <4>3
      <4> QED  BY <4>1, <4>2, <4>3
    <3> QED  BY <3>1, <3>2
  <2> QED  BY <2>9, <2>10 DEF S, t, n
<1> QED  
  <2>1. t + n <= S \/ t + n > S
    <3> HIDE DEF S, t, n
    <3> QED  BY <1>1, SMT
  <2> QED  BY <1>3, <1>4, <2>1

\* A write puts the data behind what is in the buffer.
THEOREM WriteAppends ==
  ASSUME NEW r, IsRing(r), NEW data \in Seq(Nat), Len(data) <= free(r)
  PROVE  LET w == write_ring_buffer(r, data)
         IN  /\ IsRing(w) /\ w.size = r.size
             /\ Contents(w) = Contents(r) \o data
<1> DEFINE w == write_ring_buffer(r, data)
           S == r.size  h == r.head  t == r.tail  n == Len(data)  u == used(r)
<1>1. /\ S \in Nat \ {0} /\ h \in 0 .. S - 1 /\ t \in 0 .. S - 1 /\ u \in 0 .. S - 1
      /\ h <= t => u = t - h
      /\ t < h => u = t - h + S
      /\ n \in 0 .. S - 1 - u
  <2>1. /\ S \in Nat \ {0} /\ h \in 0 .. S - 1 /\ t \in 0 .. S - 1
    BY DEF IsRing
  <2>2. /\ h <= t => u = t - h
        /\ t < h => u = t - h + S
        /\ u \in 0 .. S - 1 /\ free(r) = S - 1 - u
    BY UsedIs
  <2>3. n \in Nat /\ n <= free(r)
    BY LenProperties
  <2> HIDE DEF S, h, t, n, u
  <2> QED  BY <2>1, <2>2, <2>3, SMT
<1>2. /\ w.size = S /\ w.head = h /\ w.tail = (t + n) % S /\ w.buf = Filled(r, data)
      /\ w = [size |-> w.size, head |-> w.head, tail |-> w.tail, buf |-> w.buf]
  <2>1. w = [size |-> S, head |-> h, tail |-> (t + n) % S, buf |-> Filled(r, data)]
    BY Zenon DEF write_ring_buffer
  <2> QED  BY <2>1
<1>3. /\ t + n < S => w.tail = t + n
      /\ S <= t + n => w.tail = t + n - S
      /\ w.tail \in 0 .. S - 1
  <2> HIDE DEF w, S, h, t, n, u
  <2>1. n \in 0 .. S
    BY <1>1, SMT
  <2> DEFINE q == (t + n) % S
  <2>2. w.tail = q
    BY <1>2
  <2>3. /\ t + n < S => q = t + n
        /\ S <= t + n => q = t + n - S
        /\ q \in 0 .. S - 1
    BY <1>1, <2>1, AroundSum
  <2> HIDE DEF q
  <2> QED  BY <2>2, <2>3
<1>4. IsRing(w)
  <2>1. Filled(r, data) \in [0 .. S - 1 -> Nat]
    BY FilledAt
  <2> HIDE DEF w, S, h, t, n, u
  <2> QED  BY <1>1, <1>2, <1>3, <2>1 DEF IsRing
<1>5. used(w) = u + n
  <2>1. /\ w.head <= w.tail => used(w) = w.tail - w.head
        /\ w.tail < w.head => used(w) = w.tail - w.head + w.size
    <3> HIDE DEF w
    <3> QED  BY <1>4, UsedIs
  <2> DEFINE wt == w.tail  wu == used(w)
  <2>2. /\ h <= wt => wu = wt - h
        /\ wt < h => wu = wt - h + S
    BY <1>2, <2>1
  <2>3. /\ t + n < S => wt = t + n
        /\ S <= t + n => wt = t + n - S
    BY <1>3
  <2> HIDE DEF w, S, h, t, n, u, wt, wu
  <2>4. wu = u + n
    <3>1. /\ S \in Nat /\ h \in Nat /\ t \in Nat /\ n \in Nat
          /\ h < S /\ t < S /\ u + n < S /\ u \in Nat
      BY <1>1
    <3>2. CASE h <= t
      <4>1. u = t - h
        BY <1>1, <3>2
      <4>2. CASE t + n < S
        BY <2>2, <2>3, <3>1, <3>2, <4>1, <4>2
      <4>3. CASE S <= t + n
        <5>1. wt = t + n - S /\ wt < h
          BY <2>3, <3>1, <4>1, <4>3
        <5> QED BY <2>2, <3>1, <4>1, <5>1
      <4> QED BY <3>1, <4>2, <4>3
    <3>3. CASE t < h
      <4>1. u = t - h + S
        BY <1>1, <3>3
      <4>2. wt = t + n /\ wt < h
        BY <2>3, <3>1, <4>1
      <4> QED BY <2>2, <3>1, <4>1, <4>2
    <3> QED BY <3>1, <3>2, <3>3
  <2> QED  BY <2>4 DEF wu
<1>6. /\ Contents(r) \in Seq(Nat) /\ Len(Contents(r)) = u
      /\ \A i \in 1 .. u : /\ h + i - 1 < S => Contents(r)[i] = r.buf[h + i - 1]
                           /\ S <= h + i - 1 => Contents(r)[i] = r.buf[h + i - 1 - S]
  BY ContentsIs
<1>7. /\ Contents(w) \in Seq(Nat) /\ Len(Contents(w)) = u + n
      /\ \A i \in 1 .. u + n :
           /\ h + i - 1 < S => Contents(w)[i] = Filled(r, data)[h + i - 1]
           /\ S <= h + i - 1 => Contents(w)[i] = Filled(r, data)[h + i - 1 - S]
  <2> HIDE DEF w, S, h, t, n, u
  <2>1. /\ Contents(w) \in Seq(Nat) /\ Len(Contents(w)) = used(w)
        /\ \A i \in 1 .. used(w) :
             /\ w.head + i - 1 < w.size => Contents(w)[i] = w.buf[w.head + i - 1]
             /\ w.size <= w.head + i - 1 => Contents(w)[i] = w.buf[w.head + i - 1 - w.size]
    BY <1>4, ContentsIs
  <2>2. used(w) = u + n /\ w.size = S /\ w.head = h /\ w.buf = Filled(r, data)
    BY <1>2, <1>5
  <2> QED  BY <2>1, <2>2
<1>8. \A p \in 0 .. S - 1 :
        /\ t <= p /\ p < t + n => Filled(r, data)[p] = data[p - t + 1]
        /\ ~(t <= p /\ p < t + n) /\ p + S < t + n => Filled(r, data)[p] = data[p + S - t + 1]
        /\ ~(t <= p /\ p < t + n) /\ ~(p + S < t + n) => Filled(r, data)[p] = r.buf[p]
  BY FilledAt, Zenon
<1>9. ASSUME NEW i \in 1 .. u
      PROVE  Contents(w)[i] = Contents(r)[i]
  <2> HIDE DEF w, S, h, t, n, u
  <2>1. i \in 1 .. u + n
    BY <1>1, SMT
  <2>2. CASE h + i - 1 < S
    <3> DEFINE p == h + i - 1
    <3>1. p \in 0 .. S - 1 /\ ~(t <= p /\ p < t + n) /\ ~(p + S < t + n)
      BY <1>1, <2>2, SMT
    <3>2. Filled(r, data)[p] = r.buf[p]
      <4> HIDE DEF p
      <4> QED  BY <1>8, <3>1, Zenon
    <3> QED  BY <1>6, <1>7, <2>1, <2>2, <3>2
  <2>3. CASE S <= h + i - 1
    <3> DEFINE p == h + i - 1 - S
    <3>1. p \in 0 .. S - 1 /\ ~(t <= p /\ p < t + n) /\ ~(p + S < t + n)
      BY <1>1, <2>3, SMT
    <3>2. Filled(r, data)[p] = r.buf[p]
      <4> HIDE DEF p
      <4> QED  BY <1>8, <3>1, Zenon
    <3> QED  BY <1>6, <1>7, <2>1, <2>3, <3>2
  <2>4. h + i - 1 < S \/ S <= h + i - 1
    BY <1>1, SMT
  <2> QED  BY <2>2, <2>3, <2>4
<1>10. ASSUME NEW i \in u + 1 .. u + n
       PROVE  Contents(w)[i] = data[i - u]
  <2> HIDE DEF w, S, h, t, n, u
  <2>1. i \in 1 .. u + n
    BY <1>1, SMT
  <2>2. CASE h + i - 1 < S
    <3> DEFINE p == h + i - 1
    <3>1. CASE t <= p
      <4>1. p \in 0 .. S - 1 /\ p < t + n /\ p - t + 1 = i - u
        BY <1>1, <2>2, <3>1, SMT
      <4>2. Filled(r, data)[p] = data[p - t + 1]
        <5> HIDE DEF p
        <5> QED  BY <1>8, <3>1, <4>1, Zenon
      <4> QED  BY <1>7, <2>1, <2>2, <4>1, <4>2
    <3>2. CASE p < t
      <4>1. FALSE
        BY <1>1, <2>2, <3>2, SMT
      <4> QED  BY <4>1
    <3>3. t <= p \/ p < t
      BY <1>1, SMT
    <3> QED  BY <3>1, <3>2, <3>3
  <2>3. CASE S <= h + i - 1
    <3> DEFINE p == h + i - 1 - S
    <3>1. CASE t <= p /\ p < t + n
      <4>1. p \in 0 .. S - 1 /\ p - t + 1 = i - u
        BY <1>1, <2>3, <3>1, SMT
      <4>2. Filled(r, data)[p] = data[p - t + 1]
        <5> HIDE DEF p
        <5> QED  BY <1>8, <3>1, <4>1, Zenon
      <4> QED  BY <1>7, <2>1, <2>3, <4>1, <4>2
    <3>2. CASE ~(t <= p /\ p < t + n)
      <4>1. p \in 0 .. S - 1 /\ p + S < t + n /\ p + S - t + 1 = i - u
        BY <1>1, <2>3, <3>2, SMT
      <4>2. Filled(r, data)[p] = data[p + S - t + 1]
        <5> HIDE DEF p
        <5> QED  BY <1>8, <3>2, <4>1, Zenon
      <4> QED  BY <1>7, <2>1, <2>3, <4>1, <4>2
    <3> QED  BY <3>1, <3>2
  <2>4. h + i - 1 < S \/ S <= h + i - 1
    BY <1>1, SMT
  <2> QED  BY <2>2, <2>3, <2>4
<1>11. Contents(w) = Contents(r) \o data
  <2>1. /\ Contents(r) \o data \in Seq(Nat) /\ Len(Contents(r) \o data) = u + n
        /\ \A i \in 1 .. u + n :
             (Contents(r) \o data)[i] = IF i <= u THEN Contents(r)[i] ELSE data[i - u]
    <3> HIDE DEF w, S, h, t, u
    <3> QED  BY <1>6, ConcatProperties, Zenon
  <2>2. \A i \in 1 .. u + n : Contents(w)[i] = (Contents(r) \o data)[i]
    <3> HIDE DEF w, S, h, t, n, u
    <3> TAKE i \in 1 .. u + n
    <3>1. i \in 1 .. u \/ (i \in u + 1 .. u + n /\ ~(i <= u))
      BY <1>1, SMT
    <3>2. i \in 1 .. u => i <= u
      BY <1>1, SMT
    <3> QED  BY <1>9, <1>10, <2>1, <3>1, <3>2
  <2> HIDE DEF w, S, h, t, n, u
  <2> QED  BY <1>7, <2>1, <2>2, SeqEqual, Zenon
<1> QED  BY <1>2, <1>4, <1>11

-----------------------------------------------------------------------------
\* A read takes the oldest bytes, and leaves the others.
THEOREM ReadTakes ==
  ASSUME NEW r, IsRing(r), NEW n \in Nat
  PROVE  LET x == read_ring_buffer(r, n)
             m == readable(r, n)
         IN  /\ IsRing(x) /\ x.size = r.size
             /\ m \in 0 .. used(r) /\ m <= n
             /\ Bytes(r, n) = SubSeq(Contents(r), 1, m)
             /\ Contents(x) = SubSeq(Contents(r), m + 1, used(r))
<1> DEFINE x == read_ring_buffer(r, n)
           S == r.size  h == r.head  t == r.tail  m == readable(r, n)  u == used(r)
           right == S - h
<1>1. /\ S \in Nat \ {0} /\ h \in 0 .. S - 1 /\ t \in 0 .. S - 1 /\ u \in 0 .. S - 1
      /\ h <= t => u = t - h
      /\ t < h => u = t - h + S
      /\ r.buf \in [0 .. S - 1 -> Nat]
  <2>1. /\ S \in Nat \ {0} /\ h \in 0 .. S - 1 /\ t \in 0 .. S - 1
        /\ r.buf \in [0 .. S - 1 -> Nat]
    BY DEF IsRing
  <2>2. /\ h <= t => u = t - h
        /\ t < h => u = t - h + S
        /\ u \in 0 .. S - 1
    BY UsedIs
  <2> HIDE DEF S, h, t, u
  <2> QED  BY <2>1, <2>2
<1>2. m \in 0 .. u /\ m <= n /\ m \in Nat
  <2>1. m = IF u < n THEN u ELSE n
    BY DEF readable
  <2> HIDE DEF S, h, t, u, m
  <2> QED  BY <1>1, <2>1, SMT
<1>3. /\ x.size = S /\ x.head = (h + m) % S /\ x.tail = t /\ x.buf = r.buf
      /\ x = [size |-> x.size, head |-> x.head, tail |-> x.tail, buf |-> x.buf]
  <2>1. x = [size |-> S, head |-> (h + m) % S, tail |-> t, buf |-> r.buf]
    BY Zenon DEF read_ring_buffer
  <2> QED  BY <2>1
<1>4. /\ h + m < S => x.head = h + m
      /\ S <= h + m => x.head = h + m - S
      /\ x.head \in 0 .. S - 1
  <2> HIDE DEF x, S, h, t, m, u
  <2>1. m \in 0 .. S
    BY <1>1, <1>2, SMT
  <2> DEFINE q == (h + m) % S
  <2>2. x.head = q
    BY <1>3
  <2>3. /\ h + m < S => q = h + m
        /\ S <= h + m => q = h + m - S
        /\ q \in 0 .. S - 1
    BY <1>1, <2>1, AroundSum
  <2> HIDE DEF q
  <2> QED  BY <2>2, <2>3
<1>5. IsRing(x)
  <2> HIDE DEF x, S, h, t, m, u
  <2> QED  BY <1>1, <1>3, <1>4 DEF IsRing
<1>6. used(x) = u - m
  <2>1. /\ x.head <= x.tail => used(x) = x.tail - x.head
        /\ x.tail < x.head => used(x) = x.tail - x.head + x.size
    <3> HIDE DEF x
    <3> QED  BY <1>5, UsedIs
  <2> DEFINE xh == x.head  xu == used(x)
  <2>2. /\ xh <= t => xu = t - xh
        /\ t < xh => xu = t - xh + S
    BY <1>3, <2>1
  <2>3. /\ h + m < S => xh = h + m
        /\ S <= h + m => xh = h + m - S
    BY <1>4
  <2> HIDE DEF x, S, h, t, m, u, xh, xu
  <2>4. xu = u - m
    <3>1. /\ S \in Nat /\ h \in Nat /\ t \in Nat /\ m \in Nat
          /\ h < S /\ t < S /\ m <= u /\ u \in Nat
      BY <1>1, <1>2
    <3>2. CASE h <= t
      <4>1. u = t - h
        BY <1>1, <3>2
      <4>2. xh = h + m /\ xh <= t
        BY <2>3, <3>1, <4>1
      <4> QED BY <2>2, <3>1, <4>1, <4>2
    <3>3. CASE t < h
      <4>1. u = t - h + S
        BY <1>1, <3>3
      <4>2. CASE h + m < S
        <5>1. xh = h + m /\ t < xh
          BY <2>3, <3>1, <3>3, <4>2
        <5> QED BY <2>2, <3>1, <4>1, <5>1
      <4>3. CASE S <= h + m
        <5>1. xh = h + m - S /\ xh <= t
          BY <2>3, <3>1, <4>1, <4>3
        <5> QED BY <2>2, <3>1, <4>1, <5>1
      <4> QED BY <3>1, <4>2, <4>3
    <3> QED BY <3>1, <3>2, <3>3
  <2> QED  BY <2>4 DEF xu
<1>7. /\ Contents(r) \in Seq(Nat) /\ Len(Contents(r)) = u
      /\ \A i \in 1 .. u : /\ h + i - 1 < S => Contents(r)[i] = r.buf[h + i - 1]
                           /\ S <= h + i - 1 => Contents(r)[i] = r.buf[h + i - 1 - S]
  BY ContentsIs
<1>8. /\ Contents(x) \in Seq(Nat) /\ Len(Contents(x)) = u - m
      /\ \A i \in 1 .. u - m :
           /\ x.head + i - 1 < S => Contents(x)[i] = r.buf[x.head + i - 1]
           /\ S <= x.head + i - 1 => Contents(x)[i] = r.buf[x.head + i - 1 - S]
  <2> HIDE DEF x, S, h, t, m, u
  <2> QED  BY <1>3, <1>5, <1>6, ContentsIs
<1>9. /\ SubSeq(Contents(r), 1, m) \in Seq(Nat) /\ Len(SubSeq(Contents(r), 1, m)) = m
      /\ \A i \in 1 .. m : SubSeq(Contents(r), 1, m)[i] = Contents(r)[i]
      /\ SubSeq(Contents(r), m + 1, u) \in Seq(Nat) /\ Len(SubSeq(Contents(r), m + 1, u)) = u - m
      /\ \A i \in 1 .. u - m : SubSeq(Contents(r), m + 1, u)[i] = Contents(r)[i + m]
  <2> DEFINE c == Contents(r)
  <2>1. c \in Seq(Nat) /\ Len(c) = u /\ u \in Nat /\ m \in 0 .. u
    BY <1>1, <1>2, <1>7
  <2> HIDE DEF c, S, h, t, m, u
  <2>2. \A i \in 1 .. u : c[i] \in Nat
    BY <2>1, ElementOfSeq
  <2> QED  BY <2>1, <2>2, SMT DEF c
<1>10. Contents(x) = SubSeq(Contents(r), m + 1, u)
  <2> HIDE DEF x, S, h, t, m, u, right
  <2>1. \A i \in 1 .. u - m : Contents(x)[i] = Contents(r)[i + m]
    <3> TAKE i \in 1 .. u - m
    <3> DEFINE j == i + m  q == x.head + i - 1
    <3>1. j \in 1 .. u
      BY <1>1, <1>2, SMT
    <3>2. /\ h + j - 1 < S => Contents(r)[j] = r.buf[h + j - 1]
          /\ S <= h + j - 1 => Contents(r)[j] = r.buf[h + j - 1 - S]
      <4> HIDE DEF j
      <4> QED  BY <1>7, <3>1
    <3>3. /\ q < S => Contents(x)[i] = r.buf[q]
          /\ S <= q => Contents(x)[i] = r.buf[q - S]
      <4> DEFINE xh == x.head
      <4>1. /\ xh + i - 1 < S => Contents(x)[i] = r.buf[xh + i - 1]
            /\ S <= xh + i - 1 => Contents(x)[i] = r.buf[xh + i - 1 - S]
        BY <1>8
      <4>2. q = xh + i - 1 /\ xh \in 0 .. S - 1
        BY <1>4
      <4> HIDE DEF xh, q
      <4> QED  BY <1>1, <4>1, <4>2
    <3>4. \/ h + j - 1 < S /\ q = h + j - 1
          \/ S <= h + j - 1 /\ q = h + j - 1
          \/ S <= h + j - 1 /\ q < S /\ q = h + j - 1 - S
      <4> DEFINE xh == x.head
      <4>1. /\ h + m < S => xh = h + m
            /\ S <= h + m => xh = h + m - S
            /\ xh \in 0 .. S - 1
        BY <1>4
      <4> HIDE DEF xh
      <4>2. q = xh + i - 1
        BY DEF xh
      <4> HIDE DEF q
      <4> QED  BY <1>1, <1>2, <4>1, <4>2, SMT
    <3>5. j = i + m
      OBVIOUS
    <3> HIDE DEF j, q
    <3>6. CASE h + j - 1 < S /\ q = h + j - 1
      <4>1. Contents(x)[i] = r.buf[q] /\ Contents(r)[j] = r.buf[q]
        BY <3>2, <3>3, <3>6
      <4> QED  BY <4>1, <3>5
    <3>7. CASE S <= h + j - 1 /\ q = h + j - 1
      <4>1. q - S = h + j - 1 - S /\ S <= q
        <5>1. h \in Int /\ j \in Int /\ S \in Int
          BY <1>1, <3>1, SMT
        <5> QED  BY <3>7, <5>1, SMT
      <4>2. Contents(x)[i] = r.buf[q - S] /\ Contents(r)[j] = r.buf[h + j - 1 - S]
        BY <3>2, <3>3, <3>7, <4>1, Zenon
      <4> QED  BY <4>1, <4>2, <3>5, Zenon
    <3>8. CASE S <= h + j - 1 /\ q < S /\ q = h + j - 1 - S
      <4>1. Contents(x)[i] = r.buf[q] /\ Contents(r)[j] = r.buf[q]
        BY <3>2, <3>3, <3>8
      <4> QED  BY <4>1, <3>5
    <3> QED  BY <3>4, <3>6, <3>7, <3>8
  <2>2. \A i \in 1 .. u - m : Contents(x)[i] = SubSeq(Contents(r), m + 1, u)[i]
    BY <1>9, <2>1
  <2> QED  BY <1>8, <1>9, <2>2, SeqEqual, Zenon
<1>11. Bytes(r, n) = SubSeq(Contents(r), 1, m)
  <2> DEFINE c == SubSeq(Contents(r), 1, m)
  <2>1. CASE h + m > S
    <3> DEFINE one == slice(r.buf, h, right)  two == slice(r.buf, 0, m - right)
    <3>1. Bytes(r, n) = one \o two
      BY <2>1, Zenon DEF Bytes
    <3>2. one = [i \in 1 .. right |-> r.buf[h + i - 1]] /\ two = [i \in 1 .. m - right |-> r.buf[0 + i - 1]]
      BY DEF slice
    <3> HIDE DEF one, two, c
    <3>3. right = S - h
      OBVIOUS
    <3> HIDE DEF right, x, S, h, t, m, u
    <3>4. /\ right \in 1 .. m /\ m - right \in Nat /\ m \in Nat /\ right \in Nat
          /\ \A i \in 1 .. right : h + i - 1 \in 0 .. S - 1
          /\ \A i \in 1 .. m - right : 0 + i - 1 \in 0 .. S - 1
      BY <1>1, <1>2, <2>1, <3>3, SMT
    <3>5. one \in [1 .. right -> Nat] /\ two \in [1 .. m - right -> Nat]
      BY <1>1, <3>2, <3>4, Zenon
    <3>6. one \in Seq(Nat) /\ Len(one) = right /\ two \in Seq(Nat) /\ Len(two) = m - right
      <4>1. right \in Nat /\ m - right \in Nat
        BY <3>4
      <4> HIDE DEF one, two
      <4> QED BY <3>5, <4>1, FunctionIsSeq, Zenon
    <3>7. /\ one \o two \in Seq(Nat) /\ Len(one \o two) = Len(one) + Len(two)
          /\ \A i \in 1 .. Len(one) + Len(two) :
               (one \o two)[i] = IF i <= Len(one) THEN one[i] ELSE two[i - Len(one)]
      BY <3>6, ConcatProperties, Zenon
    <3>8. Len(one) + Len(two) = m /\ Len(one) = right
      BY <3>4, <3>6, SMT
    <3>9. \A i \in 1 .. m : (one \o two)[i] = c[i]
      <4> TAKE i \in 1 .. m
      <4>1. (one \o two)[i] = IF i <= right THEN one[i] ELSE two[i - right]
        BY <3>7, <3>8
      <4>2. c[i] = Contents(r)[i] /\ i \in 1 .. u
        <5>1. c[i] = Contents(r)[i]
          BY <1>9, Zenon DEF c
        <5>2. i \in 1 .. u
          BY <1>1, <1>2, SMT
        <5> QED BY <5>1, <5>2
      <4>3. CASE i <= right
        <5>1. i \in 1 .. right /\ h + i - 1 < S
          BY <1>1, <3>3, <3>4, <4>3, SMT
        <5>2. one[i] = r.buf[h + i - 1]
          BY <3>2, <5>1
        <5> QED  BY <1>7, <4>1, <4>2, <4>3, <5>1, <5>2
      <4>4. CASE ~(i <= right)
        <5>1. /\ i - right \in 1 .. m - right /\ S <= h + i - 1
              /\ 0 + (i - right) - 1 = h + i - 1 - S
          <6> DEFINE v == i - right
          <6>1. v \in 1 .. m - right /\ S <= h + i - 1 /\ 0 + v - 1 = h + i - 1 - S
            BY <1>1, <3>3, <3>4, <4>4, SMT
          <6> QED  BY <6>1
        <5>2. two[i - right] = r.buf[0 + (i - right) - 1]
          BY <3>2, <5>1
        <5> QED  BY <1>7, <4>1, <4>2, <4>4, <5>1, <5>2
      <4> QED  BY <4>3, <4>4
    <3>10. c \in Seq(Nat) /\ Len(c) = m
      BY <1>9 DEF c
    <3>11. one \o two = c
      BY <3>7, <3>8, <3>9, <3>10, SeqEqual, Zenon
    <3> QED  BY <3>1, <3>11 DEF c
  <2>2. CASE ~(h + m > S)
    <3> DEFINE one == slice(r.buf, h, m)
    <3>1. Bytes(r, n) = one
      BY <2>2, Zenon DEF Bytes
    <3>2. one = [i \in 1 .. m |-> r.buf[h + i - 1]]
      BY DEF slice
    <3> HIDE DEF one, c, right, x, S, h, t, m, u
    <3>3. \A i \in 1 .. m : h + i - 1 \in 0 .. S - 1 /\ h + i - 1 < S /\ i \in 1 .. u
      BY <1>1, <1>2, <2>2, SMT
    <3>4. one \in [1 .. m -> Nat]
      BY <1>1, <3>2, <3>3, Zenon
    <3>5. one \in Seq(Nat) /\ Len(one) = m
      BY <1>2, <3>4, SMT
    <3>6. \A i \in 1 .. m : one[i] = c[i]
      BY <1>7, <1>9, <3>2, <3>3 DEF c
    <3>7. c \in Seq(Nat) /\ Len(c) = m
      BY <1>9 DEF c
    <3>8. one = c
      BY <3>5, <3>6, <3>7, SeqEqual, Zenon
    <3> QED  BY <3>1, <3>8 DEF c
  <2> QED  BY <2>1, <2>2
<1> QED  BY <1>2, <1>3, <1>5, <1>10, <1>11

-----------------------------------------------------------------------------
(* The receive path on it.                                                 *)

\* What RcvBufIsRing says of the states it speaks about.
RingIsBytes == Contents(ring) = rcv_buf /\ out = delivered

\* The inductive invariant: that of TcpRecv, and the ring is a ring of the size
\* it was allocated with, holding what rcv_buf holds.
RInv ==
  /\ IInv
  /\ IsRing(ring) /\ ring.size = RcvBufSize + 1
  /\ RingIsBytes

\* The ring says of itself what TcpRecv says of rcv_buf.
LEMMA RingIsBuf ==
  ASSUME RInv
  PROVE  /\ used(ring) = Len(rcv_buf)
         /\ free(ring) = ring_buffer_free
         /\ rcv_buf \in Seq(Nat)
<1>1. /\ IsRing(ring) /\ ring.size = RcvBufSize + 1 /\ Contents(ring) = rcv_buf
  BY DEF RInv, RingIsBytes
<1>2. used(ring) = Len(rcv_buf) /\ rcv_buf \in Seq(Nat)
  BY <1>1, ContentsIs
<1>3. free(ring) = ring.size - 1 - used(ring)
  BY <1>1, UsedIs
<1>4. RcvBufSize \in Nat /\ Len(rcv_buf) \in Nat
  BY <1>2, TcpRecvAssumption
<1> QED
  BY <1>1, <1>2, <1>3, <1>4 DEF ring_buffer_free, ring_buffer_used

\* A freshly allocated ring is the empty buffer.
LEMMA RingInitInv == RingInit => RInv
<1> SUFFICES ASSUME RingInit PROVE RInv
  OBVIOUS
<1>1. IInv /\ rcv_buf = << >> /\ delivered = << >>
  BY InitIInv DEF RingInit, Init
<1>2. RcvBufSize \in Nat
  BY TcpRecvAssumption
<1>3. ring = alloc_ring_buffer(RcvBufSize) /\ out = << >>
  BY DEF RingInit
<1>4. IsRing(ring) /\ ring.size = RcvBufSize + 1 /\ Contents(ring) = << >>
  BY <1>2, <1>3, AllocIsEmpty
<1> QED
  BY <1>1, <1>3, <1>4 DEF RInv, RingIsBytes

\* Storing a segment writes its payload behind what the ring holds.
LEMMA WrittenInv ==
  ASSUME RInv, NEW s \in Segs, Written(s), rcv_buf' = rcv_buf \o payload(s),
         UNCHANGED delivered
  PROVE  /\ IsRing(ring') /\ ring'.size = RcvBufSize + 1
         /\ RingIsBytes'
<1>1. /\ ring' = write_ring_buffer(ring, payload(s)) /\ out' = out
      /\ ring_buffer_free >= PlLen(s)
  BY DEF Written, HasRoom
<1>2. /\ IsRing(ring) /\ ring.size = RcvBufSize + 1
      /\ Contents(ring) = rcv_buf /\ out = delivered
  BY DEF RInv, RingIsBytes
<1>3. payload(s) \in Seq(Nat) /\ Len(payload(s)) = PlLen(s) /\ PlLen(s) \in Nat
  BY PayloadFacts
<1>4. free(ring) = ring_buffer_free
  BY RingIsBuf
<1>5. free(ring) \in Int
  <2>1. RcvBufSize \in Nat /\ Len(rcv_buf) \in Nat
    BY RingIsBuf, TcpRecvAssumption
  <2> QED BY <1>4, <2>1 DEF ring_buffer_free, ring_buffer_used
<1>6. Len(payload(s)) <= free(ring)
  BY <1>1, <1>3, <1>4, <1>5
<1>7. /\ IsRing(ring') /\ ring'.size = ring.size
      /\ Contents(ring') = Contents(ring) \o payload(s)
  BY <1>1, <1>2, <1>3, <1>6, WriteAppends
<1> QED
  BY <1>1, <1>2, <1>7 DEF RingIsBytes

\* tcp_sock_read gets from the ring what TcpRecv takes from rcv_buf.
LEMMA DataReadInv ==
  ASSUME RInv, DataRead
  PROVE  /\ IsRing(ring') /\ ring'.size = RcvBufSize + 1
         /\ RingIsBytes'
<1> DEFINE n == IF ring_buffer_used < ReadLen THEN ring_buffer_used ELSE ReadLen
<1>1. /\ ring' = read_ring_buffer(ring, ReadLen)
      /\ out' = out \o Bytes(ring, ReadLen)
      /\ delivered' = delivered \o SubSeq(rcv_buf, 1, n)
      /\ rcv_buf' = SubSeq(rcv_buf, n + 1, Len(rcv_buf))
  BY DEF DataRead, ReadData, Unread
<1>2. /\ IsRing(ring) /\ ring.size = RcvBufSize + 1
      /\ Contents(ring) = rcv_buf /\ out = delivered
  BY DEF RInv, RingIsBytes
<1>3. used(ring) = Len(rcv_buf)
  BY RingIsBuf
<1>4. readable(ring, ReadLen) = n
  BY <1>3 DEF readable, ring_buffer_used
<1>5. ReadLen \in Nat
  BY TcpRecvAssumption
<1>6. /\ IsRing(ring') /\ ring'.size = ring.size
      /\ Bytes(ring, ReadLen) = SubSeq(Contents(ring), 1, n)
      /\ Contents(ring') = SubSeq(Contents(ring), n + 1, used(ring))
  BY <1>1, <1>2, <1>4, <1>5, ReadTakes
<1> QED
  BY <1>1, <1>2, <1>3, <1>6 DEF RingIsBytes

\* Every step of the composition is a step of TcpRecv.
LEMMA RingStepIsStep ==
  [RingNext]_<<vars, ringVars>> => [Next]_vars
<1>1. InsertWrites => Next
  BY DEF InsertWrites, Next, NetRun
<1>2. DrainWrites => Next
  BY DEF DrainWrites, Next, NetRun
<1>3. DataRead => Next
  BY DEF DataRead, Next, AppRun
<1>4. Untouched => Next
  BY DEF Untouched
<1> QED
  BY <1>1, <1>2, <1>3, <1>4 DEF RingNext

\* Every step keeps the ring true to rcv_buf.
LEMMA RingNextInv ==
  ASSUME RInv, [RingNext]_<<vars, ringVars>>
  PROVE  RInv'
<1>1. IInv'
  <2>1. IInv
    BY DEF RInv
  <2> QED BY <2>1, RingStepIsStep, NextInv
<1>2. /\ IsRing(ring') /\ ring'.size = RcvBufSize + 1
      /\ RingIsBytes'
  <2>1. CASE Untouched \/ UNCHANGED <<vars, ringVars>>
    <3>1. UNCHANGED <<rcv_buf, delivered, ring, out>>
      BY <2>1 DEF Untouched, vars, sockVars, appVars, ringVars
    <3> QED BY <3>1 DEF RInv, RingIsBytes
  <2>2. CASE InsertWrites
    <3>1. NetInsert /\ Written(cb)
      BY <2>2 DEF InsertWrites
    <3>2. cb \in Segs
      BY <3>1 DEF RInv, IInv, Progress, Inserting, NetInsert
    <3>3. Store(cb) /\ UNCHANGED delivered
      BY <3>1 DEF NetInsert, Written, appVars
    <3> QED BY <3>1, <3>2, <3>3, WrittenInv DEF Store
  <2>3. CASE DrainWrites
    <3> DEFINE h == Head(rcv_ofo_buf)
    <3>1. NetDrain /\ Written(h)
      BY <2>3 DEF DrainWrites
    <3>2. h \in Segs
      <4>1. rcv_ofo_buf # << >> /\ rcv_ofo_buf \in Seq(Segs)
        BY <3>1 DEF NetDrain, OfoReady, RInv, IInv, BasicTypes
      <4> QED BY <4>1
    <3>3. Store(h) /\ UNCHANGED delivered
      BY <3>1 DEF NetDrain, Written, appVars
    <3> QED BY <3>1, <3>2, <3>3, WrittenInv DEF Store
  <2>4. CASE DataRead
    BY <2>4, DataReadInv
  <2> QED BY <2>1, <2>2, <2>3, <2>4 DEF RingNext
<1> QED BY <1>1, <1>2 DEF RInv

\* For every size of the ring and every segmentation, the ring buffer holds the
\* bytes of the sequence rcv_buf and the reader gets from it the bytes it would
\* get from the sequence (write_ring_buffer and read_ring_buffer under
\* rcv_buf->lock, ring_buffer.h 80-116).
THEOREM RingCorrect == RingSpec => []RcvBufIsRing
<1>1. RInv => RcvBufIsRing
  BY DEF RInv, RingIsBytes, RcvBufIsRing
<1> QED BY <1>1, RingInitInv, RingNextInv, PTL DEF RingSpec

\* The composition does nothing TcpRecv does not do, so that all that is proved
\* of TcpRecv holds of it (tcp_process and tcp_sock_read call the ring buffer
\* and look at nothing but its bytes and their number).
THEOREM RingImplements == RingSpec => Spec
<1>1. RingInit => Init
  BY DEF RingInit
<1> QED BY <1>1, RingStepIsStep, PTL DEF RingSpec, Spec
=============================================================================
