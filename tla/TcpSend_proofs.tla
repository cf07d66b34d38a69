--------------------------- MODULE TcpSend_proofs ---------------------------
(***************************************************************************)
(* Proofs about TcpSend, for every number and length of packets, every     *)
(* window and every starting congestion window.                            *)
(***************************************************************************)
EXTENDS TcpSend, TLAPS

first == nput - Len(send_buf)

\* What has left send_buf is at the peer, and the peer knows only what was put.
PeerBetween == first <= peer_nxt /\ peer_nxt <= nput
OnlyPut == got \subseteq 1 .. nput /\ pkts \subseteq 1 .. nput

\* An acknowledgement, on the way or being processed, is the end of a packet
\* the peer has reached.
AckReached(a) == \E m \in 0 .. peer_nxt : a.ack = SeqEnd[m]
AcksReached == (\A a \in acks : AckReached(a)) /\ AckReached(cb)

\* What the two threads have tested before still holds.
Locals == /\ wpc \in {"wnd", "put"} => nput < N
          /\ npc = "fast" => rep_ack >= 2

IInv == /\ TypeOK /\ SendBufIsUnacked /\ PeerBetween /\ OnlyPut
        /\ AcksReached /\ Locals

-----------------------------------------------------------------------------
\* The ends of the packets are naturals in increasing order.
LEMMA SeqEndFacts ==
  /\ \A k \in 0 .. N : SeqEnd[k] \in Nat
  /\ \A j, k \in 0 .. N : SeqEnd[j] <= SeqEnd[k] => j <= k
  /\ \A j, k \in 0 .. N : j <= k => SeqEnd[j] <= SeqEnd[k]
<1>1. \A k \in 0 .. N : SeqEnd[k] \in Nat
  BY TcpSendAssumption
<1>2. ASSUME NEW j \in 0 .. N, NEW k \in 0 .. N, SeqEnd[j] <= SeqEnd[k]
      PROVE  j <= k
  <2>1. k < j => SeqEnd[k] < SeqEnd[j]
    BY TcpSendAssumption
  <2> QED BY <1>1, <1>2, <2>1, TcpSendAssumption
<1>3. ASSUME NEW j \in 0 .. N, NEW k \in 0 .. N, j <= k
      PROVE  SeqEnd[j] <= SeqEnd[k]
  <2>1. j < k => SeqEnd[j] < SeqEnd[k]
    BY TcpSendAssumption
  <2>2. j = k \/ j < k
    BY <1>3, TcpSendAssumption
  <2> QED BY <1>1, <2>1, <2>2
<1> QED BY <1>1, <1>2, <1>3

\* A packet has between one and MSS bytes.
LEMMA DataLenFacts ==
  ASSUME NEW k \in 1 .. N
  PROVE  DataLen(k) \in 1 .. MSS
<1>1. k - 1 \in 0 .. N /\ k \in 0 .. N /\ k - 1 < k
  BY TcpSendAssumption
<1>2. SeqEnd[k] \in Nat /\ SeqEnd[k - 1] \in Nat /\ SeqEnd[k - 1] < SeqEnd[k]
      /\ SeqEnd[k] <= SeqEnd[k - 1] + MSS
  BY <1>1, TcpSendAssumption
<1> QED BY <1>2, TcpSendAssumption DEF DataLen

\* The operations on a notification return notifications.
LEMMA WaitFacts ==
  /\ wait_init \in Wait
  /\ \A w \in Wait : wake_up(w) \in Wait /\ sleep_on(w) \in Wait /\ resume(w) \in Wait
<1>1. wait_init \in Wait
  BY DEF wait_init, Wait
<1>2. ASSUME NEW w \in Wait PROVE wake_up(w) \in Wait /\ resume(w) \in Wait
  BY DEF wake_up, resume, Wait
<1>3. ASSUME NEW w \in Wait PROVE sleep_on(w) \in Wait
  <2>1. [w EXCEPT !.sleep = TRUE] \in Wait
    BY DEF Wait
  <2> QED BY <2>1, <1>1 DEF sleep_on
<1> QED BY <1>1, <1>2, <1>3

\* The socket the handshake leaves satisfies the invariant.
LEMMA InitIInv == Init => IInv
<1> SUFFICES ASSUME Init PROVE IInv
  OBVIOUS
<1>1. cwnd \in Nat \ {0} /\ ssthresh \in Nat \ {0}
  BY TcpSendAssumption DEF Init
<1>2. snd_wnd \in 0 .. WndMod - 1
  <2>1. snd_wnd = least(PeerBuf, cwnd * MSS) /\ cwnd * MSS \in Nat
    BY <1>1, TcpSendAssumption DEF Init
  <2> QED BY <2>1, TcpSendAssumption DEF least
<1>3. TypeOK
  BY <1>1, <1>2, WaitFacts, TcpSendAssumption DEF Init, TypeOK, NoAck
<1>4. SendBufIsUnacked /\ PeerBetween /\ OnlyPut /\ Locals
  BY TcpSendAssumption DEF Init, SendBufIsUnacked, PeerBetween, first, OnlyPut, Locals
<1>5. AcksReached
  BY TcpSendAssumption DEF Init, AcksReached, AckReached, NoAck
<1> QED BY <1>3, <1>4, <1>5 DEF IInv

-----------------------------------------------------------------------------
\* A step that leaves the send list, the writer's count and the peer alone, and
\* adds nothing to the network but packets of the send list, keeps the order
\* of things.
LEMMA FrameInv ==
  ASSUME IInv, TypeOK', UNCHANGED <<bufVars, nput, got, peer_nxt>>,
         pkts' \subseteq pkts \cup {send_buf[i].pkt : i \in 1 .. Len(send_buf)},
         acks' \subseteq acks, cb' \in acks \cup {cb, NoAck},
         Locals'
  PROVE  IInv'
<1>1. UNCHANGED <<snd_una, send_buf, inflight, nput, got, peer_nxt>>
  BY DEF bufVars
<1>2. SendBufIsUnacked' /\ PeerBetween'
  BY <1>1 DEF IInv, SendBufIsUnacked, PeerBetween, first
<1>3. OnlyPut'
  <2>1. /\ Len(send_buf) \in Nat /\ nput \in Nat
        /\ nput - Len(send_buf) \in Nat
        /\ \A i \in 1 .. Len(send_buf) : send_buf[i].pkt = nput - Len(send_buf) + i
    BY TcpSendAssumption DEF IInv, TypeOK, SendBufIsUnacked
  <2>2. \A i \in 1 .. Len(send_buf) : send_buf[i].pkt \in 1 .. nput
    BY <2>1
  <2> QED BY <1>1, <2>2 DEF IInv, OnlyPut
<1>4. AcksReached'
  <2>1. \A a \in acks \cup {cb, NoAck} : AckReached(a)
    <3>1. AckReached(NoAck)
      BY TcpSendAssumption DEF AckReached, NoAck, IInv, TypeOK
    <3> QED BY <3>1 DEF IInv, AcksReached
  <2>2. \A a \in acks \cup {cb, NoAck} : \E m \in 0 .. peer_nxt' : a.ack = SeqEnd[m]
    BY <1>1, <2>1 DEF AckReached
  <2> QED BY <2>2 DEF AcksReached, AckReached
<1> QED BY <1>2, <1>3, <1>4 DEF IInv

-----------------------------------------------------------------------------
(* The application thread.                                                 *)

\* tcp_send_packet up to put_sendbuf (tcp_out.c 60-84): the packet's length is
\* taken from the u32 window modulo its width.
LEMMA WriteSendInv ==
  ASSUME IInv, WriteSend \/ WriteWnd
  PROVE  IInv'
<1>1. CASE WriteSend
  <2>1. nput + 1 \in 1 .. N /\ snd_nxt \in Nat
    <3>1. N \in Nat /\ nput < N
      BY <1>1, TcpSendAssumption DEF WriteSend
    <3>2. nput \in 0 .. N /\ snd_nxt \in Nat
      BY DEF IInv, TypeOK
    <3> QED BY <3>1, <3>2
  <2>2. snd_nxt' \in Nat
    <3>1. DataLen(nput + 1) \in Nat
      BY <2>1, DataLenFacts, TcpSendAssumption
    <3>2. snd_nxt' = snd_nxt + DataLen(nput + 1)
      BY <1>1 DEF WriteSend
    <3> QED BY <2>1, <3>1, <3>2
  <2>3. TypeOK'
    BY <1>1, <2>2 DEF IInv, TypeOK, WriteSend, windowVars, cgtVars, bufVars, netVars, peerVars
  <2>4. Locals'
    BY <1>1 DEF IInv, WriteSend, Locals, netVars
  <2> QED BY <1>1, <2>3, <2>4, FrameInv DEF WriteSend, netVars, peerVars
<1>2. CASE WriteWnd
  <2>1. nput + 1 \in 1 .. N
    BY <1>2, TcpSendAssumption DEF IInv, TypeOK, WriteWnd, Locals
  <2>2. snd_wnd' \in 0 .. WndMod - 1
    <3>1. DataLen(nput + 1) \in 1 .. MSS /\ wnd_read \in Nat
      BY <2>1, DataLenFacts, TcpSendAssumption DEF IInv, TypeOK
    <3> DEFINE w == wnd_read + WndMod - DataLen(nput + 1)
    <3>2. w \in Nat
      BY <3>1, TcpSendAssumption
    <3> HIDE DEF w
    <3>3. w % WndMod \in 0 .. WndMod - 1
      BY <3>2, TcpSendAssumption
    <3> QED BY <1>2, <3>3 DEF WriteWnd, w
  <2>3. TypeOK'
    BY <1>2, <2>2 DEF IInv, TypeOK, WriteWnd, cgtVars, bufVars, netVars, peerVars
  <2>4. Locals'
    BY <1>2 DEF IInv, WriteWnd, Locals, netVars
  <2> QED BY <1>2, <2>3, <2>4, FrameInv DEF WriteWnd, netVars, peerVars
<1> QED BY <1>1, <1>2

\* Waiting for the window to open (tcp_sock.c 392-398).
LEMMA WriteWaitInv ==
  ASSUME IInv, WriteCheck \/ WriteSleep \/ WriteResume
  PROVE  IInv'
<1>1. UNCHANGED <<snd_nxt, windowVars, cgtVars, rep_ack, bufVars, nput, wnd_read, netVars,
                  pkts, acks, peerVars>>
  BY DEF WriteCheck, WriteSleep, WriteResume
<1>2. wpc' \in {"send", "check", "to_sleep", "asleep", "done"}
  BY DEF WriteCheck, WriteSleep, WriteResume
<1>3. wait_send' \in Wait
  BY WaitFacts DEF IInv, TypeOK, WriteCheck, WriteSleep, WriteResume
<1>4. TypeOK'
  BY <1>1, <1>2, <1>3 DEF IInv, TypeOK, windowVars, cgtVars, bufVars, netVars, peerVars
<1>5. Locals'
  BY <1>1, <1>2 DEF IInv, Locals, netVars
<1> QED BY <1>1, <1>4, <1>5, FrameInv DEF netVars, peerVars

\* put_sendbuf (tcp_out.c 12-28): the next packet goes to the end of the list.
LEMMA WritePutInv ==
  ASSUME IInv, WritePut
  PROVE  IInv'
<1> DEFINE e == [pkt |-> nput + 1, times |-> 1]
           n == Len(send_buf)
<1>1. /\ send_buf' = Append(send_buf, e) /\ nput' = nput + 1 /\ inflight' = inflight + 1
      /\ pkts' = pkts \cup {nput + 1} /\ wpc' = "check"
      /\ UNCHANGED <<snd_una, got, peer_nxt, acks, npc, cb, rep_ack, peer_read, peer_state>>
  BY DEF WritePut, netVars, peerVars
<1>2. nput + 1 \in 1 .. N /\ nput \in Nat
  BY TcpSendAssumption DEF IInv, TypeOK, WritePut, Locals
<1>3. /\ send_buf' \in Seq([pkt : 1 .. N, times : 1 .. 3])
      /\ Len(send_buf') = n + 1 /\ n \in Nat
      /\ \A i \in 1 .. n : send_buf'[i] = send_buf[i]
      /\ send_buf'[n + 1] = e
  <2>1. send_buf \in Seq([pkt : 1 .. N, times : 1 .. 3]) /\ e \in [pkt : 1 .. N, times : 1 .. 3]
    BY <1>2 DEF IInv, TypeOK
  <2> HIDE DEF e
  <2> QED BY <1>1, <2>1
<1>4. TypeOK'
  <2>1. UNCHANGED <<snd_nxt, windowVars, cgtVars, wait_send, wnd_read>>
    BY DEF WritePut
  <2>2. inflight' \in Nat /\ nput' \in 0 .. N /\ pkts' \subseteq 1 .. N
    <3>1. inflight \in Nat /\ pkts \subseteq 1 .. N
      BY DEF IInv, TypeOK
    <3>2. nput + 1 \in 0 .. N
      BY <1>2, TcpSendAssumption
    <3> QED BY <3>1, <3>2, <1>1, <1>2
  <2>3. send_buf' \in Seq([pkt : 1 .. N, times : 1 .. 3])
    BY <1>3
  <2> HIDE DEF e, n
  <2> QED BY <1>1, <2>1, <2>2, <2>3 DEF IInv, TypeOK, windowVars, cgtVars
<1>5. SendBufIsUnacked' /\ PeerBetween'
  <2>1. /\ nput - n \in 0 .. N /\ snd_una = SeqEnd[nput - n] /\ inflight = n
        /\ \A i \in 1 .. n : send_buf[i].pkt = nput - n + i
        /\ nput - n <= peer_nxt /\ peer_nxt <= nput /\ peer_nxt \in Nat
    <3>1. peer_nxt \in 0 .. N /\ N \in Nat
      BY TcpSendAssumption DEF IInv, TypeOK
    <3>2. peer_nxt \in Nat
      BY <3>1
    <3> QED BY <3>2 DEF IInv, SendBufIsUnacked, PeerBetween, first
  <2> HIDE DEF n
  <2>2. nput' - (n + 1) = nput - n
    BY <1>1, <1>2, <1>3
  <2>3. \A i \in 1 .. n + 1 : send_buf'[i].pkt = nput - n + i
    <3> SUFFICES ASSUME NEW i \in 1 .. n + 1 PROVE send_buf'[i].pkt = nput - n + i
      OBVIOUS
    <3>1. CASE i \in 1 .. n
      BY <3>1, <1>3, <2>1
    <3>2. CASE i = n + 1
      BY <3>2, <1>2, <1>3
    <3> QED BY <3>1, <3>2, <1>3
  <2>4. PeerBetween'
    BY <1>1, <1>2, <1>3, <2>1, <2>2 DEF PeerBetween, first
  <2>5. SendBufIsUnacked'
    BY <1>1, <1>3, <2>1, <2>2, <2>3 DEF SendBufIsUnacked
  <2> QED BY <2>4, <2>5
<1>6. OnlyPut'
  BY <1>1, <1>2 DEF IInv, OnlyPut
<1>7. AcksReached' /\ Locals'
  BY <1>1 DEF IInv, AcksReached, AckReached, Locals
<1> QED BY <1>4, <1>5, <1>6, <1>7 DEF IInv
-----------------------------------------------------------------------------
(* The network thread.                                                     *)

\* The halved congestion window (tcp_in.c 110, tcp_timer.c 35) stays positive.
LEMMA HalfFacts == \A c \in Nat \ {0} : (c + 1) \div 2 \in Nat \ {0}
OBVIOUS

\* What a retransmission sends is in the send list (tcp_in.c 113, 147).
LEMMA ResendFacts ==
  ASSUME IInv
  PROVE  /\ ResendFirst \subseteq pkts \cup {send_buf[i].pkt : i \in 1 .. Len(send_buf)}
         /\ ResendFirst \subseteq 1 .. N
<1>1. send_buf \in Seq([pkt : 1 .. N, times : 1 .. 3]) /\ pkts \subseteq 1 .. N
  BY DEF IInv, TypeOK
<1>2. CASE send_buf = << >>
  BY <1>1, <1>2 DEF ResendFirst
<1>3. CASE send_buf # << >>
  <2>1. 1 \in 1 .. Len(send_buf) /\ Head(send_buf) = send_buf[1]
        /\ send_buf[1] \in [pkt : 1 .. N, times : 1 .. 3]
    <3> DEFINE Entry == [pkt : 1 .. N, times : 1 .. 3]
    <3>1. send_buf \in Seq(Entry)
      BY <1>1
    <3> HIDE DEF Entry
    <3>2. 1 \in 1 .. Len(send_buf) /\ Head(send_buf) = send_buf[1] /\ send_buf[1] \in Entry
      BY <3>1, <1>3
    <3> QED BY <3>2 DEF Entry
  <2>2. ResendFirst = pkts \cup {send_buf[1].pkt} /\ send_buf[1].pkt \in 1 .. N
    BY <1>3, <2>1 DEF ResendFirst
  <2> QED BY <1>1, <2>1, <2>2
<1> QED BY <1>2, <1>3

\* An acknowledgement taken from the network (tcp_in.c 94-103).
LEMMA TakeAckFacts ==
  ASSUME IInv, NEW a, TakeAck(a)
  PROVE  /\ acks' \subseteq acks /\ cb' \in acks
         /\ acks' \subseteq [ack : Nat, rwnd : 0 .. PeerBuf]
         /\ cb' \in [ack : Nat, rwnd : 0 .. PeerBuf]
BY DEF IInv, TypeOK, TakeAck

\* Repeated acknowledgements and the start of a new one (tcp_in.c 104-131).
LEMMA NetAckInv ==
  ASSUME IInv, NEW a, NetAck(a)
  PROVE  IInv'
<1>1. /\ TakeAck(a)
      /\ UNCHANGED <<snd_nxt, windowVars, bufVars, wait_send, writerVars, pkts, peerVars>>
  BY DEF NetAck, NetRepeatedOpen, NetRepeatedThird, NetRepeatedRcvr, NetRepeatedLoss,
         NetNewAck, Repeated, cgtVars
<1>2. npc' \in {"window", "fast", "pop"}
  BY DEF NetAck, NetRepeatedOpen, NetRepeatedThird, NetRepeatedRcvr, NetRepeatedLoss,
         NetNewAck
<1>4. /\ cwnd' \in Nat \ {0} /\ ssthresh' \in Nat \ {0} /\ cwnd_unit' \in Nat
      /\ cgt_state' \in {"OPEN", "RCVR", "LOSS"} /\ recovery_point' \in Nat
  <2>1. Shrunk(cwnd) \in Nat \ {0}
    BY DEF IInv, TypeOK, Shrunk
  <2>2. /\ cwnd \in Nat \ {0} /\ ssthresh \in Nat \ {0} /\ cwnd_unit \in Nat
        /\ cgt_state \in {"OPEN", "RCVR", "LOSS"} /\ recovery_point \in Nat
    BY DEF IInv, TypeOK
  <2>4. CASE NetRepeatedRcvr(a)
    BY <2>1, <2>2, <2>4 DEF NetRepeatedRcvr
  <2>5. CASE NetRepeatedOpen(a) \/ NetRepeatedThird(a) \/ NetRepeatedLoss(a) \/ NetNewAck(a)
    BY <2>2, <2>5 DEF NetRepeatedOpen, NetRepeatedThird, NetRepeatedLoss, NetNewAck, cgtVars
  <2> QED BY <2>4, <2>5 DEF NetAck
<1>5. rep_ack' \in 0 .. 3 /\ (npc' = "fast" => rep_ack' >= 2)
  <2>1. rep_ack \in 0 .. 3
    BY DEF IInv, TypeOK
  <2> QED BY <2>1 DEF NetAck, NetRepeatedOpen, NetRepeatedThird, NetRepeatedRcvr,
                      NetRepeatedLoss, NetNewAck, least
<1>7. TypeOK'
  BY <1>1, <1>2, <1>4, <1>5, TakeAckFacts
     DEF IInv, TypeOK, windowVars, bufVars, writerVars, peerVars
<1>8. Locals' /\ UNCHANGED <<bufVars, nput, got, peer_nxt, pkts>>
  BY <1>1, <1>5 DEF IInv, Locals, writerVars, peerVars
<1> QED BY <1>1, <1>7, <1>8, TakeAckFacts, FrameInv

\* Fast retransmit, the end of the pop loop, the window update, the wakeup
\* (tcp_in.c 36-51, 109-125, 141-162, 198-207).
LEMMA NetRunInv ==
  ASSUME IInv,
         NetFastRetransmit \/ NetSwitch \/ NetRecover \/ NetOpen \/ NetWindow \/ NetFlags
  PROVE  IInv'
<1>1. UNCHANGED <<snd_nxt, cwnd_unit, bufVars, writerVars, acks, peerVars>>
  BY DEF NetFastRetransmit, NetSwitch, NetRecover, NetOpen, NetWindow, NetFlags, cgtVars
<1>2. wait_send' \in Wait
  BY WaitFacts DEF IInv, TypeOK, NetFastRetransmit, NetSwitch, NetRecover, NetOpen, NetWindow,
                   NetFlags, WakeSender
<1>8. npc' \in {"idle", "rcvr", "loss", "open", "window", "flags"}
  <2>1. CASE NetSwitch
    <3>1. cgt_state \in {"OPEN", "RCVR", "LOSS"}
      BY DEF IInv, TypeOK
    <3> QED BY <2>1, <3>1 DEF NetSwitch
  <2>2. CASE NetFastRetransmit \/ NetRecover \/ NetOpen \/ NetWindow \/ NetFlags
    BY <2>2 DEF NetFastRetransmit, NetRecover, NetOpen, NetWindow, NetFlags
  <2> QED BY <2>1, <2>2
<1>9. /\ cwnd' \in Nat \ {0} /\ ssthresh' \in Nat \ {0}
      /\ cgt_state' \in {"OPEN", "RCVR", "LOSS"} /\ recovery_point' \in Nat
      /\ rep_ack' \in 0 .. 3
  <2>1. Shrunk(cwnd) \in Nat \ {0} /\ (cwnd + 1) \div 2 \in Nat \ {0}
    BY HalfFacts DEF IInv, TypeOK, Shrunk
  <2>2. /\ cwnd \in Nat \ {0} /\ ssthresh \in Nat \ {0} /\ rep_ack \in 0 .. 3
        /\ cgt_state \in {"OPEN", "RCVR", "LOSS"} /\ recovery_point \in Nat /\ snd_nxt \in Nat
    BY DEF IInv, TypeOK
  <2>3. CASE NetFastRetransmit
    <3>1. rep_ack >= 2
      BY <2>3 DEF NetFastRetransmit, IInv, Locals
    <3> QED BY <2>1, <2>2, <2>3, <3>1 DEF NetFastRetransmit
  <2>4. CASE NetSwitch \/ NetRecover \/ NetOpen \/ NetWindow \/ NetFlags
    BY <2>2, <2>4 DEF NetSwitch, NetRecover, NetOpen, NetWindow, NetFlags, cgtVars
  <2> QED BY <2>3, <2>4
<1>3. cb' \in {cb, NoAck} /\ cb' \in [ack : Nat, rwnd : 0 .. PeerBuf]
  <2>1. cb' \in {cb, NoAck}
    BY DEF NetFastRetransmit, NetSwitch, NetRecover, NetOpen, NetWindow, NetFlags
  <2>2. NoAck \in [ack : Nat, rwnd : 0 .. PeerBuf]
    BY TcpSendAssumption DEF NoAck
  <2>3. cb \in [ack : Nat, rwnd : 0 .. PeerBuf]
    BY DEF IInv, TypeOK
  <2> QED BY <2>1, <2>2, <2>3
<1>4. pkts' \subseteq pkts \cup {send_buf[i].pkt : i \in 1 .. Len(send_buf)}
      /\ pkts' \subseteq 1 .. N
  <2>1. pkts' \in {pkts, ResendFirst}
    BY DEF NetFastRetransmit, NetSwitch, NetRecover, NetOpen, NetWindow, NetFlags
  <2> QED BY <2>1, ResendFacts DEF IInv, TypeOK
<1>5. adv_wnd' \in 0 .. PeerBuf /\ snd_wnd' \in 0 .. WndMod - 1
  <2>1. CASE UNCHANGED windowVars
    BY <2>1 DEF IInv, TypeOK, windowVars
  <2>2. CASE adv_wnd' = cb.rwnd /\ snd_wnd' = least(cb.rwnd, cwnd * MSS)
    <3>1. cb.rwnd \in 0 .. PeerBuf /\ cwnd * MSS \in Nat
      BY TcpSendAssumption DEF IInv, TypeOK
    <3> QED BY <2>2, <3>1, TcpSendAssumption DEF least
  <2> QED BY <2>1, <2>2
          DEF NetFastRetransmit, NetSwitch, NetRecover, NetOpen, NetWindow, NetFlags, windowVars
<1>6. TypeOK'
  BY <1>1, <1>2, <1>8, <1>9, <1>3, <1>4, <1>5 DEF IInv, TypeOK, bufVars, writerVars, peerVars
<1>7. Locals' /\ UNCHANGED <<bufVars, nput, got, peer_nxt>>
  BY <1>1, <1>8 DEF IInv, Locals, writerVars, peerVars
<1> QED BY <1>1, <1>3, <1>4, <1>6, <1>7, FrameInv

\* tcp_pop_sendbuf (tcp_out.c 30-39, tcp_in.c 133-140): the packet popped is the
\* first one, and the acknowledgement shows that the peer has it.
LEMMA NetPopInv ==
  ASSUME IInv, NetPop
  PROVE  IInv'
<1> DEFINE Entry == [pkt : 1 .. N, times : 1 .. 3]
           n == Len(send_buf)
<1>1. /\ send_buf' = Tail(send_buf) /\ inflight' = inflight - 1
      /\ snd_una' = SeqEnd[Head(send_buf).pkt]
      /\ send_buf # << >> /\ SeqEnd[Head(send_buf).pkt] <= cb.ack
      /\ UNCHANGED <<snd_nxt, windowVars, ssthresh, cgt_state, recovery_point, rep_ack,
                     wait_send, wpc, nput, wnd_read, npc, cb, pkts, acks, got, peer_nxt,
                     peer_read, peer_state>>
  BY DEF NetPop, Covered, tcp_pop_sendbuf, writerVars, netVars, peerVars
<1>2. send_buf \in Seq(Entry)
  BY DEF IInv, TypeOK
<1>3. /\ n \in Nat \ {0} /\ send_buf' \in Seq(Entry) /\ Len(send_buf') = n - 1
      /\ \A i \in 1 .. n - 1 : send_buf'[i] = send_buf[i + 1]
      /\ Head(send_buf) = send_buf[1]
  <2> HIDE DEF Entry
  <2> QED BY <1>1, <1>2
<1> HIDE DEF Entry
<1>4. /\ n - 1 \in Nat /\ nput \in Nat /\ nput - n \in 0 .. N /\ nput \in 0 .. N
      /\ inflight = n
      /\ \A i \in 1 .. n : send_buf[i].pkt = nput - n + i
      /\ nput - n <= peer_nxt /\ peer_nxt <= nput /\ peer_nxt \in 0 .. N
  BY <1>3, TcpSendAssumption DEF IInv, SendBufIsUnacked, PeerBetween, first, TypeOK
<1> HIDE DEF n
<1>5. Head(send_buf).pkt = nput - n + 1 /\ nput - n + 1 \in 1 .. N
  <2>1. n \in Nat /\ n >= 1 /\ N \in Nat
    BY <1>3, TcpSendAssumption
  <2>2. 1 \in 1 .. n /\ nput - n + 1 \in 1 .. N
    BY <1>4, <2>1
  <2>3. send_buf[1].pkt = nput - n + 1
    BY <1>4, <2>2
  <2> QED BY <1>3, <2>2, <2>3
<1>6. nput - n + 1 <= peer_nxt
  <2>1. PICK m \in 0 .. peer_nxt : cb.ack = SeqEnd[m]
    BY DEF IInv, AcksReached, AckReached
  <2>2. m \in 0 .. N /\ nput - n + 1 \in 0 .. N
    <3>1. N \in Nat /\ peer_nxt \in 0 .. N
      BY <1>4, TcpSendAssumption
    <3> QED BY <1>5, <2>1, <3>1
  <2>4. SeqEnd[nput - n + 1] <= SeqEnd[m]
    BY <1>1, <1>5, <2>1
  <2>3. nput - n + 1 <= m
    BY <2>2, <2>4, SeqEndFacts
  <2> DEFINE f == nput - n + 1
  <2>5. f <= m /\ f \in 0 .. N /\ m \in 0 .. peer_nxt /\ peer_nxt \in 0 .. N
    BY <1>4, <2>2, <2>3, <2>1
  <2> HIDE DEF f
  <2>6. f <= peer_nxt
    BY <2>5, TcpSendAssumption
  <2> QED BY <2>6 DEF f
<1>7. nput' - Len(send_buf') = nput - n + 1
  <2>1. nput' = nput /\ Len(send_buf') = n - 1 /\ n \in Nat /\ nput \in Nat
    BY <1>1, <1>3, <1>4
  <2> QED BY <2>1
<1>8. SendBufIsUnacked'
  <2>1. \A i \in 1 .. n - 1 : send_buf'[i].pkt = nput - n + 1 + i
    <3> SUFFICES ASSUME NEW i \in 1 .. n - 1 PROVE send_buf'[i].pkt = nput - n + 1 + i
      OBVIOUS
    <3>1. i + 1 \in 1 .. n /\ send_buf'[i] = send_buf[i + 1]
      BY <1>3
    <3>2. send_buf[i + 1].pkt = nput - n + (i + 1)
      BY <1>4, <3>1
    <3> QED BY <1>3, <1>4, <3>1, <3>2
  <2>2. snd_una' = SeqEnd[nput - n + 1] /\ inflight' = n - 1
    BY <1>1, <1>4, <1>5
  <2>3. nput - n + 1 \in 0 .. N
    BY <1>5
  <2> QED BY <1>3, <1>7, <2>1, <2>2, <2>3 DEF SendBufIsUnacked
<1>9. PeerBetween'
  BY <1>1, <1>4, <1>6, <1>7 DEF PeerBetween, first
<1>10. cwnd' \in Nat \ {0} /\ cwnd_unit' \in Nat
  <2>1. cwnd \in Nat \ {0} /\ cwnd_unit \in Nat
    BY DEF IInv, TypeOK
  <2> QED BY <2>1 DEF NetPop, tcp_cwnd_inc
<1>11. TypeOK'
  <2>1. snd_una' \in Nat /\ inflight' \in Nat
    <3>1. nput - n + 1 \in 0 .. N
      BY <1>5
    <3> QED BY <1>1, <1>3, <1>4, <1>5, <3>1, SeqEndFacts
  <2> QED BY <1>1, <1>3, <1>10, <2>1 DEF IInv, TypeOK, windowVars, Entry
<1>12. OnlyPut' /\ AcksReached' /\ Locals'
  BY <1>1 DEF IInv, OnlyPut, AcksReached, AckReached, Locals
<1> QED BY <1>8, <1>9, <1>11, <1>12 DEF IInv

-----------------------------------------------------------------------------
(* The timer thread, the network and the peer.                             *)

\* A timer that runs out (tcp_timer.c 31-50) only touches the counts of the
\* entries, and sends a packet of the list.
LEMMA TimerInv ==
  ASSUME IInv, NEW i \in 1 .. Len(send_buf), TimerExpires(i)
  PROVE  IInv'
<1> DEFINE Entry == [pkt : 1 .. N, times : 1 .. 3]
<1>1. PICK t \in 1 .. 3 : send_buf' = [send_buf EXCEPT ![i].times = t]
  <2>1. send_buf \in Seq(Entry)
    BY DEF IInv, TypeOK
  <2>2. send_buf[i] \in Entry
    <3> HIDE DEF Entry
    <3> QED BY <2>1
  <2>3. send_buf[i].times \in 1 .. 3
    BY <2>2
  <2>4. CASE send_buf[i].times = 3
    BY <2>4 DEF TimerExpires, Backoff
  <2>5. CASE send_buf[i].times # 3
    <3>1. send_buf' = [send_buf EXCEPT ![i].times = send_buf[i].times + 1]
      BY <2>5 DEF TimerExpires, Backoff
    <3>2. send_buf[i].times + 1 \in 1 .. 3
      BY <2>3, <2>5
    <3> QED BY <3>1, <3>2
  <2> QED BY <2>4, <2>5
<1>2. /\ send_buf' \in Seq(Entry) /\ Len(send_buf') = Len(send_buf)
      /\ \A j \in 1 .. Len(send_buf) : send_buf'[j].pkt = send_buf[j].pkt
  <2>1. send_buf \in Seq(Entry)
    BY DEF IInv, TypeOK
  <2>2. send_buf[i] \in Entry
    <3> HIDE DEF Entry
    <3> QED BY <2>1
  <2>3. [send_buf[i] EXCEPT !.times = t] \in Entry
        /\ [send_buf[i] EXCEPT !.times = t].pkt = send_buf[i].pkt
    BY <2>2
  <2> DEFINE e == [send_buf[i] EXCEPT !.times = t]
  <2>4. send_buf' = [send_buf EXCEPT ![i] = e]
    BY <1>1
  <2>5. e \in Entry /\ e.pkt = send_buf[i].pkt
    BY <2>3
  <2> HIDE DEF Entry, e
  <2>6. send_buf' \in Seq(Entry) /\ Len(send_buf') = Len(send_buf)
        /\ \A j \in 1 .. Len(send_buf) : send_buf'[j] = IF j = i THEN e ELSE send_buf[j]
    BY <2>1, <2>4, <2>5
  <2> QED BY <2>5, <2>6
<1>3. pkts' \subseteq pkts \cup {send_buf[i].pkt}
  BY DEF TimerExpires, Backoff
<1>4. send_buf[i].pkt \in 1 .. nput /\ nput \in 0 .. N
  <2> DEFINE n == Len(send_buf)
  <2>1. n \in Nat
    BY DEF IInv, TypeOK
  <2>2. nput - n \in 0 .. N /\ nput \in 0 .. N /\ i \in 1 .. n
        /\ send_buf[i].pkt = nput - n + i
    BY DEF IInv, SendBufIsUnacked, TypeOK
  <2> HIDE DEF n
  <2>3. nput - n + i \in 1 .. nput
    BY <2>1, <2>2, TcpSendAssumption
  <2> QED BY <2>2, <2>3
<1>5. UNCHANGED <<snd_nxt, adv_wnd, cwnd_unit, rep_ack, snd_una, inflight, wait_send, wpc,
                  nput, wnd_read, npc, cb, acks, got, peer_nxt, peer_read,
                  peer_state>>
  BY DEF TimerExpires, writerVars, netVars
<1>6. /\ recovery_point' \in Nat /\ cgt_state' \in {"OPEN", "RCVR", "LOSS"}
      /\ ssthresh' \in Nat \ {0} /\ cwnd' \in Nat \ {0} /\ snd_wnd' \in 0 .. WndMod - 1
  <2>1. /\ recovery_point \in Nat /\ snd_nxt \in Nat /\ cwnd \in Nat \ {0}
        /\ cgt_state \in {"OPEN", "RCVR", "LOSS"}
    BY DEF IInv, TypeOK
  <2>2. (cwnd + 1) \div 2 \in Nat \ {0}
    BY <2>1, HalfFacts
  <2>3. MSS \in 0 .. WndMod - 1
    BY TcpSendAssumption
  <2> QED BY <2>1, <2>2, <2>3 DEF TimerExpires
<1>7. OnlyPut'
  BY <1>3, <1>4, <1>5 DEF IInv, OnlyPut
<1>8. TypeOK'
  <2>1. pkts' \subseteq 1 .. N
    <3>1. pkts \subseteq 1 .. N
      BY DEF IInv, TypeOK
    <3>2. send_buf[i].pkt \in 1 .. N
      BY <1>4, TcpSendAssumption
    <3> QED BY <1>3, <3>1, <3>2
  <2> QED BY <1>2, <1>5, <1>6, <2>1 DEF IInv, TypeOK
<1>9. SendBufIsUnacked' /\ PeerBetween'
  <2> DEFINE n == Len(send_buf)
  <2>1. /\ inflight = n /\ nput - n \in 0 .. N /\ snd_una = SeqEnd[nput - n]
        /\ \A j \in 1 .. n : send_buf[j].pkt = nput - n + j
    BY DEF IInv, SendBufIsUnacked
  <2>2. Len(send_buf') = n /\ \A j \in 1 .. n : send_buf'[j].pkt = send_buf[j].pkt
    BY <1>2
  <2> HIDE DEF n
  <2>3. SendBufIsUnacked'
    BY <1>5, <2>1, <2>2 DEF SendBufIsUnacked
  <2> QED BY <1>2, <1>5, <2>3 DEF IInv, PeerBetween, first
<1>10. AcksReached' /\ Locals'
  BY <1>5 DEF IInv, AcksReached, AckReached, Locals
<1> QED BY <1>7, <1>8, <1>9, <1>10 DEF IInv
\* Losses.
LEMMA LossInv ==
  ASSUME IInv, LoseAck \/ LosePacket
  PROVE  IInv'
<1>1. UNCHANGED <<snd_nxt, windowVars, cgtVars, rep_ack, bufVars, wait_send, writerVars,
                  netVars, peerVars>>
      /\ pkts' \subseteq pkts /\ acks' \subseteq acks
  BY DEF LoseAck, LosePacket
<1>2. TypeOK'
  BY <1>1 DEF IInv, TypeOK, windowVars, cgtVars, bufVars, writerVars, netVars, peerVars
<1>3. Locals'
  BY <1>1 DEF IInv, Locals, writerVars, netVars
<1> QED BY <1>1, <1>2, <1>3, FrameInv DEF writerVars, netVars, peerVars

\* The peer (tcp_in.c 220-271) only moves on over packets that were put, and its
\* acknowledgement is the end of the last of them.
LEMMA PeerTakesInv ==
  ASSUME IInv, NEW k \in 1 .. N, PeerTakes(k)
  PROVE  IInv'
<1>1. PICK m \in peer_nxt .. N, r \in peer_read .. N :
        /\ peer_nxt + 1 .. m \subseteq got' /\ r <= m
        /\ SeqEnd[m] - SeqEnd[r] <= PeerBuf
        /\ peer_nxt' = m /\ peer_read' = r
        /\ acks' \subseteq acks \cup {[ack |-> SeqEnd[m],
                                       rwnd |-> PeerBuf - (SeqEnd[m] - SeqEnd[r])]}
  <2> DEFINE new(m, r) == [ack |-> SeqEnd[m], rwnd |-> PeerBuf - (SeqEnd[m] - SeqEnd[r])]
  <2> HIDE DEF new
  <2>1. PICK m \in peer_nxt .. N, r \in peer_read .. N :
          /\ peer_nxt + 1 .. m \subseteq got' /\ r <= m
          /\ SeqEnd[m] - SeqEnd[r] <= PeerBuf
          /\ peer_nxt' = m /\ peer_read' = r
          /\ acks' = IF Cardinality(acks) >= AckRoom THEN acks ELSE acks \cup {new(m, r)}
    BY DEF PeerTakes, new
  <2>2. acks' \subseteq acks \cup {new(m, r)}
    BY <2>1
  <2> QED BY <2>1, <2>2 DEF new
<1>2. /\ UNCHANGED <<snd_nxt, windowVars, cgtVars, rep_ack, bufVars, wait_send, writerVars,
                     netVars>>
      /\ k \in pkts /\ got' \subseteq got \cup {k} /\ pkts' \subseteq pkts
  BY DEF PeerTakes
<1>3. /\ peer_nxt \in 0 .. N /\ peer_read \in 0 .. N /\ nput \in 0 .. N
      /\ got \subseteq 1 .. nput /\ pkts \subseteq 1 .. nput /\ N \in Nat
      /\ peer_nxt <= nput
  BY TcpSendAssumption DEF IInv, TypeOK, OnlyPut, PeerBetween
<1>4. got' \subseteq 1 .. nput /\ pkts' \subseteq 1 .. nput
  BY <1>2, <1>3
<1>5. m \in 0 .. N /\ r \in 0 .. N /\ peer_nxt <= m
  BY <1>1, <1>3
<1>6. m <= nput
  <2>1. CASE m = peer_nxt
    BY <2>1, <1>3
  <2>2. CASE m # peer_nxt
    <3>1. m \in peer_nxt + 1 .. m
      BY <2>2, <1>3, <1>5
    <3>2. m \in 1 .. nput
      BY <3>1, <1>1, <1>4
    <3> QED BY <3>2, <1>3
  <2> QED BY <2>1, <2>2
<1>7. [ack |-> SeqEnd[m], rwnd |-> PeerBuf - (SeqEnd[m] - SeqEnd[r])]
        \in [ack : Nat, rwnd : 0 .. PeerBuf]
  <2>1. SeqEnd[m] \in Nat /\ SeqEnd[r] \in Nat /\ SeqEnd[r] <= SeqEnd[m]
    BY <1>1, <1>5, SeqEndFacts
  <2>2. SeqEnd[m] - SeqEnd[r] \in 0 .. PeerBuf /\ PeerBuf \in Nat
    <3>1. SeqEnd[m] - SeqEnd[r] <= PeerBuf
      BY <1>1
    <3>2. PeerBuf \in Nat
      BY TcpSendAssumption
    <3> QED BY <2>1, <3>1, <3>2
  <2>3. PeerBuf - (SeqEnd[m] - SeqEnd[r]) \in 0 .. PeerBuf
    BY <2>2
  <2> QED BY <2>1, <2>3
<1>8. TypeOK'
  <2>1. acks' \subseteq [ack : Nat, rwnd : 0 .. PeerBuf]
    BY <1>1, <1>7 DEF IInv, TypeOK
  <2>2. got' \subseteq 1 .. N /\ pkts' \subseteq 1 .. N
    BY <1>3, <1>4
  <2>3. peer_nxt' \in 0 .. N /\ peer_read' \in 0 .. N
    BY <1>1, <1>5
  <2>4. peer_state' \in {"linked", "bypassed", "freed", "failed"}
    BY DEF PeerTakes, HeadAfter, IInv, TypeOK
  <2> QED BY <1>2, <2>1, <2>2, <2>3, <2>4
          DEF IInv, TypeOK, windowVars, cgtVars, bufVars, writerVars, netVars
<1>9. SendBufIsUnacked' /\ Locals'
  BY <1>2 DEF IInv, SendBufIsUnacked, Locals, bufVars, writerVars, netVars
<1>10. PeerBetween'
  <2>1. first' = first /\ first <= peer_nxt /\ first \in 0 .. N /\ nput' = nput
    BY <1>2 DEF IInv, PeerBetween, SendBufIsUnacked, first, bufVars, writerVars
  <2>2. first <= m
    BY <2>1, <1>3, <1>5
  <2> QED BY <1>1, <1>6, <2>1, <2>2 DEF PeerBetween
<1>11. OnlyPut'
  BY <1>2, <1>4 DEF OnlyPut, writerVars
<1>12. AcksReached'
  <2>1. \A a \in acks \cup {cb} : \E j \in 0 .. peer_nxt' : a.ack = SeqEnd[j]
    <3> SUFFICES ASSUME NEW a \in acks \cup {cb}
                 PROVE  \E j \in 0 .. peer_nxt' : a.ack = SeqEnd[j]
      OBVIOUS
    <3>1. PICK j \in 0 .. peer_nxt : a.ack = SeqEnd[j]
      BY DEF IInv, AcksReached, AckReached
    <3>2. j \in 0 .. peer_nxt'
      BY <1>1, <1>3, <1>5
    <3> QED BY <3>1, <3>2
  <2>2. m \in 0 .. peer_nxt'
    BY <1>1, <1>5
  <2>3. cb' = cb
    BY <1>2 DEF netVars
  <2>4. \A a \in acks' : AckReached(a)'
    <3> SUFFICES ASSUME NEW a \in acks'
                 PROVE  \E j \in 0 .. peer_nxt' : a.ack = SeqEnd[j]
      BY DEF AckReached
    <3>1. CASE a \in acks
      BY <3>1, <2>1
    <3>2. CASE a \notin acks
      <4>1. a.ack = SeqEnd[m]
        BY <3>2, <1>1
      <4> QED BY <4>1, <2>2
    <3> QED BY <3>1, <3>2
  <2> QED BY <2>1, <2>3, <2>4 DEF AcksReached, AckReached
<1> QED BY <1>8, <1>9, <1>10, <1>11, <1>12 DEF IInv

\* A peer that fails leaves the sender alone.
LEMMA PeerFailsInv ==
  ASSUME IInv, NEW k \in 1 .. N, PeerFails(k)
  PROVE  IInv'
<1>1. UNCHANGED <<snd_nxt, windowVars, cgtVars, rep_ack, bufVars, wait_send, writerVars,
                  netVars, acks, got, peer_nxt, peer_read, timeouts>>
      /\ pkts' \subseteq pkts /\ peer_state' = "failed"
  BY DEF PeerFails
<1>2. TypeOK'
  BY <1>1 DEF IInv, TypeOK, windowVars, cgtVars, bufVars, writerVars, netVars
<1>3. Locals'
  BY <1>1 DEF IInv, Locals, writerVars, netVars
<1> QED BY <1>1, <1>2, <1>3, FrameInv DEF writerVars, netVars

-----------------------------------------------------------------------------
\* Every step keeps the invariant.
LEMMA NextIInv == IInv /\ [LiveNext]_vars => IInv'
<1> SUFFICES ASSUME IInv, [LiveNext]_vars PROVE IInv'
  OBVIOUS
<1>1. CASE Write \/ WriteResume
  BY <1>1, WriteSendInv, WriteWaitInv, WritePutInv DEF Write
<1>2. CASE \E a \in acks : NetAck(a)
  BY <1>2, NetAckInv
<1>3. CASE NetRun
  BY <1>3, NetPopInv, NetRunInv DEF NetRun
<1>4. CASE LoseAck \/ LosePacket
  BY <1>4, LossInv
<1>5. CASE \E k \in 1 .. N : PeerReceive(k)
  BY <1>5, PeerTakesInv, PeerFailsInv DEF PeerReceive
<1>6. CASE Timer
  BY <1>6, TimerInv DEF Timer
<1>7. CASE UNCHANGED vars
  <2>1. UNCHANGED <<bufVars, nput, got, peer_nxt, pkts, acks, cb>>
    BY <1>7 DEF vars, writerVars, netVars, peerVars
  <2>2. TypeOK'
    BY <1>7 DEF vars, windowVars, cgtVars, bufVars, writerVars, netVars, peerVars, IInv, TypeOK
  <2>3. Locals'
    BY <1>7 DEF vars, cgtVars, writerVars, netVars, peerVars, IInv, Locals
  <2> QED BY <2>1, <2>2, <2>3, FrameInv
<1> QED BY <1>1, <1>2, <1>3, <1>4, <1>5, <1>6, <1>7 DEF LiveNext, Others

\* IInv holds in every state the send path of prj14 reaches.
THEOREM Invariance == Spec => []IInv
<1>1. [Next]_vars => [LiveNext]_vars
  BY DEF Next, LiveNext
<1> QED BY <1>1, InitIInv, NextIInv, PTL DEF Spec

\* The variables of the send path keep their types whatever is lost, delayed or
\* reordered (tcp_in.c 36-162, tcp_out.c 12-84, tcp_timer.c 31-50).
THEOREM TypeCorrect == Spec => []TypeOK
<1>1. IInv => TypeOK
  BY DEF IInv
<1> QED BY <1>1, Invariance, PTL

\* send_buf is the packets from snd_una on, in order, and inflight their number
\* (tcp_out.c 22-38, tcp_in.c 133-140).
THEOREM SendBufCorrect == Spec => []SendBufIsUnacked
<1>1. IInv => SendBufIsUnacked
  BY DEF IInv
<1> QED BY <1>1, Invariance, PTL

\* A packet leaves send_buf only when the peer has it and all before it
\* (tcp_in.c 133-140).
THEOREM NothingForgottenCorrect == Spec => []NothingForgotten
<1>1. IInv => NothingForgotten
  <2> SUFFICES ASSUME IInv, NEW k \in 1 .. nput, k > peer_nxt
               PROVE  \E i \in 1 .. Len(send_buf) : send_buf[i].pkt = k
    BY DEF NothingForgotten
  <2> DEFINE n == Len(send_buf)
  <2>1. n \in Nat
    BY DEF IInv, TypeOK
  <2>2. /\ nput - n \in 0 .. N /\ nput \in 0 .. N /\ peer_nxt \in 0 .. N
        /\ nput - n <= peer_nxt
        /\ \A i \in 1 .. n : send_buf[i].pkt = nput - n + i
    BY DEF IInv, SendBufIsUnacked, PeerBetween, first, TypeOK
  <2> HIDE DEF n
  <2>3. k - (nput - n) \in 1 .. n
    BY <2>1, <2>2, TcpSendAssumption
  <2>4. send_buf[k - (nput - n)].pkt = k
    <3>1. nput - n + (k - (nput - n)) = k
      BY <2>1, <2>2
    <3> QED BY <2>2, <2>3, <3>1
  <2> QED BY <2>3, <2>4 DEF n
<1> QED BY <1>1, Invariance, PTL

-----------------------------------------------------------------------------
(* No wakeup of the writer is lost.                                        *)

\* What is counted as sent has been put, but for the packet being sent.
NextIsPut == snd_nxt = SeqEnd[IF wpc \in {"wnd", "put"} THEN nput + 1 ELSE nput]

\* A recovery waits for nothing that is not sent yet.
RecoverySent == recovery_point <= snd_nxt

\* Where the network thread is, and what is left for a writer that sleeps: an
\* empty list only if the acknowledgement that emptied it ends the recovery.
WakeupAhead ==
  Slept => /\ npc = "idle" => send_buf # << >> /\ (WindowClosed \/ cgt_state # "OPEN")
           /\ npc = "fast" => send_buf # << >>
           /\ npc \in {"pop", "rcvr", "loss"} => send_buf # << >> \/ snd_una <= cb.ack
           /\ npc \in {"window", "flags"} => send_buf # << >> \/ cgt_state = "OPEN"

SleepInv == NextIsPut /\ RecoverySent /\ WakeupAhead

\* The list is empty when the count of packets in flight is 0, so a closed
\* window has something behind it.
LEMMA ClosedFacts == ASSUME IInv, WindowClosed PROVE send_buf # << >>
<1> SUFFICES ASSUME send_buf = << >> PROVE FALSE
  OBVIOUS
<1>1. inflight = 0
  BY DEF IInv, SendBufIsUnacked
<1>2. snd_wnd \in Nat /\ MSS \in Nat
  BY TcpSendAssumption DEF IInv, TypeOK
<1>3. MSS * inflight = 0
  BY <1>1, <1>2
<1> QED BY <1>2, <1>3 DEF WindowClosed

LEMMA InitSleepInv == Init => SleepInv
<1> SUFFICES ASSUME Init PROVE SleepInv
  OBVIOUS
<1>1. NextIsPut /\ RecoverySent
  BY TcpSendAssumption DEF Init, NextIsPut, RecoverySent
<1>2. ~Slept
  BY DEF Init, Slept
<1> QED BY <1>1, <1>2 DEF SleepInv, WakeupAhead

\* The writer counts a packet, puts it, and goes to sleep only with something
\* in the list (tcp_out.c 60-84, tcp_sock.c 392-398).
LEMMA WriteSleepInv ==
  ASSUME IInv, SleepInv, Write \/ WriteResume
  PROVE  SleepInv'
<1>1. CASE WriteSend
  <2>1. /\ nput \in 0 .. N /\ nput + 1 \in 0 .. N /\ N \in Nat /\ snd_nxt = SeqEnd[nput]
        /\ nput + 1 - 1 = nput
    BY <1>1, TcpSendAssumption DEF IInv, TypeOK, SleepInv, NextIsPut, WriteSend
  <2>2. SeqEnd[nput] \in Nat /\ SeqEnd[nput + 1] \in Nat /\ SeqEnd[nput] <= SeqEnd[nput + 1]
    BY <2>1, SeqEndFacts
  <2>3. /\ snd_nxt' = snd_nxt + DataLen(nput + 1) /\ wpc' = "wnd"
        /\ nput' = nput /\ recovery_point' = recovery_point
    BY <1>1 DEF WriteSend, cgtVars
  <2>4. DataLen(nput + 1) = SeqEnd[nput + 1] - SeqEnd[nput]
    BY <2>1 DEF DataLen
  <2>5. snd_nxt' = SeqEnd[nput + 1] /\ snd_nxt <= snd_nxt'
    BY <2>1, <2>2, <2>3, <2>4
  <2>6. NextIsPut'
    BY <2>3, <2>5 DEF NextIsPut
  <2>7. RecoverySent'
    <3>1. recovery_point \in Nat /\ recovery_point <= snd_nxt
      BY DEF IInv, TypeOK, SleepInv, RecoverySent
    <3> QED BY <2>1, <2>2, <2>3, <2>5, <3>1 DEF RecoverySent
  <2>8. WakeupAhead'
    BY <2>3 DEF WakeupAhead, Slept
  <2> QED BY <2>6, <2>7, <2>8 DEF SleepInv
<1>2. CASE WriteWnd \/ WritePut
  <2>1. /\ UNCHANGED <<snd_nxt, recovery_point>>
        /\ \/ wpc = "wnd" /\ wpc' = "put" /\ nput' = nput
           \/ wpc = "put" /\ wpc' = "check" /\ nput' = nput + 1
    BY <1>2 DEF WriteWnd, WritePut, cgtVars
  <2>2. NextIsPut' /\ RecoverySent' /\ WakeupAhead'
    BY <2>1 DEF SleepInv, NextIsPut, RecoverySent, WakeupAhead, Slept
  <2> QED BY <2>2 DEF SleepInv
<1>3. CASE WriteCheck \/ WriteSleep \/ WriteResume
  <2>1. /\ UNCHANGED <<snd_nxt, recovery_point, nput, npc, cb, snd_una, send_buf, inflight,
                       snd_wnd, cgt_state>>
        /\ wpc \notin {"wnd", "put"} /\ wpc' \notin {"wnd", "put"}
    BY <1>3 DEF WriteCheck, WriteSleep, WriteResume, cgtVars, netVars, bufVars, windowVars
  <2>2. NextIsPut' /\ RecoverySent'
    BY <2>1 DEF SleepInv, NextIsPut, RecoverySent
  <2>3. WindowClosed' <=> WindowClosed
    BY <2>1 DEF WindowClosed
  <2>4. CASE WriteCheck
    <3>1. Slept' => WindowClosed
      BY <2>4 DEF WriteCheck, Slept
    <3> QED BY <2>1, <2>2, <2>3, <3>1, ClosedFacts DEF SleepInv, WakeupAhead
  <2>5. CASE WriteSleep
    <3>1. Slept' => Slept
      BY <2>5 DEF WriteSleep, Slept, Returns
    <3> QED BY <2>1, <2>2, <2>3, <3>1 DEF SleepInv, WakeupAhead
  <2>6. CASE WriteResume
    <3>1. ~Slept'
      BY <2>6 DEF WriteResume, Slept
    <3> QED BY <2>2, <3>1 DEF SleepInv, WakeupAhead
  <2> QED BY <1>3, <2>4, <2>5, <2>6
<1> QED BY <1>1, <1>2, <1>3 DEF Write

\* An acknowledgement is taken while the list is not empty (tcp_in.c 94-131).
LEMMA AckSleepInv ==
  ASSUME IInv, SleepInv, NEW a, NetAck(a)
  PROVE  SleepInv'
<1>1. /\ npc = "idle" /\ npc' \in {"window", "fast", "pop"}
      /\ UNCHANGED <<snd_nxt, recovery_point, nput, wpc, wait_send, send_buf>>
  BY DEF NetAck, NetRepeatedOpen, NetRepeatedThird, NetRepeatedRcvr, NetRepeatedLoss, NetNewAck,
         Repeated, TakeAck, cgtVars, bufVars, writerVars
<1>2. NextIsPut' /\ RecoverySent'
  <2>1. snd_nxt \in Nat
    BY DEF IInv, TypeOK
  <2> QED BY <1>1, <2>1 DEF SleepInv, NextIsPut, RecoverySent
<1>3. WakeupAhead'
  BY <1>1 DEF SleepInv, WakeupAhead, Slept
<1> QED BY <1>2, <1>3 DEF SleepInv

\* The handler: an acknowledgement that empties the list covers all that was
\* sent, so it ends the recovery, and the end of it wakes the writer
\* (tcp_in.c 132-158, 36-51, 205-207).
LEMMA RunSleepInv ==
  ASSUME IInv, SleepInv, NetRun
  PROVE  SleepInv'
<1>1. UNCHANGED <<snd_nxt, nput, wpc>> /\ recovery_point' \in {recovery_point, snd_nxt}
  BY DEF NetRun, NetFastRetransmit, NetPop, NetSwitch, NetRecover, NetOpen, NetWindow, NetFlags,
         cgtVars, writerVars
<1>2. NextIsPut' /\ RecoverySent'
  <2>1. snd_nxt \in Nat
    BY DEF IInv, TypeOK
  <2> QED BY <1>1, <2>1 DEF SleepInv, NextIsPut, RecoverySent
<1>7. CASE NetFastRetransmit
  <2>1. npc = "fast" /\ npc' = "window" /\ UNCHANGED <<send_buf, wait_send>>
    BY <1>7 DEF NetFastRetransmit, bufVars
  <2> QED BY <1>1, <1>2, <2>1 DEF SleepInv, WakeupAhead, Slept
<1>8. CASE NetSwitch
  <2>1. /\ npc = "pop" /\ UNCHANGED <<send_buf, wait_send, cgt_state, snd_una, cb>>
        /\ \/ npc' = "window" /\ cgt_state = "OPEN"
           \/ npc' \in {"rcvr", "loss"}
    <3>1. cgt_state \in {"OPEN", "RCVR", "LOSS"}
      BY DEF IInv, TypeOK
    <3> QED BY <1>8, <3>1 DEF NetSwitch, bufVars, cgtVars
  <2> QED BY <1>1, <1>2, <2>1 DEF SleepInv, WakeupAhead, Slept
<1>9. CASE NetOpen
  <2>1. npc' = "window" /\ cgt_state' = "OPEN"
    BY <1>9 DEF NetOpen
  <2> QED BY <1>2, <2>1 DEF SleepInv, WakeupAhead
<1>3. CASE NetPop
  <2>1. snd_una' <= cb'.ack /\ npc' = "pop" /\ npc = "pop" /\ wait_send' = wait_send
    BY <1>3 DEF NetPop, Covered, netVars
  <2> QED BY <1>1, <1>2, <2>1 DEF SleepInv, WakeupAhead, Slept
<1>4. CASE NetRecover
  <2>1. /\ npc \in {"rcvr", "loss"} /\ UNCHANGED <<wait_send, send_buf>>
        /\ npc' = "open" \/ (npc' = "window" /\ ~Recovered)
    BY <1>4 DEF NetRecover, bufVars
  <2>2. ASSUME Slept, send_buf = << >> PROVE Recovered
    <3>1. snd_nxt = SeqEnd[nput]
      BY <2>2 DEF SleepInv, NextIsPut, Slept
    <3>2. snd_una = SeqEnd[nput]
      <4>1. Len(send_buf) = 0 /\ nput \in Nat
        BY <2>2, TcpSendAssumption DEF IInv, TypeOK
      <4> QED BY <4>1 DEF IInv, SendBufIsUnacked
    <3>3. snd_una <= cb.ack
      BY <2>1, <2>2 DEF SleepInv, WakeupAhead
    <3>4. recovery_point \in Nat /\ snd_nxt \in Nat /\ cb.ack \in Nat /\ recovery_point <= snd_nxt
      BY DEF IInv, TypeOK, SleepInv, RecoverySent
    <3>5. recovery_point <= cb.ack
      BY <3>1, <3>2, <3>3, <3>4
    <3> QED BY <3>5 DEF Recovered
  <2>3. WakeupAhead'
    BY <1>1, <2>1, <2>2 DEF WakeupAhead, Slept
  <2> QED BY <1>2, <2>3 DEF SleepInv
<1>5. CASE NetWindow
  <2>1. npc = "window" /\ npc' = "flags" /\ UNCHANGED <<send_buf, cgt_state>>
    BY <1>5 DEF NetWindow, bufVars, cgtVars
  <2>2. wait_send' = wait_send \/ wait_send'.notified
    BY <1>5 DEF NetWindow, wake_up, IInv, TypeOK, Wait
  <2>3. Slept' => Slept
    BY <1>1, <2>2 DEF Slept
  <2> QED BY <1>2, <2>1, <2>3 DEF SleepInv, WakeupAhead
<1>6. CASE NetFlags
  <2>1. npc = "flags" /\ npc' = "idle" /\ UNCHANGED <<send_buf, cgt_state>> /\ wait_send' = WakeSender
    BY <1>6 DEF NetFlags, bufVars, cgtVars
  <2>2. cgt_state = "OPEN" => wait_send'.notified
    BY <2>1 DEF WakeSender, wake_up, IInv, TypeOK, Wait
  <2>3. cgt_state # "OPEN" => wait_send' = wait_send
    BY <2>1 DEF WakeSender
  <2>4. Slept' => Slept /\ cgt_state # "OPEN"
    BY <1>1, <2>2, <2>3 DEF Slept
  <2> QED BY <1>2, <2>1, <2>4 DEF SleepInv, WakeupAhead
<1> QED BY <1>3, <1>4, <1>5, <1>6, <1>7, <1>8, <1>9 DEF NetRun

\* A timer that runs out is the one of a packet in the list, and what it begins is
\* a recovery (tcp_timer.c 31-50).
LEMMA TimerSleepInv ==
  ASSUME IInv, SleepInv, NEW i \in 1 .. Len(send_buf), TimerExpires(i)
  PROVE  SleepInv'
<1>1. /\ recovery_point' \in {recovery_point, snd_nxt} /\ cgt_state' = "LOSS"
      /\ UNCHANGED <<snd_nxt, nput, wpc, wait_send, npc>>
  BY DEF TimerExpires, writerVars, netVars
<1>2. NextIsPut' /\ RecoverySent'
  <2>1. snd_nxt \in Nat
    BY DEF IInv, TypeOK
  <2> QED BY <1>1, <2>1 DEF SleepInv, NextIsPut, RecoverySent
<1>3. send_buf' # << >>
  <2>1. send_buf \in Seq([pkt : 1 .. N, times : 1 .. 3]) /\ DOMAIN send_buf = 1 .. Len(send_buf)
    BY DEF IInv, TypeOK
  <2>2. DOMAIN send_buf' = DOMAIN send_buf
    BY DEF TimerExpires, Backoff
  <2>3. i \in DOMAIN send_buf'
    BY <2>1, <2>2
  <2> QED BY <2>3
<1>4. WakeupAhead'
  BY <1>1, <1>3 DEF WakeupAhead
<1> QED BY <1>2, <1>4 DEF SleepInv

\* Every step keeps that something wakes the writer.
LEMMA NextSleepInv == IInv /\ SleepInv /\ [LiveNext]_vars => SleepInv'
<1> SUFFICES ASSUME IInv, SleepInv, [LiveNext]_vars PROVE SleepInv'
  OBVIOUS
<1>1. CASE Write \/ WriteResume
  BY <1>1, WriteSleepInv
<1>2. CASE \E a \in acks : NetAck(a)
  BY <1>2, AckSleepInv
<1>3. CASE NetRun
  BY <1>3, RunSleepInv
<1>4. CASE Timer
  BY <1>4, TimerSleepInv DEF Timer
<1>5. CASE LoseAck \/ LosePacket \/ (\E k \in 1 .. N : PeerReceive(k)) \/ UNCHANGED vars
  <2>1. UNCHANGED <<snd_nxt, windowVars, cgtVars, bufVars, wait_send, writerVars, netVars>>
    BY <1>5 DEF LoseAck, LosePacket, PeerReceive, PeerTakes, PeerFails, vars
  <2>2. UNCHANGED <<snd_nxt, snd_wnd, cgt_state, recovery_point, snd_una, send_buf, inflight,
                    wait_send, wpc, nput, npc, cb>>
    BY <2>1 DEF windowVars, cgtVars, bufVars, writerVars, netVars
  <2>3. (WindowClosed' <=> WindowClosed) /\ (Slept' <=> Slept)
    BY <2>2 DEF WindowClosed, Slept
  <2>4. NextIsPut' /\ RecoverySent'
    BY <2>2 DEF SleepInv, NextIsPut, RecoverySent
  <2>5. WakeupAhead'
    BY <2>2, <2>3 DEF SleepInv, WakeupAhead
  <2> QED BY <2>4, <2>5 DEF SleepInv
<1> QED BY <1>1, <1>2, <1>3, <1>4, <1>5 DEF LiveNext, Others

\* A writer that sleeps has packets that are not acknowledged, hence a timer and an
\* acknowledgement to come, and sleeps for a closed window or a recovery; with as
\* many losses and timeouts as there may be (tcp_sock.c 392-398, tcp_in.c 43, 206).
THEOREM SleeperIsDueCorrect ==
  /\ Spec => []SleeperIsDue
  /\ LiveSpec => []SleeperIsDue
<1>1. IInv /\ SleepInv => SleeperIsDue
  BY DEF SleepInv, WakeupAhead, SleeperIsDue
<1>2. [Next]_vars => [LiveNext]_vars
  BY DEF Next, LiveNext
<1>3. Init /\ [][LiveNext]_vars => []SleeperIsDue
  BY <1>1, InitIInv, NextIInv, InitSleepInv, NextSleepInv, PTL
<1>4. Spec => []SleeperIsDue
  BY <1>2, <1>3, PTL DEF Spec
<1>5. LiveSpec => []SleeperIsDue
  BY <1>3, PTL DEF LiveSpec
<1> QED BY <1>4, <1>5
=============================================================================
