------------------------------ MODULE TcpSend ------------------------------
(***************************************************************************)
(* The send path of one established connection of prj14: the application   *)
(* thread in tcp_sock_write and tcp_send_packet, the network thread in the *)
(* ACK part of tcp_process (window, fast retransmit, fast recovery), and   *)
(* the timer thread in tcp_scan_timer_list, over a network that loses,     *)
(* delays and reorders, to a peer that runs the receive path of TcpRecv:   *)
(* it acknowledges cumulatively, loses the early packets that path loses,  *)
(* and fails where that path does.                                         *)
(*                                                                         *)
(* The data is cut into the packets 1 .. N; packet k ends at byte          *)
(* SeqEnd[k].  Sequence numbers are offsets from the first byte.           *)
(*                                                                         *)
(* Steps: snd_wnd, snd_nxt, send_buf and cgt_state are shared without a    *)
(* common lock.  The read and the write of `snd_wnd -= len` are two steps; *)
(* in the ACK handler, reading cgt_state, testing what it depends on and   *)
(* storing it are steps of their own, and so is what is between two more   *)
(* of its shared accesses.                                                 *)
(***************************************************************************)
EXTENDS Naturals, Sequences, SequencesExt, FiniteSets, SynchWait

CONSTANTS N,          \* packets the application's writes are cut into
          SeqEnd,     \* where each ends
          MSS,        \* the longest packet
          WndMod,     \* 2^32: snd_wnd is a u32
          PeerBuf,    \* TCP_DEFAULT_WINDOW of the peer
          Cwnds,      \* values of cwnd and ssthresh to start from
          AckRoom,    \* bound: acknowledgements in the network at a time
          MaxTimeouts \* bound: timers that run out

ASSUME TcpSendAssumption ==
  /\ N \in Nat /\ MSS \in Nat \ {0} /\ PeerBuf \in Nat
  /\ AckRoom \in Nat /\ MaxTimeouts \in Nat
  /\ SeqEnd \in [0 .. N -> Nat] /\ SeqEnd[0] = 0
  /\ \A j, k \in 0 .. N : j < k => SeqEnd[j] < SeqEnd[k]
  /\ \A k \in 1 .. N : SeqEnd[k] <= SeqEnd[k - 1] + MSS
  /\ WndMod \in Nat /\ WndMod > PeerBuf /\ WndMod > MSS
  /\ Cwnds \subseteq Nat \ {0}

VARIABLES
  snd_una, snd_nxt,          \* first byte not acknowledged, next byte to send
  send_buf,                  \* packets not acknowledged, oldest first
  inflight,                  \* how many they are
  snd_wnd, adv_wnd,          \* u32 window, window the peer advertised
  cwnd, cwnd_unit, ssthresh, \* congestion window, in packets
  cgt_state, rep_ack, recovery_point,
  wait_send,
  wpc, nput, wnd_read,       \* application thread: where, packets put, local
  npc, cb,                   \* network thread: where, its segment
  pkts, acks,                \* the network
  got, peer_nxt, peer_read,  \* peer: packets it has, leading ones, ones read
  peer_state,                \* ofo_head of TcpRecv, or "failed": it receives no more
  timeouts                   \* counts to MaxTimeouts, for the bound only

windowVars == <<snd_wnd, adv_wnd>>
cgtVars    == <<cwnd, cwnd_unit, ssthresh, cgt_state, recovery_point>>
bufVars    == <<snd_una, send_buf, inflight>>
writerVars == <<wpc, nput, wnd_read>>
netVars    == <<npc, cb>>
peerVars   == <<got, peer_nxt, peer_read, peer_state, timeouts>>
vars == <<snd_nxt, windowVars, cgtVars, rep_ack, bufVars, wait_send, writerVars, netVars,
          pkts, acks, peerVars>>

least(a, b) == IF a < b THEN a ELSE b
DataLen(k)  == SeqEnd[k] - SeqEnd[k - 1]
NoAck == [ack |-> 0, rwnd |-> 0]

Init ==
  /\ snd_una = 0 /\ snd_nxt = 0
  /\ send_buf = << >> /\ inflight = 0
  /\ cwnd \in Cwnds /\ ssthresh \in Cwnds /\ cwnd_unit = 0
  /\ adv_wnd = PeerBuf /\ snd_wnd = least(PeerBuf, cwnd * MSS)
  /\ cgt_state = "OPEN" /\ rep_ack = 0 /\ recovery_point = 0
  /\ wait_send = wait_init
  /\ wpc = "send" /\ nput = 0 /\ wnd_read = 0
  /\ npc = "idle" /\ cb = NoAck
  /\ pkts = {} /\ acks = {}
  /\ got = {} /\ peer_nxt = 0 /\ peer_read = 0
  /\ peer_state = "linked"
  /\ timeouts = 0

-----------------------------------------------------------------------------
(* The application thread: tcp_sock_write.                                 *)

\* tcp_send_packet: snd_nxt counts the packet, and snd_wnd is read.
WriteSend ==
  /\ wpc = "send" /\ nput < N
  /\ snd_nxt' = snd_nxt + DataLen(nput + 1)
  /\ wnd_read' = snd_wnd
  /\ wpc' = "wnd"
  /\ UNCHANGED <<windowVars, cgtVars, rep_ack, bufVars, wait_send, nput, netVars,
                 pkts, acks, peerVars>>

\* ... and written back, a u32.
WriteWnd ==
  /\ wpc = "wnd"
  /\ snd_wnd' = (wnd_read + WndMod - DataLen(nput + 1)) % WndMod
  /\ wpc' = "put"
  /\ UNCHANGED <<snd_nxt, adv_wnd, cgtVars, rep_ack, bufVars, wait_send, nput,
                 wnd_read, netVars, pkts, acks, peerVars>>

\* put_sendbuf, then ip_send_packet.
WritePut ==
  /\ wpc = "put"
  /\ nput' = nput + 1
  /\ send_buf' = Append(send_buf, [pkt |-> nput + 1, times |-> 1])
  /\ inflight' = inflight + 1
  /\ pkts' = pkts \cup {nput + 1}
  /\ wpc' = "check"
  /\ UNCHANGED <<snd_nxt, windowVars, cgtVars, rep_ack, snd_una, wait_send, wnd_read,
                 netVars, acks, peerVars>>

WindowClosed == snd_wnd < MSS * inflight

\* while (snd_wnd < MSS * inflight) sleep_on(wait_send)
WriteCheck ==
  /\ wpc = "check"
  /\ wpc' = IF WindowClosed THEN "to_sleep"
            ELSE IF nput < N THEN "send" ELSE "done"
  /\ UNCHANGED <<snd_nxt, windowVars, cgtVars, rep_ack, bufVars, wait_send, nput, wnd_read,
                 netVars, pkts, acks, peerVars>>

WriteSleep ==
  /\ wpc = "to_sleep"
  /\ wait_send' = sleep_on(wait_send)
  /\ wpc' = IF Returns(wait_send) THEN "check" ELSE "asleep"
  /\ UNCHANGED <<snd_nxt, windowVars, cgtVars, rep_ack, bufVars, nput, wnd_read, netVars,
                 pkts, acks, peerVars>>

WriteResume ==
  /\ wpc = "asleep"
  /\ wait_send' = resume(wait_send)
  /\ wpc' = "check"
  /\ UNCHANGED <<snd_nxt, windowVars, cgtVars, rep_ack, bufVars, nput, wnd_read, netVars,
                 pkts, acks, peerVars>>

Write == \/ WriteSend \/ WriteWnd \/ WritePut \/ WriteCheck \/ WriteSleep
         \/ wait_send.notified /\ WriteResume

-----------------------------------------------------------------------------
(* The network thread: an acknowledgement, cases `cb->ack == snd_una` and  *)
(* the rest.                                                               *)

TakeAck(a) == /\ npc = "idle" /\ a \in acks
              /\ acks' = acks \ {a} /\ cb' = a

\* ip_send_packet of a copy of the first packet of send_buf.
ResendFirst == IF send_buf = << >> THEN pkts ELSE pkts \cup {Head(send_buf).pkt}

Shrunk(w) == IF w - 1 < 1 THEN 1 ELSE w - 1

Repeated(a) == TakeAck(a) /\ a.ack = snd_una

\* The first and the second repeated acknowledgement.
NetRepeatedOpen(a) ==
  /\ Repeated(a)
  /\ cgt_state = "OPEN" /\ rep_ack + 1 <= 2
  /\ rep_ack' = rep_ack + 1
  /\ npc' = "window"
  /\ UNCHANGED <<snd_nxt, windowVars, cgtVars, bufVars, wait_send, writerVars,
                 pkts, peerVars>>

\* The third.  It is counted in the next step, no other thread sees rep_ack.
NetRepeatedThird(a) ==
  /\ Repeated(a)
  /\ cgt_state = "OPEN" /\ rep_ack + 1 > 2
  /\ npc' = "fast"
  /\ UNCHANGED <<snd_nxt, windowVars, cgtVars, rep_ack, bufVars, wait_send, writerVars,
                 pkts, peerVars>>

\* Fast retransmit, whatever cgt_state is by now, and on into case RCVR.
NetFastRetransmit ==
  /\ npc = "fast"
  /\ cgt_state' = "RCVR"
  /\ ssthresh' = (cwnd + 1) \div 2
  /\ recovery_point' = snd_nxt
  /\ pkts' = ResendFirst
  /\ rep_ack' = rep_ack - 1
  /\ cwnd' = Shrunk(cwnd)
  /\ npc' = "window"
  /\ UNCHANGED <<snd_nxt, windowVars, cwnd_unit, bufVars, wait_send, writerVars, cb, acks,
                 peerVars>>

\* Every second one makes the congestion window one packet smaller.
NetRepeatedRcvr(a) ==
  /\ Repeated(a)
  /\ cgt_state = "RCVR"
  /\ IF rep_ack + 1 > 1
     THEN rep_ack' = rep_ack - 1 /\ cwnd' = Shrunk(cwnd)
     ELSE rep_ack' = rep_ack + 1 /\ UNCHANGED cwnd
  /\ npc' = "window"
  /\ UNCHANGED <<snd_nxt, windowVars, cwnd_unit, ssthresh, cgt_state, recovery_point,
                 bufVars, wait_send, writerVars, pkts, peerVars>>

\* Only counted, and the count is reset before LOSS is left: 3 stands for
\* every larger value.
NetRepeatedLoss(a) ==
  /\ Repeated(a)
  /\ cgt_state = "LOSS"
  /\ rep_ack' = least(rep_ack + 1, 3)
  /\ npc' = "window"
  /\ UNCHANGED <<snd_nxt, windowVars, cgtVars, bufVars, wait_send, writerVars,
                 pkts, peerVars>>

NetNewAck(a) ==
  /\ TakeAck(a) /\ a.ack # snd_una
  /\ rep_ack' = 0
  /\ npc' = "pop"
  /\ UNCHANGED <<snd_nxt, windowVars, cgtVars, bufVars, wait_send, writerVars,
                 pkts, peerVars>>

\* Mutant: the packet after the acknowledged one goes too.
CoveredOneMore == send_buf # << >> /\ SeqEnd[Head(send_buf).pkt - 1] <= cb.ack

Covered == send_buf # << >> /\ SeqEnd[Head(send_buf).pkt] <= cb.ack

\* tcp_cwnd_inc: slow start below ssthresh, then one packet per window.
tcp_cwnd_inc ==
  IF cgt_state # "OPEN" THEN UNCHANGED <<cwnd, cwnd_unit>>
  ELSE IF cwnd < ssthresh THEN cwnd' = cwnd + 1 /\ UNCHANGED cwnd_unit
  ELSE IF cwnd_unit + 1 >= cwnd THEN cwnd_unit' = 0 /\ cwnd' = cwnd + 1
  ELSE cwnd_unit' = cwnd_unit + 1 /\ UNCHANGED cwnd

\* Mutant: inflight is not counted down.
tcp_pop_sendbufUncounted == send_buf' = Tail(send_buf) /\ UNCHANGED inflight

tcp_pop_sendbuf == send_buf' = Tail(send_buf) /\ inflight' = inflight - 1

\* One turn of the loop over send_buf.
NetPop ==
  /\ npc = "pop" /\ Covered
  /\ snd_una' = SeqEnd[Head(send_buf).pkt]
  /\ tcp_pop_sendbuf
  /\ tcp_cwnd_inc
  /\ UNCHANGED <<snd_nxt, windowVars, ssthresh, cgt_state, recovery_point, rep_ack,
                 wait_send, writerVars, netVars, pkts, acks, peerVars>>

\* The loop has ended: switch (cgt_state).
NetSwitch ==
  /\ npc = "pop" /\ ~Covered
  /\ npc' = CASE cgt_state = "OPEN" -> "window"
              [] cgt_state = "RCVR" -> "rcvr"
              [] cgt_state = "LOSS" -> "loss"
  /\ UNCHANGED <<snd_nxt, windowVars, cgtVars, rep_ack, bufVars, wait_send, writerVars, cb,
                 pkts, acks, peerVars>>

Recovered == recovery_point <= cb.ack

\* Is the recovery over?  If not, case RCVR resends the packet at which the loop stopped.
NetRecover ==
  /\ npc \in {"rcvr", "loss"}
  /\ \/ Recovered /\ npc' = "open" /\ UNCHANGED pkts
     \/ ~Recovered /\ npc' = "window" /\ pkts' = IF npc = "rcvr" THEN ResendFirst ELSE pkts
  /\ UNCHANGED <<snd_nxt, windowVars, cgtVars, rep_ack, bufVars, wait_send, writerVars, cb,
                 acks, peerVars>>

\* Leave it.  The timer may have begun another one since it was found to be over.
NetOpen ==
  /\ npc = "open"
  /\ cgt_state' = "OPEN"
  /\ npc' = "window"
  /\ UNCHANGED <<snd_nxt, windowVars, cwnd, cwnd_unit, ssthresh, recovery_point, rep_ack,
                 bufVars, wait_send, writerVars, cb, pkts, acks, peerVars>>

\* tcp_update_window_safe.
NetWindow ==
  /\ npc = "window"
  /\ IF snd_una <= cb.ack /\ cb.ack <= snd_nxt
     THEN /\ adv_wnd' = cb.rwnd
          /\ snd_wnd' = least(cb.rwnd, cwnd * MSS)
          /\ wait_send' = IF snd_wnd = 0 THEN wake_up(wait_send) ELSE wait_send
     ELSE UNCHANGED <<windowVars, wait_send>>
  /\ npc' = "flags"
  /\ UNCHANGED <<snd_nxt, cgtVars, rep_ack, bufVars, writerVars, cb, pkts, acks, peerVars>>

\* Mutant: the writer is not woken.
WakeSenderNot == wait_send

WakeSender == IF cgt_state = "OPEN" THEN wake_up(wait_send) ELSE wait_send

\* case TCP_ACK in state ESTABLISHED.
NetFlags ==
  /\ npc = "flags"
  /\ wait_send' = WakeSender
  /\ npc' = "idle" /\ cb' = NoAck
  /\ UNCHANGED <<snd_nxt, windowVars, cgtVars, rep_ack, bufVars, writerVars, pkts, acks,
                 peerVars>>

NetAck(a) == \/ NetRepeatedOpen(a) \/ NetRepeatedThird(a) \/ NetRepeatedRcvr(a)
             \/ NetRepeatedLoss(a) \/ NetNewAck(a)
NetRun == \/ NetFastRetransmit \/ NetPop \/ NetSwitch \/ NetRecover \/ NetOpen
          \/ NetWindow \/ NetFlags

-----------------------------------------------------------------------------
(* The timer thread, which holds send_lock: the timer of one packet runs   *)
(* out.  Intervals are not modelled, a timer may run out at any time.      *)

\* Mutant: the packet is not sent again.
BackoffSilent(i) ==
  /\ send_buf' = [send_buf EXCEPT ![i].times = IF @ = 3 THEN 1 ELSE @ + 1]
  /\ UNCHANGED pkts

Backoff(i) ==
  IF send_buf[i].times = 3
  THEN /\ send_buf' = [send_buf EXCEPT ![i].times = 1]      \* "Packet Loss!!!"
       /\ UNCHANGED pkts
  ELSE /\ send_buf' = [send_buf EXCEPT ![i].times = @ + 1]
       /\ pkts' = pkts \cup {send_buf[i].pkt}

TimerExpires(i) ==
  /\ recovery_point' = IF cgt_state = "LOSS" THEN recovery_point ELSE snd_nxt
  /\ cgt_state' = "LOSS"
  /\ ssthresh' = (cwnd + 1) \div 2
  /\ cwnd' = 1
  /\ snd_wnd' = MSS
  /\ Backoff(i)
  /\ timeouts' = least(timeouts + 1, MaxTimeouts)
  /\ UNCHANGED <<snd_nxt, adv_wnd, cwnd_unit, rep_ack, snd_una, inflight, wait_send,
                 writerVars, netVars, acks, got, peer_nxt, peer_read, peer_state>>

Timer == \E i \in 1 .. Len(send_buf) : TimerExpires(i)

-----------------------------------------------------------------------------
(* The network and the peer.                                               *)

LoseAck ==
  /\ \E a \in acks : acks' = acks \ {a}
  /\ UNCHANGED <<snd_nxt, windowVars, cgtVars, rep_ack, bufVars, wait_send, writerVars,
                 netVars, pkts, peerVars>>

LosePacket ==
  /\ \E k \in pkts : pkts' = pkts \ {k}
  /\ UNCHANGED <<snd_nxt, windowVars, cgtVars, rep_ack, bufVars, wait_send, writerVars,
                 netVars, acks, peerVars>>

\* The packets of the peer's out-of-order list.
Early == {k \in got : k > peer_nxt}

\* write_ofo_buffer links the packet where the peer will not meet it.
Bypasses(k) == k > peer_nxt + 1 /\ Early # {} /\ \A e \in Early : k < e

\* list_delete_entry on the first entry frees what a bypassed head points to.
HeadAfter(k, drained) ==
  IF Bypasses(k) THEN "bypassed"
  ELSE IF peer_state = "bypassed" /\ drained THEN "freed"
  ELSE peer_state

\* The packet makes the peer read an entry it has freed.
MeetsFreed(k) == peer_state = "freed" /\ k > peer_nxt

\* The peer keeps the packet, or has it already, or loses it, and acknowledges the
\* bytes it has without a hole.  Its application reads up to a packet r meanwhile, so
\* that they fit.  A network that is full loses the acknowledgement.
PeerTakes(k) ==
  /\ k \in pkts /\ peer_state # "failed" /\ ~MeetsFreed(k)
  /\ got' = IF Bypasses(k) THEN got ELSE got \cup {k}
  /\ \E m \in peer_nxt .. N, r \in peer_read .. N :
       /\ peer_nxt + 1 .. m \subseteq got' /\ m + 1 \notin got'
       /\ r <= m /\ SeqEnd[m] - SeqEnd[r] <= PeerBuf
       /\ peer_nxt' = m /\ peer_read' = r
       /\ peer_state' = HeadAfter(k, m > peer_nxt + 1)
       /\ acks' = IF Cardinality(acks) >= AckRoom THEN acks
                  ELSE acks \cup {[ack |-> SeqEnd[m],
                                   rwnd |-> PeerBuf - (SeqEnd[m] - SeqEnd[r])]}
  /\ pkts' = pkts \ {k}
  /\ UNCHANGED <<snd_nxt, windowVars, cgtVars, rep_ack, bufVars, wait_send, writerVars,
                 netVars, timeouts>>

\* What has come does not fit, as long as the application does not read: the peer's
\* network thread goes to sleep for room, while its reader waits for that sleep to
\* end before it wakes it.
Overflows(k) ==
  \E m \in peer_nxt + 1 .. N :
    peer_nxt + 1 .. m \subseteq got \cup {k} /\ SeqEnd[m] - SeqEnd[peer_read] > PeerBuf

\* Such a peer neither receives nor acknowledges any more.  Of one that has read a
\* freed entry this is an assumption, the program being undefined.
PeerFails(k) ==
  /\ k \in pkts /\ peer_state # "failed"
  /\ Overflows(k) \/ MeetsFreed(k)
  /\ peer_state' = "failed"
  /\ pkts' = pkts \ {k}
  /\ UNCHANGED <<snd_nxt, windowVars, cgtVars, rep_ack, bufVars, wait_send, writerVars,
                 netVars, acks, got, peer_nxt, peer_read, timeouts>>

PeerReceive(k) == PeerTakes(k) \/ PeerFails(k)

-----------------------------------------------------------------------------
Others == \/ Write \/ WriteResume
          \/ \E a \in acks : NetAck(a)
          \/ NetRun
          \/ LoseAck \/ \E k \in 1 .. N : PeerReceive(k)

\* A packet that never arrives is as good as lost: only the specification
\* with fairness needs to say which.
Next     == Others \/ (timeouts < MaxTimeouts /\ Timer)
LiveNext == Others \/ Timer \/ LosePacket

Spec == Init /\ [][Next]_vars

\* The threads run when they can; an acknowledgement, a packet and a timer that
\* come up again and again are not always lost or put off.
Fairness ==
  /\ WF_vars(Write) /\ WF_vars(NetRun)
  /\ \A m \in 0 .. N : SF_vars(\E a \in acks : a.ack = SeqEnd[m] /\ NetAck(a))
  /\ \A k \in 1 .. N :
       /\ SF_vars(PeerReceive(k))
       /\ SF_vars(\E i \in 1 .. Len(send_buf) : send_buf[i].pkt = k /\ TimerExpires(i))

LiveSpec == Init /\ [][LiveNext]_vars /\ Fairness

-----------------------------------------------------------------------------
(* Properties.                                                             *)

\* The values the variables of the send path take.
TypeOK ==
  /\ snd_una \in Nat /\ snd_nxt \in Nat /\ recovery_point \in Nat
  /\ send_buf \in Seq([pkt : 1 .. N, times : 1 .. 3]) /\ inflight \in Nat
  /\ snd_wnd \in 0 .. WndMod - 1 /\ wnd_read \in 0 .. WndMod - 1
  /\ adv_wnd \in 0 .. PeerBuf
  /\ cwnd \in Nat \ {0} /\ ssthresh \in Nat \ {0} /\ cwnd_unit \in Nat
  /\ cgt_state \in {"OPEN", "RCVR", "LOSS"} /\ rep_ack \in 0 .. 3
  /\ wait_send \in Wait
  /\ wpc \in {"send", "wnd", "put", "check", "to_sleep", "asleep", "done"}
  /\ nput \in 0 .. N
  /\ npc \in {"idle", "fast", "pop", "rcvr", "loss", "open", "window", "flags"}
  /\ cb \in [ack : Nat, rwnd : 0 .. PeerBuf]
  /\ pkts \subseteq 1 .. N /\ acks \subseteq [ack : Nat, rwnd : 0 .. PeerBuf]
  /\ got \subseteq 1 .. N /\ peer_nxt \in 0 .. N /\ peer_read \in 0 .. N
  /\ peer_state \in {"linked", "bypassed", "freed", "failed"}

\* A packet that was put into send_buf stays there until the peer has it and
\* everything before it, through retransmissions, stale and reordered
\* acknowledgements and the loop that pops while the writer appends
\* (tcp_in.c 133-140, tcp_out.c 12-39): what the peer lacks can be resent.
NothingForgotten ==
  \A k \in 1 .. nput : k > peer_nxt => \E i \in 1 .. Len(send_buf) : send_buf[i].pkt = k

\* send_buf is exactly the packets from snd_una on, in order, and inflight
\* counts them (tcp_out.c 22-38, tcp_in.c 136-137).
SendBufIsUnacked ==
  LET first == nput - Len(send_buf)
  IN  /\ inflight = Len(send_buf)
      /\ first \in 0 .. N /\ snd_una = SeqEnd[first]
      /\ \A i \in 1 .. Len(send_buf) : send_buf[i].pkt = first + i

\* The writer has found the window closed and was not notified since.
Slept == wpc \in {"to_sleep", "asleep"} /\ ~wait_send.notified

\* No wakeup of the writer is lost: whenever it sleeps while no acknowledgement is
\* being handled, there is something in the send list that will be acknowledged, and what
\* keeps it is a closed window, or a recovery, which ends with a wakeup
\* (tcp_sock.c 392-398, tcp_in.c 43, 206), although check and sleep are two
\* steps and the timer opens the window without waking anyone.
SleeperIsDue ==
  Slept /\ npc = "idle" => send_buf # << >> /\ (WindowClosed \/ cgt_state # "OPEN")

\* Every tcp_sock_write returns, unless the peer fails: the writer is woken
\* once the window opens, although the network thread wakes it only in state OPEN or
\* when snd_wnd was zero (tcp_in.c 43, 206).
WriterReturns == <>(wpc = "done" \/ peer_state = "failed")

\* Everything written reaches the peer, and the sender learns of it, unless the peer
\* fails.
TransferCompletes == <>[]((peer_nxt = N /\ send_buf = << >>) \/ peer_state = "failed")
=============================================================================
