------------------------------ MODULE TcpConn ------------------------------
(***************************************************************************)
(* The life of connections in prj14: one listening socket, several clients *)
(* that connect to it, the three-way handshake, the queues of the listener *)
(* and accept, close, and the TIME_WAIT timer, over a network that loses   *)
(* and reorders packets.                                                   *)
(*                                                                         *)
(* A connection has two ends, the client's socket and the child socket the *)
(* listener makes for it.  SYN, FIN and a data packet take one sequence    *)
(* number each, counted from the iss.  The paths of the data are in        *)
(* TcpRecv and TcpSend: here a client writes at most one packet, because   *)
(* data and its acknowledgement change the states of the connection too.   *)
(*                                                                         *)
(* The queues of the listener are sequences here, and a child is put into  *)
(* them or taken out in one step.  In the code both happen without a lock  *)
(* and may overlap when one child is queued while another is accepted      *)
(* (tcp_sock.c 323-338); AcceptQueue has their loads and stores, and       *)
(* accept_backlog.  So this module says nothing of what such an overlap    *)
(* does to the queue: its one property about the queue's content is        *)
(* checked with one client, where there is none.                           *)
(***************************************************************************)
EXTENDS Integers, Sequences, SequencesExt, FiniteSets, SynchWait

CONSTANTS Clients,      \* each has a host of its own
          MaxData,      \* bound: data packets a client writes (0 or 1)
          ServerCloses, \* may the server call tcp_sock_close?
          NetRoom       \* bound: packets on the way at a time; others are lost

ASSUME TcpConnAssumption ==
  MaxData \in 0 .. 1 /\ ServerCloses \in BOOLEAN /\ NetRoom \in Nat

ClientEnd(c) == [of |-> c, side |-> "client"]
ChildEnd(c)  == [of |-> c, side |-> "child"]
ClientEnds   == {ClientEnd(c) : c \in Clients}
ChildEnds    == {ChildEnd(c) : c \in Clients}
Ends         == ClientEnds \cup ChildEnds
Peer(e)      == IF e.side = "client" THEN ChildEnd(e.of) ELSE ClientEnd(e.of)

Flags == {"SYN", "SYN|ACK", "ACK", "PSH", "FIN", "ACK|FIN"}

VARIABLES
  state, snd_nxt, rcv_nxt, \* of each end
  send_buf,                \* its unacknowledged packets
  hashed,                  \* is it in the established table?
  timewait,                \* is its timer on timer_list?
  pc,                      \* where the application that owns it is
  wait_connect,            \* of each client
  listen_queue, accept_queue, wait_accept, \* of the listener
  apc,                     \* where the server's thread is in tcp_sock_accept
  written,                 \* data packets each client has written
  net                      \* packets on the way

endVars    == <<state, snd_nxt, rcv_nxt, send_buf, hashed, timewait>>
listenVars == <<listen_queue, accept_queue, wait_accept>>
appVars    == <<pc, apc, written>>
vars       == <<endVars, listenVars, appVars, wait_connect, net>>

Init ==
  /\ state = [e \in Ends |-> IF e \in ClientEnds THEN "CLOSED" ELSE "none"]
  /\ snd_nxt = [e \in Ends |-> 0] /\ rcv_nxt = [e \in Ends |-> 0]
  /\ send_buf = [e \in Ends |-> << >>]
  /\ hashed = [e \in Ends |-> FALSE] /\ timewait = [e \in Ends |-> FALSE]
  /\ pc = [e \in Ends |-> IF e \in ClientEnds THEN "start" ELSE "none"]
  /\ wait_connect = [c \in Clients |-> wait_init]
  /\ listen_queue = << >> /\ accept_queue = << >> /\ wait_accept = wait_init
  /\ apc = "check" /\ written = [c \in Clients |-> 0]
  /\ net = {}

-----------------------------------------------------------------------------
(* Packets.                                                                *)

\* Mutant: an ACK takes a sequence number.
SizeOfAll(flags) == 1

Size(flags) == IF flags = "ACK" THEN 0 ELSE 1

Packet(e, flags, ack) ==
  [to |-> Peer(e), flags |-> flags, seq |-> snd_nxt[e],
   seq_end |-> snd_nxt[e] + Size(flags), ack |-> ack]

\* What is on the way once out is sent: where there is no room, a packet is lost.
Transmit(sent, out) ==
  IF Cardinality(sent \cup out) <= NetRoom THEN {sent \cup out}
  ELSE {sent} \cup {(sent \ {p}) \cup out : p \in sent}

\* Mutant: a FIN is not kept.
SendFinOnce(e, flags, ack) ==
  /\ snd_nxt' = [snd_nxt EXCEPT ![e] = @ + Size(flags)]
  /\ send_buf' = [send_buf EXCEPT ![e] = IF flags = "FIN" THEN @
                                        ELSE Append(@, Packet(e, flags, ack))]
  /\ net' \in Transmit(net, {Packet(e, flags, ack)})

\* tcp_send_control_packet and tcp_send_packet: what takes a sequence number is
\* kept in send_buf.
Send(e, flags, ack) ==
  /\ snd_nxt' = [snd_nxt EXCEPT ![e] = @ + Size(flags)]
  /\ send_buf' = [send_buf EXCEPT ![e] = Append(@, Packet(e, flags, ack))]
  /\ net' \in Transmit(net, {Packet(e, flags, ack)})

HasAck(p) == p.flags \in {"SYN|ACK", "ACK", "ACK|FIN"}

\* tcp_process before the switch: rcv_nxt, and the acknowledged packets go, up to
\* the first that is not.
NextExpected(p) == IF p.flags = "PSH" THEN rcv_nxt[p.to] ELSE p.seq_end

Acked(buf, ack) == {i \in 1 .. Len(buf) : \A j \in 1 .. i : buf[j].seq_end <= ack}

Unacked(p) ==
  LET buf == send_buf[p.to]
  IN  IF HasAck(p) THEN SubSeq(buf, Cardinality(Acked(buf, p.ack)) + 1, Len(buf)) ELSE buf

\* A packet with an ACK, answered by nothing but, possibly, an ACK.
Process(p, replies) ==
  /\ net' \in Transmit(net \ {p}, replies)
  /\ rcv_nxt' = [rcv_nxt EXCEPT ![p.to] = NextExpected(p)]
  /\ send_buf' = [send_buf EXCEPT ![p.to] = Unacked(p)]
  /\ UNCHANGED snd_nxt

SetState(e, s) == state' = [state EXCEPT ![e] = s]
SetTimewait(e) == timewait' = [timewait EXCEPT ![e] = TRUE]

-----------------------------------------------------------------------------
(* The applications.                                                       *)

At(e, from, to) == pc[e] = from /\ pc' = [pc EXCEPT ![e] = to]

\* tcp_sock_connect up to sleep_on.
Connect(c) ==
  LET e == ClientEnd(c)
  IN  /\ At(e, "start", "to_sleep")
      /\ SetState(e, "SYN_SENT")
      /\ hashed' = [hashed EXCEPT ![e] = TRUE]
      /\ Send(e, "SYN", 0)
      /\ UNCHANGED <<rcv_nxt, timewait, listenVars, apc, written, wait_connect>>

ConnectSleep(c) ==
  LET e == ClientEnd(c)
  IN  /\ At(e, "to_sleep", IF Returns(wait_connect[c]) THEN "woken" ELSE "asleep")
      /\ wait_connect' = [wait_connect EXCEPT ![c] = sleep_on(@)]
      /\ UNCHANGED <<endVars, listenVars, apc, written, net>>

ConnectResume(c) ==
  /\ At(ClientEnd(c), "asleep", "woken")
  /\ wait_connect' = [wait_connect EXCEPT ![c] = resume(@)]
  /\ UNCHANGED <<endVars, listenVars, apc, written, net>>

\* tcp_sock_connect after sleep_on: the connection is open, send the ACK.
ConnectDone(c) ==
  LET e == ClientEnd(c)
  IN  /\ At(e, "woken", "open")
      /\ SetState(e, "ESTABLISHED")
      /\ net' \in Transmit(net, {Packet(e, "ACK", rcv_nxt[e])})
      /\ UNCHANGED <<snd_nxt, rcv_nxt, send_buf, hashed, timewait, listenVars, apc,
                     written, wait_connect>>

\* tcp_sock_write of one packet.
Write(c) ==
  LET e == ClientEnd(c)
  IN  /\ pc[e] = "open" /\ written[c] < MaxData
      /\ written' = [written EXCEPT ![c] = @ + 1]
      /\ Send(e, "PSH", rcv_nxt[e])
      /\ UNCHANGED <<state, rcv_nxt, hashed, timewait, listenVars, pc, apc, wait_connect>>

\* tcp_sock_close: the state is tested ...
CloseTest(e) ==
  /\ At(e, "open", IF state[e] = "ESTABLISHED" THEN "closing" ELSE "done")
  /\ e \in ChildEnds => ServerCloses
  /\ UNCHANGED <<endVars, listenVars, apc, written, wait_connect, net>>

\* ... and then set, without a lock.
CloseSend(e) ==
  /\ At(e, "closing", "done")
  /\ SetState(e, "FIN_WAIT_1")
  /\ Send(e, "FIN", rcv_nxt[e])
  /\ UNCHANGED <<rcv_nxt, hashed, timewait, listenVars, apc, written, wait_connect>>

\* tcp_sock_accept: while (list_empty(&tsk->accept_queue)) sleep_on(wait_accept);
AcceptEmpty ==
  /\ apc = "check" /\ accept_queue = << >>
  /\ apc' = "to_sleep"
  /\ UNCHANGED <<endVars, listenVars, pc, written, wait_connect, net>>

AcceptSleep ==
  /\ apc = "to_sleep"
  /\ wait_accept' = sleep_on(wait_accept)
  /\ apc' = IF Returns(wait_accept) THEN "check" ELSE "asleep"
  /\ UNCHANGED <<endVars, listen_queue, accept_queue, pc, written, wait_connect, net>>

AcceptResume ==
  /\ apc = "asleep"
  /\ wait_accept' = resume(wait_accept)
  /\ apc' = "check"
  /\ UNCHANGED <<endVars, listen_queue, accept_queue, pc, written, wait_connect, net>>

\* tcp_sock_accept_dequeue, in one step: see AcceptQueue for its loads and stores.
AcceptTake ==
  /\ apc = "check" /\ accept_queue # << >>
  /\ accept_queue' = Tail(accept_queue)
  /\ pc' = [pc EXCEPT ![ChildEnd(Head(accept_queue))] = "open"]
  /\ UNCHANGED <<endVars, listen_queue, wait_accept, apc, written, wait_connect, net>>

-----------------------------------------------------------------------------
(* The network threads: tcp_process on a packet p for the end e == p.to.   *)

Found(p, flags) == p \in net /\ hashed[p.to] /\ p.flags = flags

Rest == UNCHANGED <<hashed, timewait, listenVars, appVars, wait_connect>>

\* A SYN finds no socket of its connection, so it goes to the listener: make
\* the child and answer.  (Bound: one child per connection.)
RecvSyn(p) ==
  /\ p \in net /\ p.flags = "SYN" /\ state[p.to] = "none"
  /\ SetState(p.to, "SYN_RECV")
  /\ hashed' = [hashed EXCEPT ![p.to] = TRUE]
  /\ rcv_nxt' = [rcv_nxt EXCEPT ![p.to] = p.seq_end]
  /\ listen_queue' = Append(listen_queue, p.to.of)
  /\ LET out == Packet(p.to, "SYN|ACK", p.seq_end)
     IN  /\ snd_nxt' = [snd_nxt EXCEPT ![p.to] = 1]
         /\ send_buf' = [send_buf EXCEPT ![p.to] = <<out>>]
         /\ net' \in Transmit(net \ {p}, {out})
  /\ UNCHANGED <<timewait, accept_queue, wait_accept, appVars, wait_connect>>

\* A SYN again: nothing but rcv_nxt changes.
RecvSynAgain(p) ==
  /\ Found(p, "SYN")
  /\ Process(p, {})
  /\ UNCHANGED state /\ Rest

\* Mutant: connect is not woken.
WakeConnectNot(p) == wait_connect

WakeConnect(p) ==
  IF state[p.to] = "SYN_SENT" THEN [wait_connect EXCEPT ![p.to.of] = wake_up(@)]
  ELSE wait_connect

RecvSynAck(p) ==
  /\ Found(p, "SYN|ACK")
  /\ Process(p, {})
  /\ wait_connect' = WakeConnect(p)
  /\ UNCHANGED <<state, hashed, timewait, listenVars, appVars>>

\* Mutant: the server is not woken.
WakeAcceptNot == wait_accept

WakeAccept == wake_up(wait_accept)

\* The listen queue without the child of c, if it is in there.
WithoutChild(c) ==
  IF c \in ToSet(listen_queue)
  THEN RemoveAt(listen_queue, CHOOSE i \in 1 .. Len(listen_queue) : listen_queue[i] = c)
  ELSE listen_queue

\* The last packet of the handshake: tcp_sock_accept_enqueue, in one step too.
RecvAckOfHandshake(p) ==
  /\ Found(p, "ACK") /\ state[p.to] = "SYN_RECV"
  /\ Process(p, {})
  /\ listen_queue' = WithoutChild(p.to.of)
  /\ accept_queue' = Append(accept_queue, p.to.of)
  /\ wait_accept' = WakeAccept
  /\ SetState(p.to, "ESTABLISHED")
  /\ UNCHANGED <<hashed, timewait, appVars, wait_connect>>

\* Mutant: FIN_WAIT_2 is skipped.
FinAckedSkip == "TIME_WAIT"

FinAcked == "FIN_WAIT_2"

RecvAckOfFin(p) ==
  /\ Found(p, "ACK")
  /\ \/ /\ state[p.to] = "FIN_WAIT_1"
        /\ SetState(p.to, FinAcked)
        /\ UNCHANGED hashed
     \/ /\ state[p.to] = "LAST_ACK"
        /\ SetState(p.to, "CLOSED")
        /\ hashed' = [hashed EXCEPT ![p.to] = FALSE]
  /\ Process(p, {})
  /\ UNCHANGED <<timewait, listenVars, appVars, wait_connect>>

\* In any other state an ACK only acknowledges.
RecvAckOnly(p) ==
  /\ Found(p, "ACK") /\ state[p.to] \notin {"SYN_RECV", "FIN_WAIT_1", "LAST_ACK"}
  /\ Process(p, {})
  /\ UNCHANGED state /\ Rest

\* Data: in SYN_RECV it opens the connection, without accept_enqueue.
RecvPsh(p) ==
  LET next == IF p.seq = rcv_nxt[p.to] THEN p.seq_end ELSE rcv_nxt[p.to]
  IN  /\ Found(p, "PSH")
      /\ SetState(p.to, IF state[p.to] = "SYN_RECV" THEN "ESTABLISHED" ELSE state[p.to])
      /\ rcv_nxt' = [rcv_nxt EXCEPT ![p.to] = next]
      /\ net' \in Transmit(net \ {p}, {Packet(p.to, "ACK", next)})
      /\ UNCHANGED <<snd_nxt, send_buf>> /\ Rest

\* The peer answers our FIN with its own.
RecvAckFin(p) ==
  /\ Found(p, "ACK|FIN")
  /\ IF state[p.to] = "FIN_WAIT_1"
     THEN /\ SetState(p.to, "TIME_WAIT")
          /\ SetTimewait(p.to)
          /\ Process(p, {Packet(p.to, "ACK", p.seq_end)})
     ELSE Process(p, {}) /\ UNCHANGED <<state, timewait>>
  /\ UNCHANGED <<hashed, listenVars, appVars, wait_connect>>

\* The peer closes first: answer ACK|FIN; LAST_ACK has a timer too.
RecvFinOpen(p) ==
  /\ Found(p, "FIN") /\ state[p.to] = "ESTABLISHED"
  /\ SetState(p.to, "LAST_ACK")
  /\ SetTimewait(p.to)
  /\ rcv_nxt' = [rcv_nxt EXCEPT ![p.to] = p.seq_end]
  /\ LET out == Packet(p.to, "ACK|FIN", p.seq_end)
     IN  /\ snd_nxt' = [snd_nxt EXCEPT ![p.to] = @ + 1]
         /\ send_buf' = [send_buf EXCEPT ![p.to] = Append(@, out)]
         /\ net' \in Transmit(net \ {p}, {out})
  /\ UNCHANGED <<hashed, listenVars, appVars, wait_connect>>

RecvFin(p) ==
  /\ Found(p, "FIN") /\ state[p.to] # "ESTABLISHED"
  /\ IF state[p.to] = "FIN_WAIT_2"
     THEN /\ SetState(p.to, "TIME_WAIT")
          /\ SetTimewait(p.to)
          /\ Process(p, {Packet(p.to, "ACK", p.seq_end)})
     ELSE Process(p, {}) /\ UNCHANGED <<state, timewait>>
  /\ UNCHANGED <<hashed, listenVars, appVars, wait_connect>>

\* tcp_sock_lookup finds nothing, or the listener, which ignores all but SYN.
RecvStray(p) ==
  /\ p \in net /\ ~hashed[p.to] /\ ~(p.flags = "SYN" /\ state[p.to] = "none")
  /\ net' = net \ {p}
  /\ UNCHANGED <<endVars, listenVars, appVars, wait_connect>>

Recv(p) == \/ RecvSyn(p) \/ RecvSynAgain(p) \/ RecvSynAck(p)
           \/ RecvAckOfHandshake(p) \/ RecvAckOfFin(p) \/ RecvAckOnly(p)
           \/ RecvPsh(p) \/ RecvAckFin(p) \/ RecvFinOpen(p) \/ RecvFin(p)
           \/ RecvStray(p)

-----------------------------------------------------------------------------
(* The timer threads and the network.                                      *)

\* The retransmission timer stays on timer_list for good: a packet of send_buf
\* is sent again, by a closed socket too.
Resend(e, flags) ==
  /\ \E i \in 1 .. Len(send_buf[e]) :
       /\ send_buf[e][i].flags = flags
       /\ net' \in Transmit(net, {send_buf[e][i]})
  /\ UNCHANGED <<endVars, listenVars, appVars, wait_connect>>

\* 2*MSL have passed.
TimewaitExpires(e) ==
  /\ timewait[e]
  /\ timewait' = [timewait EXCEPT ![e] = FALSE]
  /\ SetState(e, "CLOSED")
  /\ hashed' = [hashed EXCEPT ![e] = FALSE]
  /\ UNCHANGED <<snd_nxt, rcv_nxt, send_buf, listenVars, appVars, wait_connect, net>>

Lose ==
  /\ \E p \in net : net' = net \ {p}
  /\ UNCHANGED <<endVars, listenVars, appVars, wait_connect>>

-----------------------------------------------------------------------------
\* connect and accept go on only when notified.  A spurious return of
\* pthread_cond_wait, which would make connect report a connection that does not
\* exist (synch_wait.h 46, tcp_sock.c 293-297), is left out here.
ConnectRun(c) == \/ Connect(c) \/ ConnectSleep(c) \/ ConnectDone(c)
                 \/ wait_connect[c].notified /\ ConnectResume(c)
AcceptRun == \/ AcceptEmpty \/ AcceptSleep \/ AcceptTake
             \/ wait_accept.notified /\ AcceptResume
CloseRun(e) == CloseTest(e) \/ CloseSend(e)

Next == \/ \E c \in Clients : ConnectRun(c) \/ Write(c)
        \/ \E e \in Ends : CloseRun(e) \/ TimewaitExpires(e)
        \/ \E e \in Ends, f \in Flags : Resend(e, f)
        \/ AcceptRun
        \/ \E p \in net : Recv(p)
        \/ Lose

Spec == Init /\ [][Next]_vars

\* A packet of this kind that the end keeps is sent again and again, and then not
\* lost every time.
Heard(e, f) ==
  /\ WF_vars(Resend(e, f))
  /\ SF_vars(\E p \in net : p.to = Peer(e) /\ p.flags = f /\ Recv(p))

\* What connect, accept and the sending of a FIN need: their threads run when they
\* can, and the packets that are kept get through.  Applications need not write or
\* close.
Fairness ==
  /\ WF_vars(AcceptRun)
  /\ \A c \in Clients : /\ WF_vars(ConnectRun(c)) /\ WF_vars(CloseSend(ClientEnd(c)))
                        /\ Heard(ClientEnd(c), "SYN") /\ Heard(ClientEnd(c), "FIN")
                        /\ Heard(ChildEnd(c), "SYN|ACK")

LiveSpec == Spec /\ Fairness

\* The most the program can hope for: all else that is kept gets through as well, no
\* ACK is lost for ever, and every timer runs out.
BestSpec ==
  /\ LiveSpec
  /\ \A e \in Ends : WF_vars(TimewaitExpires(e))
  /\ \A c \in Clients : Heard(ClientEnd(c), "PSH") /\ Heard(ChildEnd(c), "ACK|FIN")
                        /\ Heard(ChildEnd(c), "FIN")
  /\ \A e \in Ends : Heard(e, "ACK")

-----------------------------------------------------------------------------
(* Properties.                                                             *)

States == {"none", "CLOSED", "SYN_SENT", "SYN_RECV", "ESTABLISHED", "FIN_WAIT_1",
           "FIN_WAIT_2", "LAST_ACK", "TIME_WAIT"}
Packets == [to : Ends, flags : Flags, seq : Nat, seq_end : Nat, ack : Nat]

\* The values the variables take.
TypeOK ==
  /\ state \in [Ends -> States]
  /\ snd_nxt \in [Ends -> Nat] /\ rcv_nxt \in [Ends -> Nat]
  /\ send_buf \in [Ends -> Seq(Packets)]
  /\ hashed \in [Ends -> BOOLEAN] /\ timewait \in [Ends -> BOOLEAN]
  /\ pc \in [Ends -> {"none", "start", "to_sleep", "asleep", "woken", "open", "closing",
                      "done"}]
  /\ wait_connect \in [Clients -> Wait] /\ wait_accept \in Wait
  /\ listen_queue \in Seq(Clients) /\ accept_queue \in Seq(Clients)
  /\ apc \in {"check", "to_sleep", "asleep"}
  /\ written \in [Clients -> 0 .. MaxData]
  /\ net \subseteq Packets

\* The two ends agree on the close: one that waits for its last acknowledgement,
\* or out its TIME_WAIT, has a peer that has sent a FIN (tcp_in.c 208-289).
CloseAgreed ==
  \A e \in Ends : state[e] \in {"LAST_ACK", "TIME_WAIT"} =>
    state[Peer(e)] \in {"FIN_WAIT_1", "FIN_WAIT_2", "LAST_ACK", "TIME_WAIT", "CLOSED"}

\* An end never expects, nor acknowledges, more than its peer has sent: every
\* packet without PSH overwrites rcv_nxt (tcp_in.c 101), so stale ones must not
\* push it too far.
ExpectsWhatWasSent ==
  \A e \in Ends : rcv_nxt[e] <= snd_nxt[Peer(e)]

\* The end keeps a packet with these flags, so its timer sends it again.
Keeps(e, flags) == \E p \in ToSet(send_buf[e]) : p.flags = flags

\* No thread sleeps for a notification that is over (tcp_sock.c 292, 344): a client that
\* sleeps without one still keeps its SYN and is found by an answer, and its child, once
\* made, still waits in SYN_RECV and keeps the SYN|ACK; a server that sleeps without one
\* has nothing to accept.
NoWakeupLost ==
  /\ \A c \in Clients :
       pc[ClientEnd(c)] \in {"to_sleep", "asleep"} /\ ~wait_connect[c].notified =>
         /\ state[ClientEnd(c)] = "SYN_SENT" /\ hashed[ClientEnd(c)] /\ Keeps(ClientEnd(c), "SYN")
         /\ \/ state[ChildEnd(c)] = "none"
            \/ state[ChildEnd(c)] = "SYN_RECV" /\ Keeps(ChildEnd(c), "SYN|ACK")
  /\ apc \in {"to_sleep", "asleep"} /\ ~wait_accept.notified => accept_queue = << >>

\* connect returns, whatever is lost (tcp_sock.c 292-293): the SYN and the
\* SYN|ACK are resent, and the notification is not lost.
ConnectReturns == \A c \in Clients : pc[ClientEnd(c)] = "to_sleep" ~> pc[ClientEnd(c)] = "open"

\* A connection in the accept queue is accepted: the server's thread is woken
\* (tcp_in.c 201, tcp_sock.c 342-347).
QueuedIsAccepted ==
  \A c \in Clients : pc[ChildEnd(c)] = "none" /\ accept_queue # << >> /\ Head(accept_queue) = c
                       ~> pc[ChildEnd(c)] # "none"

\* A client that closes an open connection is heard, whatever is lost: its FIN stays in
\* send_buf until the child has taken it, although an old ACK may already have taken the
\* client on to FIN_WAIT_2 (tcp_in.c 208-210, 279-285, tcp_timer.c 39-49).  A child that
\* is not open yet need not hear it: see CloseCompletes.
FinIsHeard ==
  \A c \in Clients : pc[ClientEnd(c)] = "closing" /\ state[ChildEnd(c)] = "ESTABLISHED"
                       ~> state[ChildEnd(c)] # "ESTABLISHED"

\* tcp_sock.c 349-350: tcp_sock_close ends in "switching TCP_STATE to closed".
CloseCompletes ==
  \A c \in Clients : pc[ClientEnd(c)] = "closing" ~> state[ClientEnd(c)] = "CLOSED"
=============================================================================
