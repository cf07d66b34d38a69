------------------------------ MODULE TcpRecv ------------------------------
(***************************************************************************)
(* The receive path of one established connection of prj14: the network    *)
(* thread running tcp_process (tcp_in.c) on arriving segments, and the     *)
(* application thread running tcp_sock_read (tcp_sock.c), over the shared  *)
(* ring buffer rcv_buf, the out-of-order list rcv_ofo_buf and the two      *)
(* notifications wait_read and wait_recv.                                  *)
(*                                                                         *)
(* A byte is its offset in the peer's stream.  The peer cuts the stream    *)
(* into Segs and may send, lose, repeat and reorder them at will: its      *)
(* snd_wnd can wrap below zero (see TcpSend), so no window bounds it.      *)
(* Sequence numbers are offsets from the first byte of the stream.  The    *)
(* peer's handshake ACK is taken to arrive before its data: like a FIN, it *)
(* would set rcv_nxt to its own seq_end (tcp_in.c 101).                    *)
(***************************************************************************)
EXTENDS Naturals, Sequences, SequencesExt, SynchWait

CONSTANTS StreamLen,  \* bytes the peer writes
          Segs,       \* the segments the peer cuts them into
          RcvBufSize, \* TCP_DEFAULT_WINDOW: capacity of rcv_buf
          ReadLen     \* CONTENT_SIZE: most bytes one tcp_sock_read asks for

Segment == [seq : Nat, seq_end : Nat]

\* The peer retransmits the packets it stored, so two segments of one
\* connection never overlap; each fits the empty buffer.
ASSUME TcpRecvAssumption ==
  /\ StreamLen \in Nat
  /\ RcvBufSize \in Nat \ {0}
  /\ ReadLen \in Nat \ {0}
  /\ Segs \subseteq Segment
  /\ \A s \in Segs : /\ s.seq < s.seq_end
                     /\ s.seq_end <= StreamLen
                     /\ s.seq_end - s.seq <= RcvBufSize
  /\ \A s, t \in Segs : s.seq < t.seq => s.seq_end <= t.seq
  /\ \A s, t \in Segs : s.seq = t.seq => s = t

VARIABLES
  state,        \* ESTABLISHED, then LAST_ACK after the peer's FIN
  rcv_nxt,      \* next byte expected
  rcv_wnd,      \* the window advertised
  rcv_buf,      \* bytes in the ring buffer, oldest first
  rcv_ofo_buf,  \* segments that arrived early, as they are met from the list head on
  ofo_head,     \* what links that head and the first of them: see OfoHeads
  acked,        \* highest acknowledgement number sent
  wait_read, wait_recv,
  npc, cb, seq_end,   \* network thread: where it is, its segment, its local
  rpc,                \* application thread: where it is in tcp_sock_read
  delivered           \* what tcp_sock_read has returned so far

sockVars == <<state, rcv_nxt, rcv_wnd, rcv_buf, rcv_ofo_buf, ofo_head, acked>>
netVars  == <<npc, cb, seq_end>>
appVars  == <<rpc, delivered>>
vars     == <<sockVars, wait_read, wait_recv, netVars, appVars>>

\* "linked": the two point to each other.  "bypassed": the head points to the first
\* entry, which points back to a segment that the head does not lead to.
\* "freed": the head still points to an entry that has been freed.
OfoHeads == {"linked", "bypassed", "freed"}

NoSegment  == [seq |-> 0, seq_end |-> 0]
PlLen(s)   == s.seq_end - s.seq
payload(s) == [i \in 1 .. PlLen(s) |-> s.seq + i - 1]

ring_buffer_used == Len(rcv_buf)
ring_buffer_free == RcvBufSize - ring_buffer_used

Init ==
  /\ state = "ESTABLISHED"
  /\ rcv_nxt = 0 /\ rcv_wnd = RcvBufSize
  /\ rcv_buf = << >> /\ rcv_ofo_buf = << >> /\ ofo_head = "linked"
  /\ acked = 0
  /\ wait_read = wait_init /\ wait_recv = wait_init
  /\ npc = "idle" /\ cb = NoSegment /\ seq_end = 0
  /\ rpc = "check" /\ delivered = << >>

-----------------------------------------------------------------------------
(* The network thread.  It holds rcv_buf->lock in "insert" and "drain", and  *)
(* in "undefined", where it has met the freed entry.                       *)

RcvBufLocked == npc \in {"insert", "drain", "undefined"}

\* Mutant: list_add_tail without looking for the place.
write_ofo_bufferAtTail(s) ==
  rcv_ofo_buf' = Append(rcv_ofo_buf, s) /\ UNCHANGED ofo_head

\* write_ofo_buffer: k is the place, before the first entry that is not smaller.  A
\* segment that is there already is dropped.  One that belongs before the first
\* entry is linked to that entry and to head_ext, a copy of the list head on the
\* stack: from the head itself nobody will meet it.
write_ofo_buffer(s) ==
  \E k \in 1 .. Len(rcv_ofo_buf) + 1 :
    LET found == k <= Len(rcv_ofo_buf)
    IN  /\ \A i \in 1 .. k - 1 : rcv_ofo_buf[i].seq < s.seq
        /\ found => rcv_ofo_buf[k].seq >= s.seq
        /\ \/ /\ found /\ rcv_ofo_buf[k].seq = s.seq
              /\ UNCHANGED <<rcv_ofo_buf, ofo_head>>
           \/ /\ found /\ rcv_ofo_buf[k].seq > s.seq /\ k = 1
              /\ ofo_head' = "bypassed"
              /\ UNCHANGED rcv_ofo_buf
           \/ /\ found => rcv_ofo_buf[k].seq > s.seq /\ k > 1
              /\ rcv_ofo_buf' = InsertAt(rcv_ofo_buf, k, s)
              /\ UNCHANGED ofo_head

\* Mutant: the acknowledgement repeats the previous one.
AckStale(n) == acked

Ack(n) == IF n > acked THEN n ELSE acked

\* A data segment in order: take the lock and try to store it.
NetInOrder(s) ==
  /\ npc = "idle" /\ s.seq = rcv_nxt
  /\ npc' = "insert" /\ cb' = s /\ seq_end' = rcv_nxt
  /\ UNCHANGED <<sockVars, wait_read, wait_recv, appVars>>

\* A data segment beyond rcv_nxt: keep it for later, then acknowledge.
NetEarly(s) ==
  /\ npc = "idle" /\ s.seq > rcv_nxt
  /\ \/ /\ ofo_head # "freed"
        /\ write_ofo_buffer(s)
        /\ npc' = "notify"
     \/ /\ ofo_head = "freed"
        /\ npc' = "undefined"
        /\ UNCHANGED <<rcv_ofo_buf, ofo_head>>
  /\ UNCHANGED <<state, rcv_nxt, rcv_wnd, rcv_buf, acked, wait_read, wait_recv,
                 cb, seq_end, appVars>>

\* A data segment below rcv_nxt: only acknowledge.
NetOld(s) ==
  /\ npc = "idle" /\ s.seq < rcv_nxt
  /\ acked' = Ack(rcv_nxt)
  /\ UNCHANGED <<state, rcv_nxt, rcv_wnd, rcv_buf, rcv_ofo_buf, ofo_head,
                 wait_read, wait_recv, netVars, appVars>>

\* No room: wake the reader, release the lock and go to sleep on wait_recv.
NetFull ==
  /\ wait_read' = wake_up(wait_read)
  /\ UNCHANGED <<sockVars, wait_recv, cb, seq_end, appVars>>

HasRoom(s) == ring_buffer_free >= PlLen(s)

Store(s) ==
  /\ rcv_buf' = rcv_buf \o payload(s)
  /\ rcv_wnd' = rcv_wnd - PlLen(s)
  /\ seq_end' = s.seq_end

\* Store the segment and turn to the list, which begins with reading its first entry.
NetInsert ==
  /\ npc = "insert"
  /\ \/ /\ ~HasRoom(cb)
        /\ npc' = "insert_to_sleep"
        /\ NetFull
     \/ /\ HasRoom(cb)
        /\ Store(cb)
        /\ npc' = IF ofo_head = "freed" THEN "undefined" ELSE "drain"
        /\ UNCHANGED <<state, rcv_nxt, rcv_ofo_buf, ofo_head, acked, wait_read, wait_recv,
                       cb, appVars>>

\* Mutant: the test that stops at a hole is missing.
OfoReadyOverHole == rcv_ofo_buf # << >>

\* Does the head of rcv_ofo_buf continue what has been stored?
OfoReady == rcv_ofo_buf # << >> /\ seq_end >= Head(rcv_ofo_buf).seq

\* list_delete_entry leads the head past the entry only if the entry points back
\* to the head; the loop itself goes on from the next entry, which it knows.
HeadAfterDelete == IF ofo_head = "linked" THEN "linked" ELSE "freed"

NetDrain ==
  /\ npc = "drain" /\ OfoReady
  /\ \/ /\ ~HasRoom(Head(rcv_ofo_buf))
        /\ npc' = "drain_to_sleep"
        /\ NetFull
     \/ /\ HasRoom(Head(rcv_ofo_buf))
        /\ Store(Head(rcv_ofo_buf))
        /\ rcv_ofo_buf' = Tail(rcv_ofo_buf)
        /\ ofo_head' = HeadAfterDelete
        /\ UNCHANGED <<state, rcv_nxt, acked, wait_read, wait_recv, npc, cb,
                       appVars>>

NetDrained ==
  /\ npc = "drain" /\ ~OfoReady
  /\ rcv_nxt' = seq_end
  /\ npc' = "notify"
  /\ UNCHANGED <<state, rcv_wnd, rcv_buf, rcv_ofo_buf, ofo_head, acked, wait_read,
                 wait_recv, cb, seq_end, appVars>>

\* The freed entry has been read.  What the program does from here on depends on what
\* its memory holds: it may stop, or store and acknowledge anything.  Of that the
\* acknowledgement is in the model, and no property says a word about these states.
NetUndefined ==
  /\ npc = "undefined"
  /\ acked' \in 0 .. StreamLen + 1
  /\ UNCHANGED <<state, rcv_nxt, rcv_wnd, rcv_buf, rcv_ofo_buf, ofo_head, wait_read,
                 wait_recv, netVars, appVars>>

\* Mutant: the reader is not woken.
NotifyReaderNot == wait_read

NotifyReader == IF wait_read.sleep THEN wake_up(wait_read) ELSE wait_read

\* The lock is released; wake_up only if the reader is seen asleep; TCP_ACK.
NetNotify ==
  /\ npc = "notify"
  /\ wait_read' = NotifyReader
  /\ acked' = Ack(rcv_nxt)
  /\ npc' = "idle" /\ cb' = NoSegment /\ seq_end' = 0
  /\ UNCHANGED <<state, rcv_nxt, rcv_wnd, rcv_buf, rcv_ofo_buf, ofo_head, wait_recv,
                 appVars>>

\* sleep_on(wait_recv), first half; `back` is where the loop resumes.
NetSleep(from, asleep, back) ==
  /\ npc = from
  /\ wait_recv' = sleep_on(wait_recv)
  /\ npc' = IF Returns(wait_recv) THEN back ELSE asleep
  /\ UNCHANGED <<sockVars, wait_read, cb, seq_end, appVars>>

\* sleep_on(wait_recv), second half.
NetResume(asleep, back) ==
  /\ npc = asleep
  /\ wait_recv' = resume(wait_recv)
  /\ npc' = back
  /\ UNCHANGED <<sockVars, wait_read, cb, seq_end, appVars>>

\* The peer's FIN.  Every segment without TCP_PSH first sets rcv_nxt to its
\* seq_end; the reply ACK|FIN acknowledges that.
NetFin ==
  /\ npc = "idle" /\ state \in {"ESTABLISHED", "LAST_ACK"}
  /\ rcv_nxt' = StreamLen + 1
  /\ \/ /\ state = "ESTABLISHED"
        /\ state' = "LAST_ACK"
        /\ acked' = Ack(StreamLen + 1)
     \/ /\ state = "LAST_ACK"
        /\ UNCHANGED <<state, acked>>
  /\ UNCHANGED <<rcv_wnd, rcv_buf, rcv_ofo_buf, ofo_head, wait_read, wait_recv,
                 netVars, appVars>>

-----------------------------------------------------------------------------
(* The application thread: tcp_sock_read in a loop (tcp_server).           *)

\* while (ring_buffer_empty(...)) { unlock; sleep_on(wait_read); lock; }
ReadEmpty ==
  /\ rpc = "check" /\ ~RcvBufLocked
  /\ ring_buffer_used = 0
  /\ rpc' = "to_sleep"
  /\ UNCHANGED <<sockVars, wait_read, wait_recv, netVars, delivered>>

ReadSleep ==
  /\ rpc = "to_sleep"
  /\ wait_read' = sleep_on(wait_read)
  /\ rpc' = IF Returns(wait_read) THEN "check" ELSE "asleep"
  /\ UNCHANGED <<sockVars, wait_recv, netVars, delivered>>

ReadResume ==
  /\ rpc = "asleep"
  /\ wait_read' = resume(wait_read)
  /\ rpc' = "check"
  /\ UNCHANGED <<sockVars, wait_recv, netVars, delivered>>

\* Mutant: the head of the ring buffer is left one byte behind.
UnreadOneShort(n) == SubSeq(rcv_buf, n, Len(rcv_buf))
\* Mutant: rcv_wnd is not given back.
WndNotGivenBack(n) == rcv_wnd

Unread(n) == SubSeq(rcv_buf, n + 1, Len(rcv_buf))
WndAfterRead(n) == rcv_wnd + n

\* read_ring_buffer under the lock, rcv_wnd grows by what was read.
ReadData ==
  /\ rpc = "check" /\ ~RcvBufLocked
  /\ ring_buffer_used > 0
  /\ LET n == IF ring_buffer_used < ReadLen THEN ring_buffer_used ELSE ReadLen
     IN  /\ delivered' = delivered \o SubSeq(rcv_buf, 1, n)
         /\ rcv_buf' = Unread(n)
         /\ rcv_wnd' = WndAfterRead(n)
  /\ rpc' = "spin"
  /\ UNCHANGED <<state, rcv_nxt, rcv_ofo_buf, ofo_head, acked, wait_read, wait_recv,
                 netVars>>

\* while (tsk->wait_recv->sleep != 0);
ReadSpin ==
  /\ rpc = "spin" /\ ~wait_recv.sleep
  /\ rpc' = "wake"
  /\ UNCHANGED <<sockVars, wait_read, wait_recv, netVars, delivered>>

ReadWake ==
  /\ rpc = "wake"
  /\ wait_recv' = wake_up(wait_recv)
  /\ rpc' = "check"
  /\ UNCHANGED <<sockVars, wait_read, netVars, delivered>>

-----------------------------------------------------------------------------
NetArrive(s) == NetInOrder(s) \/ NetEarly(s) \/ NetOld(s)
NetData == \E s \in Segs : NetArrive(s)

NetRun == \/ NetInsert \/ NetDrain \/ NetDrained \/ NetNotify
          \/ NetSleep("insert_to_sleep", "insert_asleep", "insert")
          \/ NetSleep("drain_to_sleep", "drain_asleep", "drain")

NetWoken == /\ wait_recv.notified
            /\ \/ NetResume("insert_asleep", "insert")
               \/ NetResume("drain_asleep", "drain")

AppRun == ReadEmpty \/ ReadSleep \/ ReadData \/ ReadSpin \/ ReadWake
AppWoken == wait_read.notified /\ ReadResume

\* pthread_cond_wait may return without a signal.
Spurious == \/ ReadResume
            \/ NetResume("insert_asleep", "insert")
            \/ NetResume("drain_asleep", "drain")

Next == \/ NetData \/ NetFin \/ NetRun \/ NetWoken \/ NetUndefined
        \/ AppRun \/ AppWoken \/ Spurious

Spec == Init /\ [][Next]_vars

\* Both threads run when they can, a mutex is not withheld from a thread for
\* ever, a signalled thread wakes, and the peer's timer resends each segment
\* until it is acknowledged over a network that does not lose all copies; a
\* packet that has arrived waits in the device queue until the thread is idle.
Fairness ==
  /\ WF_vars(NetRun) /\ WF_vars(NetWoken)
  /\ SF_vars(AppRun) /\ WF_vars(AppWoken)
  /\ \A s \in Segs : SF_vars(acked < s.seq_end /\ NetArrive(s))

LiveSpec == Spec /\ Fairness

-----------------------------------------------------------------------------
(* Properties.                                                             *)

NetPc == {"idle", "insert", "drain", "notify", "undefined",
          "insert_to_sleep", "insert_asleep", "drain_to_sleep", "drain_asleep"}

\* The values the variables of the receive path take; rcv_wnd never leaves
\* 0 .. RcvBufSize, so its u16 never wraps.
TypeOK ==
  /\ state \in {"ESTABLISHED", "LAST_ACK"}
  /\ rcv_nxt \in 0 .. StreamLen + 1 /\ acked \in 0 .. StreamLen + 1
  /\ rcv_wnd \in 0 .. RcvBufSize
  /\ rcv_buf \in Seq(0 .. StreamLen - 1)
  /\ rcv_ofo_buf \in Seq(Segs) /\ ofo_head \in OfoHeads
  /\ wait_read \in Wait /\ wait_recv \in Wait
  /\ npc \in NetPc /\ cb \in Segs \cup {NoSegment} /\ seq_end \in 0 .. StreamLen
  /\ rpc \in {"check", "to_sleep", "asleep", "spin", "wake"}
  /\ delivered \in Seq(0 .. StreamLen - 1)

\* No freed entry of the out-of-order list has been read yet.  Once one has, the C
\* program is undefined, and what follows claims nothing.
Defined == npc # "undefined"

\* What the application has read, followed by what waits in rcv_buf, is an
\* initial part of the peer's stream: nothing twice, nothing skipped, in
\* order, whatever arrives, also when write_ofo_buffer has lost a segment, and however
\* often the network thread had to stop in the middle of the list (tcp_in.c, case
\* TCP_PSH).
StreamPrefix ==
  Defined => /\ \A i \in 1 .. Len(delivered) : delivered[i] = i - 1
             /\ \A i \in 1 .. Len(rcv_buf) : rcv_buf[i] = Len(delivered) + i - 1

\* The window advertised is exactly the room left in rcv_buf, although one
\* thread takes from it and another adds to it, and never falls below zero (tcp_in.c
\* 233, 249; tcp_sock.c 374).
RcvWndIsRoom ==
  Defined => rcv_wnd = RcvBufSize - Len(rcv_buf) /\ rcv_wnd \in Nat

\* The entries met from the head of the out-of-order list on are strictly sorted and,
\* when no segment is being processed, hold only data that is still missing (tcp_in.c
\* 69-91, 236-254).  That every early segment is among them is false: see
\* EarlyIsPended.
OfoSortedAndMissing ==
  Defined =>
    /\ \A i, j \in 1 .. Len(rcv_ofo_buf) :
         i < j => rcv_ofo_buf[i].seq < rcv_ofo_buf[j].seq
    /\ npc = "idle" /\ state = "ESTABLISHED" =>
         \A i \in 1 .. Len(rcv_ofo_buf) : rcv_ofo_buf[i].seq > rcv_nxt

\* Until the peer's FIN, an acknowledgement never covers a byte that is
\* neither read nor in rcv_buf: the peer may forget what it covers (tcp_in.c 255-267).
AckedIsStored ==
  Defined /\ state = "ESTABLISHED" => acked <= Len(delivered) + Len(rcv_buf)

\* Under every interleaving the receive path is the abstract byte stream, whose
\* peer may forget what was acknowledged: what is stored, acknowledged and read
\* moves as that stream allows, until a freed entry is read (tcp_in.c 220-271,
\* tcp_sock.c 365-380).
ByteStreamSpec ==
  INSTANCE ByteStream WITH
    stored <- Len(delivered) + Len(rcv_buf),
    mode   <- IF ~Defined THEN "failed" ELSE IF state = "LAST_ACK" THEN "closed" ELSE "open"
Stream == ByteStreamSpec!Spec

\* A run in which rcv_buf never stops the network thread, and the peer does not
\* close.  Where it does stop, the thread and the reader can wait for each other
\* for ever (tcp_in.c 229, tcp_sock.c 377).
Undisturbed ==
  [](state = "ESTABLISHED" /\ npc \in {"idle", "insert", "drain", "notify", "undefined"})

\* A reader that is asleep when a segment has been stored gets to read it, and
\* all that waited before it: a notification lost to the unlocked test of
\* wait_read->sleep (tcp_in.c 264) is made up for by the next segment.
SleeperReads ==
  Undisturbed =>
    \A k \in 1 .. StreamLen :
      rpc = "asleep" /\ npc = "notify" /\ Len(rcv_buf) + Len(delivered) >= k
        ~> Len(delivered) >= k \/ ~Defined

\* The whole stream gets acknowledged, whatever the order in which its segments
\* arrive, also if write_ofo_buffer loses some and the peer has to send them again,
\* unless the receiver reads the entry it has freed (tcp_in.c 220-271).
AllAcknowledged == Undisturbed => <>(acked = StreamLen \/ ~Defined)

\* tcp_sock.h 90-91: rcv_ofo_buf is "used to pend out-of-order packets".  An early
\* segment that is taken in is met in the list from then on.
EarlyIsPended ==
  [][\A s \in Segs : NetEarly(s) => s \in ToSet(rcv_ofo_buf')]_vars
=============================================================================
