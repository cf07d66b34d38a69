---------------------------- MODULE TcpRecvRing ----------------------------
(***************************************************************************)
(* TcpRecv with the ring buffer of the program beside its sequence rcv_buf:*)
(* what the network thread stores is written to the ring, and what the     *)
(* reader takes is read from it.                                           *)
(***************************************************************************)
EXTENDS TcpRecv, RingBuffer

VARIABLES ring,  \* tsk->rcv_buf
          out    \* the bytes tcp_sock_read has copied out of it

ringVars == <<ring, out>>

RingInit ==
  /\ Init
  /\ ring = alloc_ring_buffer(RcvBufSize)
  /\ out = << >>

Written(s) ==
  /\ HasRoom(s)
  /\ ring' = write_ring_buffer(ring, payload(s))
  /\ UNCHANGED out

InsertWrites == NetInsert /\ Written(cb)
DrainWrites  == NetDrain /\ Written(Head(rcv_ofo_buf))

DataRead ==
  /\ ReadData
  /\ out' = out \o Bytes(ring, ReadLen)
  /\ ring' = read_ring_buffer(ring, ReadLen)

\* A step of TcpRecv that leaves the buffer alone.
Untouched == Next /\ UNCHANGED <<rcv_buf, delivered, ring, out>>

RingNext == Untouched \/ InsertWrites \/ DrainWrites \/ DataRead

RingSpec == RingInit /\ [][RingNext]_<<vars, ringVars>>

RingLiveSpec == RingSpec /\ Fairness

-----------------------------------------------------------------------------
(* Properties.                                                             *)

\* The ring holds the bytes of rcv_buf, in that order, and gives the reader the
\* bytes of delivered, wherever head and tail are: a copy in two pieces puts
\* no byte in the place of another, and a full ring is not taken for an empty one
\* (ring_buffer.h 55-119), until a freed entry is read.  So TcpRecv may treat the
\* buffer as a sequence.
RcvBufIsRing == Defined => Contents(ring) = rcv_buf /\ out = delivered
=============================================================================
