---------------------------- MODULE ByteStream ----------------------------
(***************************************************************************)
(* What a TCP socket promises its two sides.  To the application that      *)
(* reads from it: the bytes come out in the order in which the peer wrote  *)
(* them, each one once, with none left out.  To the peer: a byte that is   *)
(* acknowledged has been stored and will not be needed again, until the    *)
(* FIN, which acknowledges the whole stream.  A socket may fail while it   *)
(* is open, and promises nothing from then on.  The k-th byte the peer     *)
(* wrote is named k-1.                                                     *)
(***************************************************************************)
EXTENDS Naturals, Sequences

CONSTANT StreamLen  \* number of bytes the peer writes

VARIABLES stored,    \* bytes stored so far, those included that were read
          acked,     \* highest acknowledgement number sent
          delivered, \* the bytes handed to the application
          mode       \* "open", "closed" by the peer, or "failed"

vars == <<stored, acked, delivered, mode>>

Init == stored = 0 /\ acked = 0 /\ delivered = << >> /\ mode = "open"

\* The next bytes of the stream have arrived.
Store ==
  /\ mode = "open"
  /\ stored' \in stored + 1 .. StreamLen
  /\ UNCHANGED <<acked, delivered, mode>>

Acknowledge ==
  /\ mode = "open"
  /\ acked' \in acked + 1 .. stored
  /\ UNCHANGED <<stored, delivered, mode>>

\* One call of tcp_sock_read hands over the next n bytes.
Deliver ==
  /\ mode # "failed"
  /\ \E n \in 1 .. stored - Len(delivered) :
       delivered' = delivered \o [i \in 1 .. n |-> Len(delivered) + i - 1]
  /\ UNCHANGED <<stored, acked, mode>>

\* The peer's FIN.
Close ==
  /\ mode = "open" /\ mode' = "closed"
  /\ acked' = StreamLen + 1
  /\ UNCHANGED <<stored, delivered>>

\* The last bytes may still be stored in the step that fails.
Fail ==
  /\ mode = "open" /\ mode' = "failed"
  /\ stored' \in stored .. StreamLen
  /\ UNCHANGED <<acked, delivered>>

Failed ==
  /\ mode = "failed"
  /\ acked' \in 0 .. StreamLen + 1
  /\ UNCHANGED <<stored, delivered, mode>>

Next == Store \/ Acknowledge \/ Deliver \/ Close \/ Fail \/ Failed

Spec == Init /\ [][Next]_vars
=============================================================================
