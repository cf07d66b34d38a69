---------------------------- MODULE RingBuffer ----------------------------
(***************************************************************************)
(* The ring buffer of ring_buffer.h, as operators on the C struct.  Its    *)
(* array has one byte more than it may hold, so that head = tail means     *)
(* empty; what crosses the end of the array is copied in two pieces.       *)
(***************************************************************************)
EXTENDS Integers, Sequences

\* The values of the struct: head and tail are places in the array.
IsRing(r) ==
  /\ r = [size |-> r.size, head |-> r.head, tail |-> r.tail, buf |-> r.buf]
  /\ r.size \in Nat \ {0}
  /\ r.head \in 0 .. r.size - 1 /\ r.tail \in 0 .. r.size - 1
  /\ r.buf \in [0 .. r.size - 1 -> Nat]

\* Mutant: no byte is left free.
alloc_ring_bufferExact(n) ==
  [size |-> n, head |-> 0, tail |-> 0, buf |-> [i \in 0 .. n - 1 |-> 0]]

alloc_ring_buffer(n) ==
  [size |-> n + 1, head |-> 0, tail |-> 0, buf |-> [i \in 0 .. n |-> 0]]

\* ring_buffer_used and ring_buffer_free.
used(r) == (r.tail - r.head + r.size) % r.size
free(r) == r.size - used(r) - 1

\* memcpy of data to place `at` of array b, and of n bytes from there.
copy(b, at, data) ==
  [i \in DOMAIN b |-> IF i >= at /\ i < at + Len(data) THEN data[i - at + 1] ELSE b[i]]
slice(b, at, n) == [i \in 1 .. n |-> b[at + i - 1]]

\* The array after data has been written at the tail.
Filled(r, data) ==
  LET right == r.size - r.tail
  IN  IF r.tail + Len(data) > r.size
      THEN copy(copy(r.buf, r.tail, SubSeq(data, 1, right)),
                0, SubSeq(data, right + 1, Len(data)))
      ELSE copy(r.buf, r.tail, data)

write_ring_buffer(r, data) ==
  [size |-> r.size, head |-> r.head,
   tail |-> (r.tail + Len(data)) % r.size, buf |-> Filled(r, data)]

\* What a read of at most n bytes returns.
readable(r, n) == IF used(r) < n THEN used(r) ELSE n

Bytes(r, n) ==
  LET right == r.size - r.head
      left  == readable(r, n) - right
  IN  IF r.head + readable(r, n) > r.size
      THEN slice(r.buf, r.head, right) \o slice(r.buf, 0, left)
      ELSE slice(r.buf, r.head, readable(r, n))

read_ring_buffer(r, n) ==
  [size |-> r.size, head |-> (r.head + readable(r, n)) % r.size,
   tail |-> r.tail, buf |-> r.buf]

\* The bytes in the buffer, oldest first.
Contents(r) == [i \in 1 .. used(r) |-> r.buf[(r.head + i - 1) % r.size]]
=============================================================================
