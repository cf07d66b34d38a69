-------------------------- MODULE ArpCache_proofs --------------------------
(* Proofs about ArpCache, for any number of hosts, slots, threads and packets: *)
(* the table maps what was heard last, a packet waits once and in the queue of *)
(* its destination, and none is left waiting for an address that is known.     *)
EXTENDS ArpCache, TLAPS

TableTypeOK ==
  /\ entries \in [Slots -> Mapping \cup {NoEntry}]
  /\ latest \in [Hosts -> Macs]

\* A free slot is no mapping: its address is our own.
LEMMA FreeIsNoMapping ==
  ASSUME NEW m \in Mapping
  PROVE  m # NoEntry /\ m.ip # Self /\ m.ip \in Hosts /\ m.mac \in Macs
BY ArpCacheAssumption DEF Mapping, NoEntry

\* The invariant holds of the two variables it speaks of.
LEMMA TableUnchanged ==
  ASSUME TableTypeOK, EntryIsLatest, UNCHANGED <<entries, latest>>
  PROVE  TableTypeOK' /\ EntryIsLatest'
BY DEF TableTypeOK, EntryIsLatest

\* arpcache_insert: a mapping that is known is updated where it is; one that is
\* not takes a single slot, so that no second one can appear.
LEMMA HearPreserves ==
  ASSUME TableTypeOK, EntryIsLatest, NEW m \in Mapping, Hear(m)
  PROVE  TableTypeOK' /\ EntryIsLatest'
<1>1. /\ entries' \in TablesAfter(m)
      /\ latest' = [latest EXCEPT ![m.ip] = m.mac]
  BY DEF Hear
<1>2. m # NoEntry /\ m.ip # Self /\ m.ip \in Hosts /\ m.mac \in Macs
  BY FreeIsNoMapping
<1>3. latest' \in [Hosts -> Macs] /\ latest'[m.ip] = m.mac
  BY <1>1, <1>2 DEF TableTypeOK
<1>4. \A h \in Hosts : h # m.ip => latest'[h] = latest[h]
  BY <1>1 DEF TableTypeOK
<1>5. \A i \in Slots : entries[i] # NoEntry => entries[i] \in Mapping /\ entries[i].ip \in Hosts
  BY FreeIsNoMapping DEF TableTypeOK
<1>6. CASE Known(m.ip)
  <2>1. entries' = [i \in Slots |-> IF entries[i].ip = m.ip THEN m ELSE entries[i]]
    BY <1>1, <1>6 DEF TablesAfter, Updated
  <2>2. TableTypeOK'
    BY <2>1, <1>3 DEF TableTypeOK
  <2>3. \A i \in Slots : entries'[i].ip = entries[i].ip
    BY <2>1
  <2>4. \A i \in Slots : entries'[i] # NoEntry => entries[i] # NoEntry
    <3>1. NoEntry.ip = Self
      BY DEF NoEntry
    <3> QED BY <2>1, <1>2, <3>1
  <2>5. \A i \in Slots : entries'[i] # NoEntry => entries'[i].mac = latest'[entries'[i].ip]
    BY <2>1, <2>4, <1>3, <1>4, <1>5 DEF EntryIsLatest
  <2> QED BY <2>2, <2>3, <2>4, <2>5 DEF EntryIsLatest
<1>7. CASE ~Known(m.ip)
  <2>1. \/ entries' = entries /\ \A i \in Slots : entries[i] # NoEntry
        \/ \E k \in Slots : entries' = [entries EXCEPT ![k] = m]
    BY <1>1, <1>7 DEF TablesAfter, Inserted
  <2>2. \A i \in Slots : entries[i] # NoEntry => entries[i].ip # m.ip
    BY <1>7 DEF Known
  <2>3. \A i \in Slots : entries[i] # NoEntry => entries[i].mac = latest'[entries[i].ip]
    BY <2>2, <1>4, <1>5 DEF EntryIsLatest
  <2>4. CASE entries' = entries
    BY <2>4, <2>3, <1>3 DEF TableTypeOK, EntryIsLatest
  <2>5. ASSUME NEW k \in Slots, entries' = [entries EXCEPT ![k] = m]
        PROVE  TableTypeOK' /\ EntryIsLatest'
    <3>1. entries'[k] = m /\ \A i \in Slots : i # k => entries'[i] = entries[i]
      BY <2>5 DEF TableTypeOK
    <3>2. TableTypeOK'
      BY <2>5, <1>3 DEF TableTypeOK
    <3>3. \A i \in Slots : entries'[i] # NoEntry => entries'[i].mac = latest'[entries'[i].ip]
      BY <3>1, <2>3, <1>3
    <3>4. \A i, j \in Slots :
            entries'[i] # NoEntry /\ entries'[j] # NoEntry /\ entries'[j].ip = entries'[i].ip
              => i = j
      <4> SUFFICES ASSUME NEW i \in Slots, NEW j \in Slots,
                          entries'[i] # NoEntry, entries'[j] # NoEntry,
                          entries'[j].ip = entries'[i].ip
                   PROVE  i = j
        OBVIOUS
      <4>1. CASE i = k
        BY <4>1, <3>1, <2>2
      <4>2. CASE j = k
        BY <4>2, <3>1, <2>2
      <4>3. CASE i # k /\ j # k
        <5>1. entries'[i] = entries[i] /\ entries'[j] = entries[j]
          BY <4>3, <3>1
        <5>2. entries[i] # NoEntry /\ entries[j] # NoEntry /\ entries[j].ip = entries[i].ip
          BY <5>1
        <5> QED BY <5>2 DEF EntryIsLatest
      <4> QED BY <4>1, <4>2, <4>3
    <3> QED BY <3>2, <3>3, <3>4 DEF EntryIsLatest
  <2> QED BY <2>1, <2>4, <2>5
<1> QED BY <1>6, <1>7

\* arpcache_sweep only takes mappings away.
LEMMA SweepPreserves ==
  ASSUME TableTypeOK, EntryIsLatest, SweepBegin
  PROVE  TableTypeOK' /\ EntryIsLatest'
<1>1. PICK old \in SUBSET Slots :
        entries' = [i \in Slots |-> IF i \in old THEN NoEntry ELSE entries[i]]
  BY DEF SweepBegin
<1>2. latest' = latest
  BY DEF SweepBegin
<1>3. TableTypeOK'
  BY <1>1, <1>2 DEF TableTypeOK
<1>4. \A i \in Slots : entries'[i] # NoEntry => entries'[i] = entries[i]
  BY <1>1
<1> QED BY <1>2, <1>3, <1>4 DEF EntryIsLatest

\* The table always maps each host to the hardware address heard last
\* (arpcache.c 73-97, 133-137), whatever the threads do meanwhile.
THEOREM EntryIsLatestCorrect == Spec => []EntryIsLatest
<1>1. Init => TableTypeOK /\ EntryIsLatest
  <2> SUFFICES ASSUME Init PROVE TableTypeOK /\ EntryIsLatest
    OBVIOUS
  <2>1. entries = [i \in Slots |-> NoEntry]
    BY DEF Init
  <2>2. latest \in [Hosts -> Macs]
    BY ArpCacheAssumption DEF Init
  <2> QED BY <2>1, <2>2 DEF TableTypeOK, EntryIsLatest
<1>2. TableTypeOK /\ EntryIsLatest /\ [Next]_vars => TableTypeOK' /\ EntryIsLatest'
  <2> SUFFICES ASSUME TableTypeOK, EntryIsLatest, [Next]_vars
               PROVE  TableTypeOK' /\ EntryIsLatest'
    OBVIOUS
  <2>1. CASE \E m \in Mapping : Hear(m)
    BY <2>1, HearPreserves
  <2>2. CASE SweepBegin
    BY <2>2, SweepPreserves
  <2>3. CASE \E t \in Threads : ThreadStep(t)
    <3>1. UNCHANGED <<entries, latest>>
      BY <2>3 DEF ThreadStep, AppendPacket, Ask, cacheVars
    <3> QED BY <3>1, TableUnchanged
  <2>4. CASE \E t \in Senders, p \in Packets : Send(t, p)
    <3>1. UNCHANGED <<entries, latest>>
      BY <2>4 DEF Send, cacheVars
    <3> QED BY <3>1, TableUnchanged
  <2>5. CASE SweepRequest \/ SweepEnd \/ SendError \/ UNCHANGED vars
    <3>1. UNCHANGED <<entries, latest>>
      BY <2>5 DEF SweepRequest, SweepEnd, SendError, cacheVars, vars
    <3> QED BY <3>1, TableUnchanged
  <2> QED BY <2>1, <2>2, <2>3, <2>4, <2>5 DEF Next, SweeperStep, Sweep, Threads
<1> QED BY <1>1, <1>2, PTL DEF Spec

-----------------------------------------------------------------------------
(* The packets that wait.                                                  *)

\* A thread between its lookup and its append holds a packet no other has.
HeldByOne ==
  /\ \A t \in Threads : pc[t] = "append" => pkt[t] \in Packets /\ place[pkt[t]] = "held"
  /\ \A t, u \in Threads : pc[t] = "append" /\ pc[u] = "append" /\ pkt[t] = pkt[u] => t = u

\* The list of the sweeping thread holds each packet once.
RejectedOnce ==
  /\ IsInjective(rejected)
  /\ \A p \in ToSet(rejected) : place[p] = "rejected"

IInv == TypeOK /\ PendingOnce /\ HeldByOne /\ RejectedOnce

\* Where concatenation puts the elements.
LEMMA ConcatFacts ==
  ASSUME NEW S, NEW q \in Seq(S), NEW r \in Seq(S)
  PROVE  /\ q \o r \in Seq(S)
         /\ Len(q \o r) = Len(q) + Len(r)
         /\ \A i \in 1 .. Len(q) : (q \o r)[i] = q[i]
         /\ \A i \in Len(q) + 1 .. Len(q) + Len(r) : (q \o r)[i] = r[i - Len(q)]
  OBVIOUS

\* Joining two lists with no element in common.
LEMMA ConcatOnce ==
  ASSUME NEW S, NEW q \in Seq(S), NEW r \in Seq(S),
         IsInjective(q), IsInjective(r), ToSet(q) \cap ToSet(r) = {}
  PROVE  IsInjective(q \o r) /\ ToSet(q \o r) = ToSet(q) \cup ToSet(r)
<1> DEFINE c == q \o r
<1>1. /\ c \in Seq(S) /\ Len(c) = Len(q) + Len(r)
      /\ \A i \in 1 .. Len(q) : c[i] = q[i]
      /\ \A i \in Len(q) + 1 .. Len(q) + Len(r) : c[i] = r[i - Len(q)]
  BY ConcatFacts
<1> HIDE DEF c
<1>2. /\ DOMAIN c = 1 .. Len(q) + Len(r) /\ DOMAIN q = 1 .. Len(q) /\ DOMAIN r = 1 .. Len(r)
      /\ Len(q) \in Nat /\ Len(r) \in Nat
  BY <1>1
<1>3. \A i \in DOMAIN c : \/ i \in DOMAIN q /\ c[i] = q[i] /\ c[i] \in ToSet(q)
                          \/ /\ i - Len(q) \in DOMAIN r /\ c[i] = r[i - Len(q)]
                             /\ c[i] \in ToSet(r)
  BY <1>1, <1>2 DEF ToSet
<1>4. \A i \in DOMAIN r : i + Len(q) \in DOMAIN c /\ c[i + Len(q)] = r[i]
  <2> SUFFICES ASSUME NEW i \in DOMAIN r PROVE i + Len(q) \in DOMAIN c /\ c[i + Len(q)] = r[i]
    OBVIOUS
  <2>1. i + Len(q) \in Len(q) + 1 .. Len(q) + Len(r) /\ (i + Len(q)) - Len(q) = i
    BY <1>2
  <2>2. c[i + Len(q)] = r[(i + Len(q)) - Len(q)]
    BY <2>1, <1>1
  <2> QED BY <2>1, <2>2, <1>2
<1>5. \A i \in DOMAIN q : i \in DOMAIN c /\ c[i] = q[i]
  BY <1>1, <1>2
<1>6. ToSet(c) = ToSet(q) \cup ToSet(r)
  BY <1>3, <1>4, <1>5 DEF ToSet
<1>7. ASSUME NEW i \in DOMAIN c, NEW j \in DOMAIN c, c[i] = c[j] PROVE i = j
  <2>1. CASE i \in DOMAIN q /\ c[i] = q[i] /\ j \in DOMAIN q /\ c[j] = q[j]
    BY <2>1, <1>7 DEF IsInjective
  <2>2. CASE /\ i - Len(q) \in DOMAIN r /\ c[i] = r[i - Len(q)]
             /\ j - Len(q) \in DOMAIN r /\ c[j] = r[j - Len(q)]
    <3>1. i - Len(q) = j - Len(q)
      BY <2>2, <1>7 DEF IsInjective
    <3> QED BY <3>1, <1>2
  <2> QED BY <2>1, <2>2, <1>3, <1>7
<1> QED BY <1>6, <1>7 DEF IsInjective, c

\* The same of a single element.
LEMMA AppendOnce ==
  ASSUME NEW S, NEW q \in Seq(S), NEW e \in S, IsInjective(q), e \notin ToSet(q)
  PROVE  /\ Append(q, e) \in Seq(S)
         /\ IsInjective(Append(q, e)) /\ ToSet(Append(q, e)) = ToSet(q) \cup {e}
<1> DEFINE a == Append(q, e)
<1>1. /\ a \in Seq(S) /\ DOMAIN a = 1 .. Len(q) + 1 /\ a[Len(q) + 1] = e
      /\ Len(q) \in Nat /\ DOMAIN q = 1 .. Len(q)
      /\ \A i \in 1 .. Len(q) : a[i] = q[i]
  OBVIOUS
<1> HIDE DEF a
<1>2. \A i \in DOMAIN a : \/ i \in DOMAIN q /\ a[i] = q[i] /\ a[i] \in ToSet(q)
                          \/ i = Len(q) + 1 /\ a[i] = e
  BY <1>1 DEF ToSet
<1>3. \A i \in DOMAIN q : i \in DOMAIN a /\ a[i] = q[i]
  BY <1>1
<1>4. Len(q) + 1 \in DOMAIN a
  BY <1>1
<1>5. ToSet(a) = ToSet(q) \cup {e}
  BY <1>1, <1>2, <1>3, <1>4 DEF ToSet
<1>6. IsInjective(a)
  BY <1>2 DEF IsInjective
<1> QED BY <1>1, <1>5, <1>6 DEF a

\* Where RemoveAt leaves the elements.
LEMMA RemoveAtFacts ==
  ASSUME NEW S, NEW q \in Seq(S), NEW k \in 1 .. Len(q)
  PROVE  /\ RemoveAt(q, k) \in Seq(S)
         /\ Len(RemoveAt(q, k)) = Len(q) - 1
         /\ \A i \in 1 .. k - 1 : RemoveAt(q, k)[i] = q[i]
         /\ \A i \in k .. Len(q) - 1 : RemoveAt(q, k)[i] = q[i + 1]
<1> DEFINE a == SubSeq(q, 1, k - 1)
           b == SubSeq(q, k + 1, Len(q))
<1>1. a \in Seq(S) /\ Len(a) = k - 1 /\ \A i \in 1 .. k - 1 : a[i] = q[i]
  OBVIOUS
<1>2. /\ b \in Seq(S) /\ Len(b) = Len(q) - k
      /\ \A i \in 1 .. Len(q) - k : b[i] = q[i + k]
  OBVIOUS
<1>3. RemoveAt(q, k) = a \o b
  BY DEF RemoveAt
<1> HIDE DEF a, b
<1>4. /\ a \o b \in Seq(S)
      /\ Len(a \o b) = Len(a) + Len(b)
      /\ \A i \in 1 .. Len(a) : (a \o b)[i] = a[i]
      /\ \A i \in Len(a) + 1 .. Len(a) + Len(b) : (a \o b)[i] = b[i - Len(a)]
  BY <1>1, <1>2, ConcatFacts
<1> DEFINE c == a \o b
<1> HIDE DEF c
<1>5. /\ c \in Seq(S) /\ Len(c) = Len(q) - 1
      /\ \A i \in 1 .. k - 1 : c[i] = a[i]
      /\ \A i \in k .. Len(q) - 1 : c[i] = b[i - (k - 1)]
  <2>1. Len(q) \in Nat /\ k \in 1 .. Len(q)
    OBVIOUS
  <2>2. /\ Len(a) + Len(b) = Len(q) - 1 /\ Len(a) = k - 1
        /\ Len(a) + 1 .. Len(a) + Len(b) = k .. Len(q) - 1
    BY <1>1, <1>2, <2>1
  <2> QED  BY <1>4, <2>2 DEF c
<1>6. \A i \in k .. Len(q) - 1 : b[i - (k - 1)] = q[i + 1]
  <2> SUFFICES ASSUME NEW i \in k .. Len(q) - 1 PROVE b[i - (k - 1)] = q[i + 1]
    OBVIOUS
  <2>1. i - (k - 1) \in 1 .. Len(q) - k /\ (i - (k - 1)) + k = i + 1
    OBVIOUS
  <2> QED BY <2>1, <1>2
<1> QED BY <1>1, <1>3, <1>5, <1>6 DEF c

\* Where the element now at i was before the one at k was removed.
Before(i, k) == IF i < k THEN i ELSE i + 1

\* The same said of the elements: all but the one at k stay, each at one place.
LEMMA RemoveAtMoves ==
  ASSUME NEW S, NEW q \in Seq(S), NEW k \in 1 .. Len(q)
  PROVE  /\ RemoveAt(q, k) \in Seq(S)
         /\ \A i \in 1 .. Len(RemoveAt(q, k)) :
              /\ Before(i, k) \in 1 .. Len(q) /\ Before(i, k) # k
              /\ RemoveAt(q, k)[i] = q[Before(i, k)]
         /\ \A i, j \in 1 .. Len(RemoveAt(q, k)) : i # j => Before(i, k) # Before(j, k)
         /\ \A i \in 1 .. Len(q) :
              i # k => \E j \in 1 .. Len(RemoveAt(q, k)) : RemoveAt(q, k)[j] = q[i]
<1> DEFINE r == RemoveAt(q, k)
<1>1. /\ r \in Seq(S) /\ Len(r) = Len(q) - 1
      /\ \A i \in 1 .. k - 1 : r[i] = q[i]
      /\ \A i \in k .. Len(q) - 1 : r[i] = q[i + 1]
  BY RemoveAtFacts
<1> HIDE DEF r
<1>2. ASSUME NEW i \in 1 .. Len(q), i # k PROVE \E j \in 1 .. Len(r) : r[j] = q[i]
  <2>1. CASE i < k
    BY <2>1, <1>1
  <2>2. CASE i > k
    <3>1. i - 1 \in k .. Len(q) - 1 /\ (i - 1) + 1 = i
      BY <2>2
    <3>2. i - 1 \in 1 .. Len(r) /\ r[i - 1] = q[i]
      BY <3>1, <1>1
    <3> QED BY <3>2
  <2> QED BY <1>2, <2>1, <2>2
<1>3. \A i \in 1 .. Len(r) : /\ Before(i, k) \in 1 .. Len(q) /\ Before(i, k) # k
                             /\ r[i] = q[Before(i, k)]
  BY <1>1 DEF Before
<1>4. \A i, j \in 1 .. Len(r) : i # j => Before(i, k) # Before(j, k)
  BY <1>1 DEF Before
<1> QED BY <1>1, <1>2, <1>3, <1>4 DEF r

Indices == 1 .. Len(req_list)
Queue(i) == req_list[i].cached_packets

\* What the type invariant says of a request.
LEMMA RequestFacts ==
  ASSUME TypeOK
  PROVE  /\ Len(req_list) \in Nat
         /\ \A i \in Indices : /\ req_list[i] \in Request /\ req_list[i].ip \in Ips
                               /\ Queue(i) \in Seq(Packets) /\ ToSet(Queue(i)) \subseteq Packets
<1>1. req_list \in Seq(Request)
  BY DEF TypeOK
<1>2. \A i \in Indices : req_list[i] \in Request
  BY <1>1 DEF Indices
<1>3. \A r \in Request : r.ip \in Ips /\ r.cached_packets \in Seq(Packets)
  BY DEF Request
<1>4. \A q \in Seq(Packets) : ToSet(q) \subseteq Packets
  BY DEF ToSet
<1> QED BY <1>1, <1>2, <1>3, <1>4 DEF Queue

\* The queues stay, and what is pending stays pending for the same address.
LEMMA PendingFrame ==
  ASSUME TypeOK, PendingOnce,
         Len(req_list') = Len(req_list),
         \A i \in Indices : /\ req_list'[i].ip = req_list[i].ip
                            /\ req_list'[i].cached_packets = req_list[i].cached_packets,
         \A p \in Packets : /\ place'[p] = "pending" <=> place[p] = "pending"
                            /\ place[p] = "pending" => dst'[p] = dst[p]
  PROVE  PendingOnce'
  BY DEF PendingOnce, Indices

\* A packet that no queue holds is appended to the queue of its destination, or
\* gets one.
LEMMA AppendPreserves ==
  ASSUME IInv, NEW t \in Threads, AppendPacket(t)
  PROVE  PendingOnce' /\ req_list' \in Seq(Request)
<1> DEFINE p == pkt[t]
<1>1. p \in Packets /\ place[p] = "held" /\ dst[p] \in Ips
  BY DEF IInv, TypeOK, HeldByOne, AppendPacket
<1>2. place' = [place EXCEPT ![p] = "pending"] /\ dst' = dst
  BY DEF AppendPacket
<1>3. /\ place'[p] = "pending"
      /\ \A o \in Packets : o # p => place'[o] = place[o]
  BY <1>1, <1>2 DEF IInv, TypeOK
<1>4. /\ req_list \in Seq(Request)
      /\ \A i \in Indices : req_list[i] \in Request /\ Queue(i) \in Seq(Packets)
  BY RequestFacts DEF IInv, TypeOK
<1>5. \A i \in Indices : p \notin ToSet(Queue(i))
  BY <1>1 DEF IInv, PendingOnce, Queue, Indices
<1>6. CASE RequestsFor(dst[p]) = {} /\ req_list' = <<NewRequest(p)>> \o req_list
  <2> DEFINE r == NewRequest(p)
  <2>1. r.ip = dst[p] /\ r.cached_packets = <<p>>
    BY DEF NewRequest
  <2>2. r \in Request
    BY <1>1, ArpCacheAssumption DEF NewRequest, Request
  <2> HIDE DEF r
  <2>3. /\ req_list' \in Seq(Request) /\ Len(req_list') = 1 + Len(req_list)
        /\ req_list'[1] = r
        /\ \A i \in 2 .. 1 + Len(req_list) : req_list'[i] = req_list[i - 1]
    <3>1. <<r>> \in Seq(Request) /\ Len(<<r>>) = 1 /\ <<r>>[1] = r
      BY <2>2
    <3>2. req_list' = <<r>> \o req_list
      BY <1>6 DEF r
    <3> QED BY <1>4, <3>1, <3>2, ConcatFacts
  <2>4. \A i \in Indices : req_list[i].ip # dst[p]
    BY <1>6 DEF RequestsFor, Indices
  <2>5. \A i \in 1 .. Len(req_list') : i = 1 \/ (i - 1 \in Indices /\ req_list'[i] = req_list[i - 1])
    BY <2>3, <1>4 DEF Indices
  <2>6. ASSUME NEW i \in 1 .. Len(req_list'), NEW j \in 1 .. Len(req_list'), i # j
        PROVE  req_list'[i].ip # req_list'[j].ip
    <3>1. CASE i = 1
      BY <3>1, <2>1, <2>3, <2>4, <2>5, <2>6
    <3>2. CASE j = 1
      BY <3>2, <2>1, <2>3, <2>4, <2>5, <2>6
    <3>3. CASE i # 1 /\ j # 1
      <4>1. i - 1 # j - 1
        BY <2>6, <2>3
      <4>2. req_list[i - 1].ip # req_list[j - 1].ip
        BY <3>3, <4>1, <2>5 DEF IInv, PendingOnce, Indices
      <4> QED BY <3>3, <4>2, <2>5
    <3> QED BY <3>1, <3>2, <3>3
  <2>7. ASSUME NEW i \in 1 .. Len(req_list')
        PROVE  /\ IsInjective(req_list'[i].cached_packets)
               /\ \A o \in Packets : o \in ToSet(req_list'[i].cached_packets)
                                       <=> place'[o] = "pending" /\ dst[o] = req_list'[i].ip
    <3>1. CASE i = 1
      <4>1. IsInjective(<<p>>) /\ ToSet(<<p>>) = {p}
        BY DEF IsInjective, ToSet
      <4>2. \A o \in Packets : place[o] = "pending" => dst[o] # dst[p]
        BY <2>4 DEF IInv, PendingOnce, Indices
      <4> QED BY <3>1, <4>1, <4>2, <2>1, <2>3, <1>1, <1>3
    <3>2. CASE i # 1
      <4>1. i - 1 \in Indices /\ req_list'[i] = req_list[i - 1] /\ req_list[i - 1].ip # dst[p]
        BY <3>2, <2>4, <2>5
      <4>2. /\ IsInjective(req_list[i - 1].cached_packets)
            /\ \A o \in Packets : o \in ToSet(req_list[i - 1].cached_packets)
                                    <=> place[o] = "pending" /\ dst[o] = req_list[i - 1].ip
        BY <4>1 DEF IInv, PendingOnce, Indices
      <4> QED BY <4>1, <4>2, <1>1, <1>3
    <3> QED BY <3>1, <3>2
  <2>8. ASSUME NEW o \in Packets, place'[o] = "pending"
        PROVE  \E i \in 1 .. Len(req_list') : dst[o] = req_list'[i].ip
    <3>1. CASE o = p
      BY <3>1, <2>1, <2>3, <1>4
    <3>2. CASE o # p
      <4>1. place[o] = "pending"
        BY <2>8, <3>2, <1>3
      <4>2. PICK i \in Indices : dst[o] = req_list[i].ip
        BY <4>1 DEF IInv, PendingOnce, Indices
      <4>3. i + 1 \in 1 .. Len(req_list') /\ req_list'[i + 1] = req_list[i]
        BY <2>3, <1>4 DEF Indices
      <4> QED BY <4>2, <4>3
    <3> QED BY <3>1, <3>2
  <2> QED BY <2>3, <2>6, <2>7, <2>8, <1>2 DEF PendingOnce
<1>7. ASSUME NEW k \in RequestsFor(dst[p]),
             req_list' = [req_list EXCEPT ![k].cached_packets = Append(@, p)]
      PROVE  PendingOnce' /\ req_list' \in Seq(Request)
  <2>1. k \in Indices /\ req_list[k].ip = dst[p]
    BY <1>7 DEF RequestsFor, Indices
  <2> DEFINE r == [req_list[k] EXCEPT !.cached_packets = Append(@, p)]
             q == Append(Queue(k), p)
  <2> HIDE DEF p
  <2>2. q \in Seq(Packets) /\ IsInjective(q) /\ ToSet(q) = ToSet(Queue(k)) \cup {p}
    <3>1. Queue(k) \in Seq(Packets) /\ IsInjective(Queue(k)) /\ p \notin ToSet(Queue(k))
      BY <2>1, <1>4, <1>5 DEF IInv, PendingOnce, Queue, Indices
    <3> QED BY <3>1, <1>1, AppendOnce
  <2>3. r.cached_packets = q /\ r.ip = dst[p] /\ r \in Request
    BY <2>1, <2>2, <1>4 DEF Request, Queue
  <2>4. /\ req_list' \in Seq(Request) /\ Len(req_list') = Len(req_list)
        /\ req_list'[k] = r
        /\ \A i \in Indices : i # k => req_list'[i] = req_list[i]
    <3>1. req_list' = [req_list EXCEPT ![k] = r]
      BY <1>7
    <3> HIDE DEF r, q
    <3> QED BY <3>1, <2>1, <2>3, <1>4 DEF Indices
  <2> HIDE DEF r, q
  <2>5. \A i \in Indices : req_list'[i].ip = req_list[i].ip
    BY <2>1, <2>3, <2>4
  <2>6. ASSUME NEW i \in Indices
        PROVE  /\ IsInjective(req_list'[i].cached_packets)
               /\ \A o \in Packets : o \in ToSet(req_list'[i].cached_packets)
                                       <=> place'[o] = "pending" /\ dst[o] = req_list[i].ip
    <3>1. /\ IsInjective(Queue(i))
          /\ \A o \in Packets : o \in ToSet(Queue(i))
                                  <=> place[o] = "pending" /\ dst[o] = req_list[i].ip
      BY DEF IInv, PendingOnce, Queue, Indices
    <3>2. CASE i = k
      BY <3>1, <3>2, <2>1, <2>2, <2>3, <2>4, <1>1, <1>3
    <3>3. CASE i # k
      <4>1. req_list'[i] = req_list[i] /\ req_list[i].ip # dst[p]
        BY <3>3, <2>1, <2>4 DEF IInv, PendingOnce, Indices
      <4> QED BY <4>1, <3>1, <1>3 DEF Queue
    <3> QED BY <3>2, <3>3
  <2>7. \A o \in Packets : place'[o] = "pending" => \E i \in Indices : dst[o] = req_list[i].ip
    BY <2>1, <1>3 DEF IInv, PendingOnce, Indices
  <2> QED BY <2>4, <2>5, <2>6, <2>7, <1>2 DEF IInv, PendingOnce, Indices
<1> QED BY <1>6, <1>7 DEF AppendPacket

\* A request leaves the list with all its packets.
LEMMA RemovePreserves ==
  ASSUME TypeOK, PendingOnce, NEW k \in Indices, NEW where, where # "pending",
         req_list' = RemoveAt(req_list, k), dst' = dst,
         place' = [p \in Packets |-> IF p \in ToSet(Queue(k)) THEN where ELSE place[p]]
  PROVE  /\ PendingOnce' /\ req_list' \in Seq(Request)
         /\ \A p \in Packets : place'[p] = "pending" => dst[p] # req_list[k].ip
<1> DEFINE f(i) == Before(i, k)
<1>1. /\ req_list' \in Seq(Request)
      /\ \A i \in 1 .. Len(req_list') : f(i) \in Indices /\ f(i) # k /\ req_list'[i] = req_list[f(i)]
      /\ \A i, j \in 1 .. Len(req_list') : i # j => f(i) # f(j)
      /\ \A i \in Indices : i # k => \E j \in 1 .. Len(req_list') : req_list'[j] = req_list[i]
  <2>1. req_list \in Seq(Request) /\ Indices = 1 .. Len(req_list)
    BY DEF TypeOK, Indices
  <2> DEFINE r == RemoveAt(req_list, k)
  <2>2. k \in 1 .. Len(req_list)
    BY <2>1
  <2>3. /\ r \in Seq(Request)
        /\ \A i \in 1 .. Len(r) : f(i) \in 1 .. Len(req_list) /\ f(i) # k /\ r[i] = req_list[f(i)]
        /\ \A i, j \in 1 .. Len(r) : i # j => f(i) # f(j)
        /\ \A i \in 1 .. Len(req_list) : i # k => \E j \in 1 .. Len(r) : r[j] = req_list[i]
    BY <2>1, <2>2, RemoveAtMoves
  <2>4. req_list' = r
    OBVIOUS
  <2> HIDE DEF r, f
  <2> QED BY <2>1, <2>3, <2>4
<1> HIDE DEF f
<1>2. \A p \in Packets : p \in ToSet(Queue(k)) <=> place[p] = "pending" /\ dst[p] = req_list[k].ip
  BY DEF PendingOnce, Queue, Indices
<1>3. \A p \in Packets : place'[p] = "pending" <=> place[p] = "pending" /\ dst[p] # req_list[k].ip
  BY <1>2
<1>4. \A i, j \in 1 .. Len(req_list') : i # j => req_list'[i].ip # req_list'[j].ip
  <2>1. \A i, j \in Indices : i # j => req_list[i].ip # req_list[j].ip
    BY DEF PendingOnce, Indices
  <2> SUFFICES ASSUME NEW i \in 1 .. Len(req_list'), NEW j \in 1 .. Len(req_list'), i # j
               PROVE  req_list'[i].ip # req_list'[j].ip
    OBVIOUS
  <2>2. /\ f(i) \in Indices /\ req_list'[i] = req_list[f(i)]
        /\ f(j) \in Indices /\ req_list'[j] = req_list[f(j)] /\ f(i) # f(j)
    BY <1>1
  <2> QED BY <2>1, <2>2
<1>5. ASSUME NEW i \in 1 .. Len(req_list')
      PROVE  /\ IsInjective(req_list'[i].cached_packets)
             /\ \A p \in Packets : p \in ToSet(req_list'[i].cached_packets)
                                     <=> place'[p] = "pending" /\ dst[p] = req_list'[i].ip
  <2>1. /\ IsInjective(req_list'[i].cached_packets)
        /\ \A p \in Packets : p \in ToSet(req_list'[i].cached_packets)
                                <=> place[p] = "pending" /\ dst[p] = req_list'[i].ip
    <3>1. f(i) \in 1 .. Len(req_list) /\ req_list'[i] = req_list[f(i)]
      BY <1>1 DEF Indices
    <3>2. PICK j \in 1 .. Len(req_list) : req_list'[i] = req_list[j]
      BY <3>1
    <3>3. /\ IsInjective(req_list[j].cached_packets)
          /\ \A p \in Packets : p \in ToSet(req_list[j].cached_packets)
                                  <=> place[p] = "pending" /\ dst[p] = req_list[j].ip
      BY DEF PendingOnce
    <3> QED BY <3>2, <3>3
  <2>2. req_list'[i].ip # req_list[k].ip
    <3>1. \A j \in Indices : j # k => req_list[j].ip # req_list[k].ip
      BY DEF PendingOnce, Indices
    <3> QED BY <3>1, <1>1
  <2> QED BY <2>1, <2>2, <1>3
<1>6. ASSUME NEW p \in Packets, place'[p] = "pending"
      PROVE  \E i \in 1 .. Len(req_list') : dst[p] = req_list'[i].ip
  <2>1. place[p] = "pending" /\ dst[p] # req_list[k].ip
    BY <1>6, <1>3
  <2>2. PICK i \in Indices : dst[p] = req_list[i].ip
    BY <2>1 DEF PendingOnce, Indices
  <2> QED BY <2>1, <2>2, <1>1
<1> QED BY <1>1, <1>3, <1>4, <1>5, <1>6 DEF PendingOnce

\* What arpcache_insert does to the packets that wait: those for the address are
\* sent, the others stay where they are.
LEMMA HearFlushes ==
  ASSUME TypeOK, PendingOnce, NEW m \in Mapping, Hear(m)
  PROVE  /\ PendingOnce' /\ req_list' \in Seq(Request)
         /\ place' \in [Packets -> {"new", "held", "pending", "rejected", "sent"}]
         /\ \A p \in Packets : place'[p] = place[p] \/ place[p] = "pending"
         /\ \A p \in Packets : place'[p] = "pending" => dst[p] # m.ip
<1> DEFINE flushed == Released(m)
           gone == UNION {ToSet(req_list[i].cached_packets) : i \in flushed}
<1>1. /\ req_list' = IF flushed = {} THEN req_list
                     ELSE RemoveAt(req_list, CHOOSE i \in flushed : TRUE)
      /\ place' = [p \in Packets |-> IF p \in gone THEN "sent" ELSE place[p]]
      /\ dst' = dst
  BY DEF Hear
<1>2. place \in [Packets -> {"new", "held", "pending", "rejected", "sent"}]
  BY DEF TypeOK
<1>3. place' \in [Packets -> {"new", "held", "pending", "rejected", "sent"}]
  BY <1>1, <1>2
<1>4. CASE flushed = {}
  <2>1. req_list' = req_list /\ place' = place
    BY <1>1, <1>2, <1>4
  <2>2. PendingOnce' /\ req_list' \in Seq(Request)
    BY <2>1, <1>1, PendingFrame DEF TypeOK
  <2>3. \A i \in Indices : req_list[i].ip # m.ip
    <3> SUFFICES ASSUME NEW k \in Indices, req_list[k].ip = m.ip PROVE FALSE
      OBVIOUS
    <3>1. \A j \in 1 .. k - 1 : req_list[j].ip # m.ip
      <4>1. \A j \in 1 .. k - 1 : j \in Indices /\ j # k
        BY RequestFacts DEF Indices
      <4> QED BY <4>1 DEF PendingOnce, Indices
    <3>2. k \in flushed
      BY <3>1 DEF Released, Indices
    <3> QED BY <3>2, <1>4
  <2> QED BY <2>1, <2>2, <2>3, <1>3 DEF PendingOnce, Indices
<1>5. CASE flushed # {}
  <2>1. PICK k \in flushed : k = CHOOSE i \in flushed : TRUE
    BY <1>5
  <2>2. k \in Indices /\ req_list[k].ip = m.ip
    BY <2>1 DEF Released, Indices
  <2>3. \A i \in flushed : i = k
    BY <2>2 DEF Released, PendingOnce, Indices
  <2>4. gone = ToSet(Queue(k))
    BY <2>1, <2>3 DEF Queue
  <2>5. /\ req_list' = RemoveAt(req_list, k)
        /\ place' = [p \in Packets |-> IF p \in ToSet(Queue(k)) THEN "sent" ELSE place[p]]
    BY <1>1, <1>5, <2>1, <2>4
  <2>6. /\ PendingOnce' /\ req_list' \in Seq(Request)
        /\ \A p \in Packets : place'[p] = "pending" => dst[p] # req_list[k].ip
    <3>1. "sent" # "pending"
      OBVIOUS
    <3> HIDE DEF flushed, gone
    <3> QED BY <2>2, <2>5, <1>1, <3>1, RemovePreserves
  <2>7. \A p \in Packets : p \in ToSet(Queue(k)) => place[p] = "pending"
    BY <2>2 DEF PendingOnce, Queue, Indices
  <2>8. \A p \in Packets : place'[p] = place[p] \/ place[p] = "pending"
    BY <2>5, <2>7
  <2> QED BY <1>3, <2>2, <2>6, <2>8
<1> QED BY <1>4, <1>5

Places == {"new", "held", "pending", "rejected", "sent"}

\* After the lookup the packet is on its way, or held by this thread alone.
LEMMA LookupHolds ==
  ASSUME TypeOK, HeldByOne, NEW t \in Threads, NEW p \in Packets, NEW ip,
         pc[t] = "idle", place[p] # "held", Lookup(t, p, ip)
  PROVE  /\ HeldByOne'
         /\ place' \in [Packets -> Places]
         /\ pc' \in [Threads -> {"idle", "append", "ask"}]
         /\ pkt' \in [Threads -> Packets \cup {NoPkt}]
         /\ place'[p] \in {"sent", "held"}
         /\ \A o \in Packets : o # p => place'[o] = place[o]
<1>1. CASE Known(ip)
  <2>1. place' = [place EXCEPT ![p] = "sent"] /\ pc' = pc /\ pkt' = pkt
    BY <1>1 DEF Lookup
  <2>2. \A u \in Threads : pc[u] = "append" => pkt[u] # p
    BY DEF HeldByOne
  <2> QED BY <2>1, <2>2 DEF TypeOK, HeldByOne, Places
<1>2. CASE ~Known(ip)
  <2>1. /\ place' = [place EXCEPT ![p] = "held"]
        /\ pc' = [pc EXCEPT ![t] = "append"]
        /\ pkt' = [pkt EXCEPT ![t] = p]
    BY <1>2 DEF Lookup
  <2>2. \A u \in Threads : pc[u] = "append" => pkt[u] # p /\ u # t
    BY DEF HeldByOne
  <2>3. /\ pc'[t] = "append" /\ pkt'[t] = p /\ place'[p] = "held"
        /\ \A u \in Threads : u # t => pc'[u] = pc[u] /\ pkt'[u] = pkt[u]
        /\ \A o \in Packets : o # p => place'[o] = place[o]
    BY <2>1 DEF TypeOK
  <2>4. HeldByOne'
    BY <2>2, <2>3 DEF HeldByOne
  <2> QED BY <2>1, <2>3, <2>4 DEF TypeOK, Places
<1> QED BY <1>1, <1>2

\* A packet changes its place, but none that a thread holds, and no thread moves.
LEMMA HeldFrame ==
  ASSUME HeldByOne, UNCHANGED <<pc, pkt>>,
         \A p \in Packets : place[p] = "held" => place'[p] = "held"
  PROVE  HeldByOne'
  BY DEF HeldByOne

\* The same of the packets of the sweeping thread.
LEMMA RejectedFrame ==
  ASSUME TypeOK, RejectedOnce, rejected' = rejected,
         \A p \in Packets : place[p] = "rejected" => place'[p] = "rejected"
  PROVE  RejectedOnce'
<1>1. ToSet(rejected) \subseteq Packets
  BY DEF TypeOK, ToSet
<1> QED BY <1>1 DEF RejectedOnce

\* Each action keeps the invariant: the lookup of iface_send_packet_by_arp,
LEMMA SendStep ==
  ASSUME IInv, NEW t \in Senders, NEW p \in Packets, Send(t, p)
  PROVE  IInv'
<1>1. PICK s \in Peers \cup {Self}, d \in Peers :
        /\ src' = [src EXCEPT ![p] = s] /\ dst' = [dst EXCEPT ![p] = d] /\ Lookup(t, p, d)
  BY DEF Send
<1>2. /\ pc[t] = "idle" /\ place[p] = "new" /\ t \in Threads /\ s \in Ips /\ d \in Ips
      /\ UNCHANGED <<entries, req_list, latest, at, rejected>>
  BY ArpCacheAssumption DEF Send, Threads, Ips, cacheVars
<1>3. /\ HeldByOne' /\ place' \in [Packets -> Places]
      /\ pc' \in [Threads -> {"idle", "append", "ask"}] /\ pkt' \in [Threads -> Packets \cup {NoPkt}]
      /\ place'[p] \in {"sent", "held"} /\ \A o \in Packets : o # p => place'[o] = place[o]
  BY <1>1, <1>2, LookupHolds DEF IInv
<1>4. TypeOK'
  BY <1>1, <1>2, <1>3 DEF IInv, TypeOK, Places
<1>5. \A o \in Packets : place'[o] = "pending" <=> place[o] = "pending"
  BY <1>2, <1>3
<1>6. \A o \in Packets : o # p => dst'[o] = dst[o]
  BY <1>1 DEF IInv, TypeOK
<1>7. PendingOnce'
  BY <1>2, <1>5, <1>6, PendingFrame DEF IInv
<1>8. RejectedOnce'
  BY <1>2, <1>3, RejectedFrame DEF IInv
<1> QED BY <1>3, <1>4, <1>7, <1>8 DEF IInv

\* arpcache_append_packet,
LEMMA AppendStep ==
  ASSUME IInv, NEW t \in Threads, AppendPacket(t)
  PROVE  IInv'
<1> DEFINE p == pkt[t]
<1>1. /\ p \in Packets /\ place[p] = "held" /\ pc[t] = "append"
      /\ place' = [place EXCEPT ![p] = "pending"]
      /\ UNCHANGED <<entries, latest, src, dst, at, rejected>>
  BY DEF IInv, HeldByOne, AppendPacket
<1>2. \/ pc' = [pc EXCEPT ![t] = "ask"] /\ pkt' = pkt
      \/ pc' = [pc EXCEPT ![t] = "idle"] /\ pkt' = [pkt EXCEPT ![t] = NoPkt]
  BY DEF AppendPacket
<1>3. PendingOnce' /\ req_list' \in Seq(Request)
  BY AppendPreserves
<1>4. TypeOK'
  BY <1>1, <1>2, <1>3 DEF IInv, TypeOK
<1>5. HeldByOne'
  <2>1. pc'[t] # "append" /\ \A u \in Threads : u # t => pc'[u] = pc[u] /\ pkt'[u] = pkt[u]
    BY <1>2 DEF IInv, TypeOK
  <2>2. \A u \in Threads : u # t /\ pc[u] = "append" => pkt[u] # p
    BY <1>1 DEF IInv, HeldByOne
  <2>3. \A o \in Packets : o # p => place'[o] = place[o]
    BY <1>1 DEF IInv, TypeOK
  <2> QED BY <2>1, <2>2, <2>3 DEF IInv, HeldByOne
<1>6. RejectedOnce'
  <2>1. \A o \in Packets : place[o] = "rejected" => place'[o] = "rejected"
    BY <1>1 DEF IInv, TypeOK
  <2> QED BY <2>1, <1>1, RejectedFrame DEF IInv
<1> QED BY <1>3, <1>4, <1>5, <1>6 DEF IInv

\* the request it then sends,
LEMMA AskStep ==
  ASSUME IInv, NEW t \in Threads, Ask(t)
  PROVE  IInv'
<1>1. /\ pc[t] = "ask" /\ pc' = [pc EXCEPT ![t] = "idle"] /\ pkt' = [pkt EXCEPT ![t] = NoPkt]
      /\ UNCHANGED <<entries, req_list, latest, src, dst, place, at, rejected>>
  BY DEF Ask, cacheVars, pktVars
<1>2. TypeOK'
  BY <1>1 DEF IInv, TypeOK
<1>3. PendingOnce'
  BY <1>1, PendingFrame DEF IInv
<1>4. HeldByOne'
  BY <1>1 DEF IInv, TypeOK, HeldByOne
<1>5. RejectedOnce'
  BY <1>1, RejectedFrame DEF IInv
<1> QED BY <1>2, <1>3, <1>4, <1>5 DEF IInv

\* arpcache_insert,
LEMMA HearStep ==
  ASSUME IInv, NEW m \in Mapping, Hear(m)
  PROVE  IInv'
<1>1. /\ PendingOnce' /\ req_list' \in Seq(Request) /\ place' \in [Packets -> Places]
      /\ \A p \in Packets : place'[p] = place[p] \/ place[p] = "pending"
  BY HearFlushes DEF IInv, Places
<1>2. UNCHANGED <<src, dst, pc, pkt, at, rejected>>
  BY DEF Hear
<1>3. entries' \in [Slots -> Mapping \cup {NoEntry}] /\ latest' \in [Hosts -> Macs]
  <2>1. entries' \in TablesAfter(m) /\ latest' = [latest EXCEPT ![m.ip] = m.mac]
    BY DEF Hear
  <2>2. latest' \in [Hosts -> Macs]
    BY <2>1, FreeIsNoMapping DEF IInv, TypeOK
  <2>3. entries \in [Slots -> Mapping \cup {NoEntry}]
    BY DEF IInv, TypeOK
  <2>4. Updated(m) \in [Slots -> Mapping \cup {NoEntry}]
    BY <2>3 DEF Updated
  <2>5. Inserted(m) \subseteq [Slots -> Mapping \cup {NoEntry}]
    BY <2>3 DEF Inserted
  <2> QED BY <2>1, <2>2, <2>4, <2>5 DEF TablesAfter
<1>4. TypeOK'
  BY <1>1, <1>2, <1>3 DEF IInv, TypeOK, Places
<1>5. HeldByOne'
  BY <1>1, <1>2, HeldFrame DEF IInv
<1>6. RejectedOnce'
  BY <1>1, <1>2, RejectedFrame DEF IInv
<1> QED BY <1>1, <1>4, <1>5, <1>6 DEF IInv

\* the sweep taking the lock,
LEMMA SweepBeginStep ==
  ASSUME IInv, SweepBegin
  PROVE  IInv'
<1>1. /\ at' = 1
      /\ UNCHANGED <<req_list, latest, src, dst, place, pc, pkt, rejected>>
  BY DEF SweepBegin, pktVars
<1>2. entries' \in [Slots -> Mapping \cup {NoEntry}]
  <2>1. PICK old \in SUBSET Slots :
          entries' = [i \in Slots |-> IF i \in old THEN NoEntry ELSE entries[i]]
    BY DEF SweepBegin
  <2> QED BY <2>1 DEF IInv, TypeOK
<1>3. TypeOK'
  BY <1>1, <1>2 DEF IInv, TypeOK
<1>4. PendingOnce'
  BY <1>1, PendingFrame DEF IInv
<1>5. HeldByOne' /\ RejectedOnce'
  BY <1>1, HeldFrame, RejectedFrame DEF IInv
<1> QED BY <1>3, <1>4, <1>5 DEF IInv

\* A request that stays keeps its queue, and no packet moves.
LEMMA StaysStep ==
  ASSUME IInv, NEW r \in Request, at \in Indices, Stays(r),
         r.ip = req_list[at].ip, r.cached_packets = req_list[at].cached_packets,
         UNCHANGED <<entries, latest, src, dst, pc, pkt>>
  PROVE  IInv'
<1>1. /\ req_list' = [req_list EXCEPT ![at] = r] /\ at' = at + 1
      /\ UNCHANGED <<place, rejected>>
  BY DEF Stays
<1>2. /\ req_list' \in Seq(Request) /\ Len(req_list') = Len(req_list)
      /\ req_list'[at] = r /\ \A i \in Indices : i # at => req_list'[i] = req_list[i]
  BY <1>1 DEF IInv, TypeOK, Indices
<1>3. TypeOK'
  BY <1>1, <1>2 DEF IInv, TypeOK
<1>4. PendingOnce'
  <2>1. \A i \in Indices : /\ req_list'[i].ip = req_list[i].ip
                           /\ req_list'[i].cached_packets = req_list[i].cached_packets
    BY <1>2
  <2> QED BY <2>1, <1>1, <1>2, PendingFrame DEF IInv
<1>5. HeldByOne' /\ RejectedOnce'
  BY <1>1, HeldFrame, RejectedFrame DEF IInv
<1> QED BY <1>3, <1>4, <1>5 DEF IInv

\* visiting a request,
LEMMA SweepRequestStep ==
  ASSUME IInv, SweepRequest
  PROVE  IInv'
<1> DEFINE r == req_list[at]
<1>1. /\ at \in Indices /\ r \in Request
      /\ r.ip \in Ips /\ r.retries \in 1 .. MaxRetries /\ r.cached_packets \in Seq(Packets)
      /\ UNCHANGED <<entries, latest, src, dst, pc, pkt>>
  <2>1. at \in Indices /\ UNCHANGED <<entries, latest, src, dst, pc, pkt>>
    BY DEF SweepRequest, Indices
  <2>2. r \in Request
    BY <2>1, RequestFacts DEF IInv
  <2> QED BY <2>1, <2>2 DEF Request
<1>2. CASE Stays([r EXCEPT !.fresh = FALSE])
  <2> DEFINE s == [r EXCEPT !.fresh = FALSE]
  <2>1. s \in Request /\ s.ip = r.ip /\ s.cached_packets = r.cached_packets
    BY <1>1 DEF Request
  <2> HIDE DEF s
  <2>2. Stays(s)
    BY <1>2 DEF s
  <2> QED BY <2>1, <2>2, <1>1, StaysStep
<1>3. CASE ~GiveUp(r) /\ Stays(AskedAgain(r))
  <2> DEFINE s == AskedAgain(r)
  <2>1. r.retries + 1 \in 1 .. MaxRetries
    BY <1>1, <1>3, ArpCacheAssumption DEF GiveUp
  <2>2. s \in Request /\ s.ip = r.ip /\ s.cached_packets = r.cached_packets
    BY <1>1, <2>1 DEF AskedAgain, Request
  <2> HIDE DEF s
  <2>3. Stays(s)
    BY <1>3 DEF s
  <2> QED BY <2>2, <2>3, <1>1, StaysStep
<1>4. CASE /\ req_list' = RemoveAt(req_list, at)
           /\ rejected' = rejected \o r.cached_packets
           /\ place' = [p \in Packets |-> IF p \in ToSet(r.cached_packets) THEN "rejected"
                                          ELSE place[p]]
           /\ UNCHANGED at
  <2>1. /\ IsInjective(r.cached_packets)
        /\ \A p \in Packets : p \in ToSet(r.cached_packets) => place[p] = "pending"
    BY <1>1 DEF IInv, PendingOnce, Indices
  <2>2. PendingOnce' /\ req_list' \in Seq(Request)
    <3>1. "rejected" # "pending"
      OBVIOUS
    <3>2. place' = [p \in Packets |-> IF p \in ToSet(Queue(at)) THEN "rejected" ELSE place[p]]
      BY <1>4 DEF Queue
    <3> HIDE DEF r
    <3> QED BY <1>1, <1>4, <3>1, <3>2, RemovePreserves DEF IInv
  <2>3. ToSet(rejected) \subseteq Packets /\ ToSet(r.cached_packets) \subseteq Packets
    BY <1>1 DEF IInv, TypeOK, ToSet
  <2>4. /\ rejected' \in Seq(Packets) /\ IsInjective(rejected')
        /\ ToSet(rejected') = ToSet(rejected) \cup ToSet(r.cached_packets)
    <3>1. ToSet(rejected) \cap ToSet(r.cached_packets) = {}
      BY <2>1, <2>3 DEF IInv, RejectedOnce
    <3>2. rejected \in Seq(Packets) /\ IsInjective(rejected)
      BY DEF IInv, TypeOK, RejectedOnce
    <3> HIDE DEF r
    <3> QED BY <3>1, <3>2, <2>1, <1>1, <1>4, ConcatOnce
  <2>5. \A p \in Packets : \/ p \in ToSet(r.cached_packets) /\ place'[p] = "rejected"
                           \/ p \notin ToSet(r.cached_packets) /\ place'[p] = place[p]
    BY <1>4
  <2>6. RejectedOnce'
    BY <2>3, <2>4, <2>5 DEF IInv, RejectedOnce
  <2>7. HeldByOne'
    BY <2>1, <2>5, <1>1, HeldFrame DEF IInv
  <2>8. TypeOK'
    <3>1. place' \in [Packets -> {"new", "held", "pending", "rejected", "sent"}]
      BY <1>4 DEF IInv, TypeOK
    <3> QED BY <3>1, <2>2, <2>4, <1>1, <1>4 DEF IInv, TypeOK
  <2> QED BY <2>2, <2>6, <2>7, <2>8 DEF IInv
<1> QED BY <1>2, <1>3, <1>4 DEF SweepRequest

\* releasing the lock,
LEMMA SweepEndStep ==
  ASSUME IInv, SweepEnd
  PROVE  IInv'
<1>1. at' = 0 /\ UNCHANGED <<entries, req_list, latest, src, dst, place, pc, pkt, rejected>>
  BY DEF SweepEnd, cacheVars, pktVars
<1>2. TypeOK'
  BY <1>1 DEF IInv, TypeOK
<1>3. PendingOnce'
  BY <1>1, PendingFrame DEF IInv
<1>4. HeldByOne' /\ RejectedOnce'
  BY <1>1, HeldFrame, RejectedFrame DEF IInv
<1> QED BY <1>2, <1>3, <1>4 DEF IInv

\* and the error for a packet that was given up.
LEMMA SendErrorStep ==
  ASSUME IInv, SendError
  PROVE  IInv'
<1> DEFINE p == Head(rejected)
<1>1. /\ pc[Sweeper] = "idle" /\ rejected # << >>
      /\ src' = [src EXCEPT ![p] = Self] /\ dst' = [dst EXCEPT ![p] = src[p]]
      /\ Lookup(Sweeper, p, src[p]) /\ rejected' = Tail(rejected)
      /\ UNCHANGED <<entries, req_list, latest, at>>
  BY DEF SendError, cacheVars
<1>2. /\ rejected \in Seq(Packets) /\ Len(rejected) \in Nat \ {0}
      /\ p = rejected[1] /\ p \in Packets
      /\ rejected' \in Seq(Packets) /\ Len(rejected') = Len(rejected) - 1
      /\ \A i \in 1 .. Len(rejected) - 1 : rejected'[i] = rejected[i + 1]
  BY <1>1 DEF IInv, TypeOK
<1>3. place[p] = "rejected" /\ Sweeper \in Threads /\ src[p] \in Ips /\ Self \in Ips
  <2>1. p \in ToSet(rejected)
    BY <1>2 DEF ToSet
  <2> QED BY <2>1, <1>2 DEF IInv, TypeOK, RejectedOnce, Threads, Ips
<1> HIDE DEF p
<1>4. /\ HeldByOne' /\ place' \in [Packets -> Places]
      /\ pc' \in [Threads -> {"idle", "append", "ask"}] /\ pkt' \in [Threads -> Packets \cup {NoPkt}]
      /\ place'[p] \in {"sent", "held"} /\ \A o \in Packets : o # p => place'[o] = place[o]
  BY <1>1, <1>2, <1>3, LookupHolds DEF IInv
<1>5. TypeOK'
  BY <1>1, <1>2, <1>3, <1>4 DEF IInv, TypeOK, Places
<1>6. PendingOnce'
  <2>1. \A o \in Packets : place'[o] = "pending" <=> place[o] = "pending"
    BY <1>3, <1>4
  <2>2. \A o \in Packets : o # p => dst'[o] = dst[o]
    BY <1>1 DEF IInv, TypeOK
  <2> QED BY <2>1, <2>2, <1>1, <1>3, PendingFrame DEF IInv
<1>7. RejectedOnce'
  <2>1. \A i, j \in 1 .. Len(rejected) : rejected[i] = rejected[j] => i = j
    BY <1>2 DEF IInv, RejectedOnce, IsInjective
  <2>2. \A i \in 1 .. Len(rejected') : i + 1 \in 1 .. Len(rejected) /\ rejected'[i] = rejected[i + 1]
    BY <1>2
  <2>3. \A i \in 1 .. Len(rejected') : rejected'[i] # p /\ place[rejected'[i]] = "rejected"
                                         /\ rejected'[i] \in Packets
    <3>1. \A i \in 1 .. Len(rejected) : place[rejected[i]] = "rejected" /\ rejected[i] \in Packets
      <4>1. /\ \A i \in 1 .. Len(rejected) : rejected[i] \in Packets
            /\ DOMAIN rejected = 1 .. Len(rejected)
        BY <1>2
      <4>2. \A o \in ToSet(rejected) : place[o] = "rejected"
        BY DEF IInv, RejectedOnce
      <4> QED BY <4>1, <4>2 DEF ToSet
    <3>2. 1 \in 1 .. Len(rejected) /\ p = rejected[1]
      BY <1>2 DEF p
    <3> SUFFICES ASSUME NEW i \in 1 .. Len(rejected')
                 PROVE  rejected'[i] # p /\ place[rejected'[i]] = "rejected" /\ rejected'[i] \in Packets
      OBVIOUS
    <3>3. i + 1 \in 1 .. Len(rejected) /\ rejected'[i] = rejected[i + 1] /\ i + 1 # 1
      BY <2>2
    <3> QED BY <2>1, <3>1, <3>2, <3>3
  <2>4. \A i, j \in 1 .. Len(rejected') : rejected'[i] = rejected'[j] => i = j
    <3> SUFFICES ASSUME NEW i \in 1 .. Len(rejected'), NEW j \in 1 .. Len(rejected'),
                        rejected'[i] = rejected'[j]
                 PROVE  i = j
      OBVIOUS
    <3>1. i + 1 = j + 1
      BY <2>1, <2>2
    <3> QED BY <3>1, <1>2
  <2>5. DOMAIN rejected' = 1 .. Len(rejected')
    BY <1>2
  <2> QED BY <2>3, <2>4, <2>5, <1>4 DEF RejectedOnce, IsInjective, ToSet
<1> QED BY <1>4, <1>5, <1>6, <1>7 DEF IInv

\* The cache is empty at first.
LEMMA InitIInv == Init => IInv
<1> SUFFICES ASSUME Init PROVE IInv
  OBVIOUS
<1>1. TypeOK
  BY ArpCacheAssumption DEF Init, TypeOK, Ips
<1>2. PendingOnce
  BY DEF Init, PendingOnce
<1>3. HeldByOne /\ RejectedOnce
  BY DEF Init, HeldByOne, RejectedOnce, IsInjective, ToSet
<1> QED BY <1>1, <1>2, <1>3 DEF IInv

\* Every step keeps the invariant.
LEMMA NextIInv == IInv /\ [Next]_vars => IInv'
<1> SUFFICES ASSUME IInv, [Next]_vars PROVE IInv'
  OBVIOUS
<1>1. ASSUME NEW t \in Threads, ThreadStep(t) PROVE IInv'
  BY <1>1, AppendStep, AskStep DEF ThreadStep
<1>2. CASE \E t \in Senders, p \in Packets : Send(t, p)
  BY <1>2, SendStep
<1>3. CASE \E m \in Mapping : Hear(m)
  BY <1>3, HearStep
<1>4. CASE Sweep \/ SendError
  BY <1>4, SweepBeginStep, SweepRequestStep, SweepEndStep, SendErrorStep DEF Sweep
<1>5. CASE UNCHANGED vars
  <2>1. UNCHANGED <<entries, req_list, latest, src, dst, place, pc, pkt, at, rejected>>
    BY <1>5 DEF vars, cacheVars, pktVars
  <2>2. TypeOK'
    BY <2>1 DEF IInv, TypeOK
  <2>3. PendingOnce'
    BY <2>1, PendingFrame DEF IInv
  <2>4. HeldByOne' /\ RejectedOnce'
    BY <2>1, HeldFrame, RejectedFrame DEF IInv
  <2> QED BY <2>2, <2>3, <2>4 DEF IInv
<1> QED BY <1>1, <1>2, <1>3, <1>4, <1>5 DEF Next, SweeperStep, Threads

\* The types of the variables; in particular a request is asked at most
\* ARP_REQUEST_MAX_RETRIES times (arpcache.c 146).
THEOREM TypeCorrect == Spec => []TypeOK
<1>1. IInv => TypeOK
  BY DEF IInv
<1> QED BY InitIInv, NextIInv, <1>1, PTL DEF Spec

\* A pending packet is in the queue of its destination and in no other place,
\* once, and each destination has one queue (arpcache.c 33-62, 99-119, 124-164).
THEOREM PendingOnceCorrect == Spec => []PendingOnce
<1>1. IInv => PendingOnce
  BY DEF IInv
<1> QED BY InitIInv, NextIInv, <1>1, PTL DEF Spec

\* Hearing of an address leaves no packet waiting for it (arpcache.c 99-119).
THEOREM LearnedIsFlushedCorrect == Spec => LearnedIsFlushed
<1>1. IInv /\ [Next]_vars =>
        [\A m \in Mapping : Hear(m) =>
           \A p \in Packets : place'[p] = "pending" => dst'[p] # m.ip]_vars
  <2> SUFFICES ASSUME IInv, NEW m \in Mapping, Hear(m), NEW p \in Packets, place'[p] = "pending"
               PROVE  dst'[p] # m.ip
    OBVIOUS
  <2>1. dst' = dst
    BY DEF Hear
  <2> QED BY <2>1, HearFlushes DEF IInv
<1> QED BY InitIInv, NextIInv, <1>1, PTL DEF Spec, LearnedIsFlushed
=============================================================================
