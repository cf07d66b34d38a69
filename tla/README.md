# A verification project for the network labs

The repository holds fourteen labs of a networking course, each a C program (or
scripts) of its own under `prjNN/`. They build on one another: the switch, the
spanning tree, the router and NAT are separate programs on one packet library;
`prj11` to `prj14` are four stages of one user-level TCP/IP stack, and `prj14`
is the last. This project models the parts that carry state and logic, starting
from `prj14`.

## Contents

| module | models | proofs |
|---|---|---|
| `SynchWait` | `synch_wait.h`: the notification with its `notified`, `sleep` flags | |
| `ByteStream` | abstract: what a receiver promises its reader and its peer | |
| `TcpRecv` | `prj14` receive path: `tcp_process` on data, `tcp_sock_read` | `TcpRecvRing_proofs` |
| `RingBuffer` | `ring_buffer.h`: head and tail in an array | `TcpRecvRing_proofs` |
| `TcpRecvRing` | `TcpRecv` with the ring buffer beside its sequence of bytes | `TcpRecvRing_proofs` |
| `TcpSend` | `prj14` send path: `tcp_sock_write`, the ACK handler, the timer | `TcpSend_proofs` |
| `TcpConn` | `prj14` handshake, listener queues, accept, close, TIME_WAIT | `TcpConn_proofs` |
| `LinkedList` | `list.h`: circular lists as pointers | |
| `AcceptQueue` | `prj14` accept queue, store by store, two threads | `AcceptQueue_proofs` |
| `ArpCache` | `prj14` ARP cache with senders and the sweeping thread | `ArpCache_proofs` |
| `Nat` | `prj10` address translator: polling thread and timeout thread | `Nat_proofs` |
| `Stp` | `prj06` spanning tree: all switches, their links and hello timers | `Stp_proofs` |
| `Mospf` | `prj08` link-state database: hellos, LSUs, ageing, restarts | |
| `Lpm` | `prj09` longest-prefix match: binary trie and compressed trie | `Lpm_proofs` |
| `MCTcpRecv`, `MCTcpSend`, `MCNat`, `MCStp`, `MCMospf`, `MCLpm` | segments, packets, rules, links and prefixes of the finite instances | |

`PROJECT.json` maps every definition to its lines and lists runs, mutants,
findings, hazards and theorems.

## Inventory

### The TCP/IP stack, `prj14`

Threads: the network thread (`main.c` polls the devices and calls down to
`tcp_process`), one application thread (`tcp_apps.c`: `tcp_server` or
`tcp_client`), the TCP timer thread (`tcp_timer.c`, every 10 ms), the ARP
sweeping thread (every second). They share sockets, tables and the ARP cache.

| part | state | operations | what is hard | what makes it correct |
|---|---|---|---|---|
| receive path (`tcp_in.c` 69-91, 220-271; `tcp_sock.c` 365-380; `ring_buffer.h`) | `rcv_buf`, `rcv_ofo_buf`, `rcv_nxt`, `rcv_wnd`, `wait_read`, `wait_recv` | segment arrives in, before or after its turn; drain of the early ones; FIN; read | the handler sleeps half way when the buffer is full; the reader reads meanwhile; unlocked tests of `sleep`; a list head that is copied | the reader gets the peer's bytes, once, in order; what is acknowledged is stored; sleepers are woken |
| send path (`tcp_sock.c` 382-402; `tcp_out.c`; `tcp_in.c` 22-51, 94-162, 205-207; `tcp_timer.c` 28-54) | `send_buf`, `inflight`, `snd_una`, `snd_nxt`, `snd_wnd`, `cwnd`, `ssthresh`, `cgt_state`, `recovery_point`, `wait_send` | write, send, put; acknowledgement: repeated, new, partial; window; timeout | three threads, locks for some of it; recovery interrupted by the timer; lost, repeated and reordered packets | what the peer lacks can be resent; the list is what is unacknowledged; writers return |
| connections (`tcp_in.c` 164-302; `tcp_sock.c` 280-363; `tcp_timer.c` 16-67) | state, `snd_nxt`, `rcv_nxt`, `send_buf`, timers, `listen_queue`, `accept_queue` | connect, listen, accept, close; SYN, SYN/ACK, ACK, PSH, FIN, ACK/FIN; TIME_WAIT expires | packets of the handshake and the close overtake data or each other; application closes while the peer does | both ends agree; connect and accept return; a FIN is heard; nobody waits for a wakeup that is over |
| accept queue (`tcp_sock.c` 323-347; `list.h`) | list pointers, `accept_backlog`, `wait_accept` | enqueue, dequeue | no lock | a child is returned, once |
| socket tables (`tcp_sock.c` 42-58, 109-259; `tcp_hash.h`) | established, listen, bind tables, `ref_cnt`, ports | hash, unhash, bind, look up, free | unhashing twice; freeing from the timer thread | lookup finds the live sockets; ports are distinct |
| ring buffer (`ring_buffer.h`) | `head`, `tail`, `size` | read, write | wrap-around, full against empty | a bounded FIFO |
| ARP cache (`arpcache.c`, `arp.c`; the same in `prj11` to `prj13`) | table, requests with pending packets | look up, append, insert, sweep | a lookup and the append after it are apart; expiry; giving up; errors through the cache that is being swept | latest mapping; every packet is sent or given up |
| IP, ICMP, routing table (`ip.c`, `icmp.c`, `rtable.c`) | the routing table, written once | forward, send, reply | none | the longest prefix wins |
| `tcp_apps.c`, `main.c`, `device_internal.c`, `packet.c`, `rtable_internal.c`, `tcp.c` (headers, checksums) | | I/O | | |

`prj11` (handshake only), `prj12` (stop and wait) and `prj13` (a fixed number of
packets in flight, no congestion control) are earlier stages of the same files.

### The other programs

| program | state and operations | what is hard | what makes it correct |
|---|---|---|---|
| `prj10` NAT (`nat.c`) | mappings, assigned ports, connection flags; translate in and out, expire | a port for each mapping; the expiry thread; a return that keeps the lock; FIN flags of both directions | mappings are one to one; both directions agree; the lock is given back |
| `prj09` (`base.c`, `poptrie.c`) | a prefix trie and a compressed one | insertion of prefixes in any order | equal to the longest match |
| `prj08` mOSPF (`mospf_daemon.c`, `mospf_database.c`) | neighbours, link-state database, sequence numbers, routes; hello, LSU, ageing, route computation | flooding, old announcements, four threads | databases agree; routes are shortest paths |
| `prj07` router (`arpcache.c`, `ip_base.c`, ...) | as the ARP cache above, first version | ICMP is sent with the cache locked; an address is inserted twice | as above |
| `prj06` spanning tree (`stp.c`, `stp_timer.c`) | per port the designated root, cost, switch and port; configuration messages, hello timer | messages cross; roles change | one root, a tree |
| `prj05` switch (`mac.c`) | table of addresses; look up, insert, age | a station moves | frames go where the station was last seen |
| `prj04` hub (`main.c`) | none; broadcast | none | every port but one |
| `prj03` socket programs | `select-server.c`: a table of clients | full table | each client served |
| `prj01`, `prj02` | scripts that measure | | not modelled |

## How the modules correspond to the code

### SynchWait

A `struct synch_wait` is a record of its two flags (`dead` is never set: nothing
calls `wait_exit`). `sleep_on` is two steps, because its mutex is released while
it waits: `sleep_on(w)` up to the wait and `resume(w)` after it; `Returns(w)`
says that a notification was already there. `wake_up(w)` is one step, under the
mutex. A wakeup without a signal is allowed where a module says so.

### TcpRecv

Variables have the names of `struct tcp_sock`. Bytes are their offsets in the
stream, so a list of bytes shows at once what is missing or twice. The handler
of a segment is cut where the code blocks or touches what the reader shares:
`NetInOrder`, `NetEarly`, `NetOld` choose the branch of `tcp_in.c` 220-262;
`NetInsert` waits for room and stores (226-235); `NetDrain` takes early segments
from the list (236-254), again waiting for room; `NetNotify` is the test of
`wait_read->sleep`, the notification and the ACK (263-271). `seq_end` is the
local variable the handler keeps over its sleep. `ReadEmpty` ... `ReadWake` are
`tcp_sock_read`. The peer may send any segment at any time: it is not held to a
window, because its `snd_wnd` can wrap (see below).

`rcv_ofo_buf` is what a walk from the list head meets, and `ofo_head` says what links the
head and the first entry. `write_ofo_buffer` starts from a copy of the head on its stack
(`tcp_in.c` 78). A segment that belongs before the first entry is linked to that copy: it is
in nobody's list, and the first entry points back to it instead of to the head ("bypassed").
When that entry is drained, `list_delete_entry` changes the lost segment and leaves the head
as it is, so the head points to freed memory ("freed"). The drain under way goes on, since
its loop knows the next entry; the next walk reads the freed one. From then on the C program is
undefined. The model keeps that state (`npc = "undefined"`, in which `NetUndefined`
acknowledges anything), and every property says with `Defined` that it claims nothing there.

`ByteStream` is the abstract specification of what a socket promises both sides: bytes are
stored, acknowledged when stored, and handed over in order, each of which is a step of
its own; the peer may close, and the socket may fail. `TcpRecv` implements it (`Stream`),
with `stored` the bytes read and the bytes in the buffer, and "failed" the undefined state.

Left out: the wrap of sequence numbers at 2^32, the copying, a write of a packet
without data, and a handshake ACK that data overtakes.

### RingBuffer and TcpRecvRing

`RingBuffer` has the functions of `ring_buffer.h` as operators on the struct: `head` and
`tail` are places in an array that has one byte more than may be used, and what
crosses the end of the array is copied in two pieces (`Filled`, `Bytes`). `Contents` is
the sequence of bytes the struct stands for. `TcpRecvRing` adds a ring and the bytes the
reader copied out to `TcpRecv`: a step that stores a segment writes it to the ring,
one that reads takes from it, and every other step leaves it alone. `RcvBufIsRing`
says that ring and sequence never differ, which is why `TcpRecv` can do with the sequence. The
run `tcp_recv` checks all properties of `TcpRecv` on this composition.

### TcpSend

Packets are numbers, `SeqEnd` says where each ends. The three threads are
`Write*`, `Net*` and `Timer`. `tcp_send_packet` is three steps: `WriteSend`
(snd_nxt, the packet goes), `WriteWnd` (`snd_wnd -= len`, the read and the write
apart, because no lock protects it), `WritePut` (put_sendbuf under `send_lock`).
The ACK handler is cut at its shared accesses: `TakeAck` with the branches
`NetRepeatedOpen`, `NetRepeatedThird`, `NetRepeatedRcvr`, `NetRepeatedLoss`,
`NetNewAck`; `NetFastRetransmit`, apart from the test of `cgt_state` that leads to it; `NetPop`,
one packet of the list a step; `NetSwitch` (the switch on `cgt_state`), `NetRecover` (the test of
the recovery point) and `NetOpen` (the store of OPEN), between which the timer can begin another
recovery; `NetWindow`; `NetFlags`. `TimerExpires(i)` is one entry's expiry; times are left
out, so any entry may expire at any scan, but its `times` is counted as in the code.

The peer runs the receive path of `TcpRecv`, whole packets at a time. `Bypasses` is the
segment that `write_ofo_buffer` loses, `HeadAfter` what becomes of the list head, and the peer
fails (`PeerFails`) when it would read the freed entry, or when what has come does not fit its
buffer of `PeerBuf` bytes and its application has not read: then its two threads wait for each
other for ever. A peer that has failed neither receives nor acknowledges; of one that has
read freed memory this is an assumption, since it might do anything. A packet that never arrives
is as good as lost, so only the specification with fairness has a step that loses.

The expiry of one entry's timer is one step, and so are the increments of `cwnd` and `inflight`; the
window that is computed from a stale 16-bit value and the saturation of `rep_ack` beyond 3 are abstracted.

### TcpConn

Each connection has a client's end and the child the listener makes. SYN, FIN
and at most one data packet take a sequence number each. `Connect` to
`ConnectDone`, `Write`, `CloseTest`, `CloseSend` and `AcceptEmpty` to
`AcceptTake` are the applications; `Recv` is `tcp_process` with one operator
per case; `Resend`, `TimewaitExpires` the timer. `CloseTest` and `CloseSend`
are apart because the network thread may change the state between the test and
the assignment. An ACK removes packets from `send_buf` up to the first it does not
cover (`Unacked`), and a child that is established is taken out of the listen queue by
identity (`WithoutChild`). The network is a set of at most `NetRoom` packets: where there
is no room, one of them is lost. Duplicates come from `Resend`.

A child enters the accept queue (`RecvAckOfHandshake`) and leaves it (`AcceptTake`) in one step,
which the code does not: there the two can overlap, load by load and store by store, and children get lost or
are returned twice (`AcceptQueue`). So `TcpConn` has no property about the content of a queue
of several children. `QueuedIsAccepted` is checked with one client, whose child is the only one
there is; that the first accept is right with the loads and stores apart is `FirstIsAccepted`
of `AcceptQueue`. `NoWakeupLost` speaks of the queue only where it is empty or not.

Left out: `accept_backlog`, which is in `AcceptQueue` and which the code never compares, `snd_una`,
windows, and a listener's answer to packets it does not know (there is none).

### LinkedList and AcceptQueue

`LinkedList` is `list.h` on a heap of `next` and `prev` pointers, so that a stale
pointer leads where it leads in the program. `AcceptQueue` uses it for the one
list that two threads change without a lock: every pointer store of
`list_add_tail` and `list_delete_entry`, with the loads before it, is a step, as
are the load and the store of `accept_backlog`. The build does not optimise, so
the order of the stores is that of the source.

### ArpCache

Everything done under `arpcache.lock` is one step, but for the sweep. `Send`,
`AppendPacket` and `Ask` are the three parts of `iface_send_packet_by_arp` (and of
`ip_forward_packet`): the lookup, the append under a second locking, and the
request after it. `Hear` is `arpcache_insert`, for a reply or a request of any
host. `SweepBegin`, `SweepRequest` for each request and `SweepEnd` are one round of
the sweeping thread, during which it holds the lock (`at` is the request it is at, and
`LockFree` guards the others); `SendError` is the ICMP error for one rejected packet,
which goes through the same cache from the same thread. Times are abstracted: any entry may have expired at a sweep,
and a request may be younger than a second only at the first sweep it sees.
`entries[-1]` is written when the table is full: no slot changes.

### Nat

`Arrive` lets a packet of an internal host, a server behind a rule or a remote
endpoint come, as far as they know the connection (`met` is what a remote
endpoint knows). `do_translation` is one critical section, hence one step, with
the four ways the code takes: `Translate` (the first mapping that matches),
`Unknown` (no mapping and no SYN), `Open` (a new mapping for a SYN) and `Leak`
(no port or rule: the return that leaves `nat.lock` taken). `SweepBegin`,
`SweepDelete`, `SweepKeep`, `SweepEnd` are a round of `nat_timeout` under the
lock. An endpoint is an address with its port; the lists of the hash table are
one list. The acknowledgement numbers keep network byte order and are compared with
numbers in host order, so whether a mapping with both FINs counts as finished is
left open. `assigned_ports` is never marked (`nat.c` 100), so every host gets the
first port of the pool, and a reply from a remote endpoint that two hosts talk to goes to the
first of them: that replies reach their host is false, and no property says it.

### Stp

The whole network: `Start`, `HelloTimeout` of each switch, `Reply` and `Adopt` of
each port are the two branches of `stp_handle_config_packet`. All is done under
`stp->lock`, so each is one step. `designated` holds the four `designated_*` fields
of a port, a message has the same four. `link` is what is on the way, in order;
what finds no room, or a switch not started yet, is lost. `Dist` is how many links lie between two switches,
for the properties only. Lines 212-215 have no
step: the best of all ports, if it is not designated, is the best of those that are
not, which is the root port, so the condition is false. Hence a port that is
shut stays shut. `max_age` is sent and never used, so a switch that stops is not noticed.

### Mospf

Entries of different routers do not meet in the daemon, so the module follows
those of one, `Origin`; what it shows of `Origin` it shows of any. The four threads and
the handlers each do a round under `mospf_lock` or `db_lock`: `sending_mospf_lsu`,
`handle_mospf_hello`, `checking_nbr`, `handle_mospf_lsu` (it takes the two locks one after
the other, for changes that commute), `checking_database`, `renew_matrix`. `map2mtx` is one
of "add", an index, or the mark for deletion, which line 325 sets and takes back. A
router that has one link (`Routers` without `Followed`) only sends hellos; it would
pass nothing on. Rounds are not timed: an entry may age faster than LSUs come, which
covers lost LSUs. Two things follow from the real periods and are assumed: an entry
gets its index before its 40 s are over (otherwise line 71 writes past
`record`), and an LSU is not on its way round a ring of other routers for 40 s, so
the instance has no such ring; the `ttl` is never used to stop one (line 294 is always true).
Sequence numbers are modulo `SeqMod`, in place of 2^16. `edit_mtx` and `calc_path`, which
make routes of the database, are not modelled.

### Lpm

The test program is built with one of two tries (`BASE`). Of the binary one a node is
named by the bits on the way to it, and `son` holds the nodes with their matches; `put_base`
and `get_base` are one step and one operator. In the compressed trie `vector` and
`leafvec` of a node are the sets of slots that have a child and where a run of equal leaves
begins; children and leaves are packed in sequences, and the arrays of nodes have a number in
place of an address, so that a pointer kept in `direct_pointing` can be out of date.
`put_poptrie` is a walk, a step for each level: `PutBegin` (from the root or through
`direct_pointing`), `PutFollow` an existing child, `PutGrow` a new one, for which
the array of children is copied and `renew_pointing` called, `PutLeaf` at the end. The
insertion is sequential; cutting it in steps serves the reader, and lookups are
compared between insertions only. The properties compare both tries with the longest prefix
inserted, for all addresses.

An unsigned integer of the code is the function of its bits, the highest first (`Bits`), so that
shifts and masks are statements about positions: `Way` are the first bits, `Key` the `K` after
some depth, `Before` the order of two keys as numbers, `First` the lowest of a set and `Rank` how
many of a set come up to a key, which is what the counting loops of `get_poptrie` and
`put_poptrie` leave in `idx`. Where the code shifts `dest` and lowers `mask_copy`, `put` has
the depth reached, from which `Left` (`mask_copy`) and `PutKey` follow; `Lookup` is a walk with a
function of the number of nodes passed. The slots of the last key that lie in a prefix
are those that agree in its last `Left` bits (`Leaves`). `LpmAssumption` says that `NULL` is no
number, place or insertion, that entries have zeros after their mask, as
`put_poptrie` makes them (`poptrie.c` 101), and that addresses are longer than two keys. The forwarding table is not in the repository; it is assumed to list each
prefix once (`LpmAssumption`). `PutBegin` takes an entry after those it lies in, the order of
the forwarding table (`Within`).

## Runs

| run | question | bounds |
|---|---|---|
| `tcp_recv` | Is the stream read right whatever the order of segments and threads, and does it get through? Does the ring buffer hold the same bytes? | five segments of unequal length (2, 1, 3, 2 and 1 bytes), reads of two, a ring of five places for four bytes: it fills up and wraps around, once in the middle of a segment; the thread sleeps before storing and while draining; three segments wait while one is missing, in any order, so that one is linked past the head, the others are drained, and one more comes early after that |
| `tcp_recv_ofo` (violation) | Is an early segment in the list? | as above |
| `tcp_send` | Is anything the peer lacks forgotten, is the list what is unacknowledged, has a sleeping writer something that wakes it? | four packets, all in flight: three repeated acknowledgements and a partial one, packets the peer loses, one timeout, one acknowledgement on the way |
| `tcp_send_live` | Does every write return, does everything arrive? | two packets, a peer with room for one and a half, timeouts and losses without bound; that the peer loses a packet needs three, so it happens in `tcp_send` only |
| `tcp_conn` | Do the ends agree, does anyone sleep for a wakeup that is over, do connect and accept return, is a FIN heard? | one connection, one data packet, either end closes or both, two packets on the way, losses without bound |
| `tcp_conn_close` (violation) | Does a close end? | as above, the server does not close |
| `accept_queue` | Is the first accept right, does it come? | two children, two accepts |
| `arp_cache` | Are mappings the latest, packets queued once, and does none wait for ever? | three hosts for two slots, two hardware addresses, two packets, two senders, two requests |
| `nat` | Has a connection one mapping, is every packet dealt with, is what is silent swept? | two hosts, a server behind one rule, one remote endpoint, two ports in the pool and one without a rule |
| `mospf` | Is who is gone forgotten, is who runs learnt again? | the row r4 - r1 - r2 - r3, entries of r1; numbers 0 and 1, so that every second one is a wrap; an entry lives one round; one LSU on a link; one stop of any router |
| `lpm` | Do both tries find the longest prefix, after every insertion and in every order? | addresses of five bits, two for a key, so two full levels and one bit; 16 prefixes, among them children that take the first, the middle and the only slot of a run of leaves |
| `stp` | Are costs those of paths, do root ports lead nearer, is a ring cut, is a network whose ports agree a tree, do all find the root? | the ring of `four_node_ring.py`, numbered so that the two lowest switches are opposite; one message each way on a link |

The bounds are the smallest at which the cases named occur; three repeated
acknowledgements need four packets, a full table needs one host more than slots, a
list head that dangles needs two early segments in descending order and a third to meet it, and
two packets on the way are enough for one to overtake another, since every packet can be sent again.
Where a bound caps a resource rather than a case (the number of packets, hosts
or segments), the proofs below hold without it.

Every property has a mutant: an operator that changes one definition the way a
plausible mistake would, and under which the property fails.

### Fairness

- Every thread that can run does in the end (`WF`), and a signalled thread wakes;
  the threads are POSIX threads in endless loops.
- `TcpRecv`: the reader needs a mutex again and again that the network thread
  takes and releases, so its step is strongly fair. The peer resends each
  segment until it is acknowledged, and not all copies are lost (`SF`).
- `TcpSend`, `TcpConn`: the retransmission timer runs for every packet in
  `send_buf`, and a packet or acknowledgement that is sent again and again arrives
  some time (`SF`). Applications need not write or close. `LiveSpec` of `TcpConn` asks this of SYN,
  SYN|ACK and the client's FIN only, which is all its properties need. `BestSpec`, for the run that shows
  a violation, asks it of everything, ACKs included, and of the TIME_WAIT timers, so that what fails does
  not fail for want of a packet.
- `ArpCache`: only the threads; the hosts may never answer. The sweeping thread leaves the
  lock free for a second between two rounds, so the senders get it (`SF`).
- `AcceptQueue`: only the threads; no packet need arrive.
- `Nat`: the timeout thread sleeps a second between two rounds, so the polling
  thread gets the lock (`SF`); packets need not come.
- `Mospf`: the threads go on and packets arrive (`WF`). The routing thread deletes an entry
  that is marked again and again (`SF`): both threads sleep 5 s, but the time their work
  takes differs, so they are not in step for ever. A router that is down may stay so.
- `Stp`: every switch is started, hello timers expire, messages that are on the way
  arrive (`WF`).

## What is proved

TLAPS checks these for every value of the constants that satisfies the named
assumptions (`TcpRecvAssumption`, `TcpSendAssumption`, `TcpConnAssumption`, `AcceptQueueAssumption`,
`ArpCacheAssumption`, `NatAssumption`, `StpAssumption`, `LpmAssumption`), which say that sizes are positive,
that segments and packets cut the stream without gaps, that the modulus exceeds the windows,
that a table lists a prefix once, with zeros after it, and that `NULL` is none of the values it stands beside.
`ConnectedAssumption` says of the spanning tree's network that it is finite and connected and that `Dist` is
its true distance; only `AgreedIsTree` needs it. The `TypeOK` of a module is part of the invariant that is
proved and of no run; only that of `Mospf`, about which nothing is proved, just documents the values.

Receive path (`TcpRecvRing_proofs`, first part): `TypeOK`, `StreamPrefix`, `RcvWndIsRoom`,
`OfoSortedAndMissing`, `AckedIsStored`, and that the receive path implements
`ByteStream`, all of them until a freed entry is read, and with a list that loses segments
as the code's does. None is inductive alone. `IInv` adds `Progress`, which ties
`rcv_nxt`, the bytes stored and `seq_end`, a local variable, to the place the
network thread is at, and `OfoMissing`, which says from where on the
out-of-order list may hold data: from `seq_end` while it is being drained, beyond
`rcv_nxt` otherwise. Without them a segment drained after a sleep could be stored
twice. That a segment is lost only makes the list shorter, and a dangling head matters at the
next walk only, which is why the order of what is met survives both. Each action has a lemma;
`OfoSorted` is the part that needs lemmas about `InsertAt` and `Tail`.

Ring buffer (the rest of `TcpRecvRing_proofs`): for a ring of any size, with head and tail anywhere, a write that fits
appends its bytes to `Contents` (`WriteAppends`), and a read returns and removes the oldest
ones (`ReadTakes`). `FilledAt` says where every byte goes, in one piece or two; the
lemmas `Around...` take the `%` apart. `RcvBufIsRing` follows (`RingCorrect`; with `IInv`, which bounds what is stored, the invariant is inductive) and
that the composition implements `TcpRecv` (`RingImplements`), so the theorems about
`TcpRecv` hold of it.

`TcpSend_proofs`: `TypeOK`, `SendBufIsUnacked`, `NothingForgotten`. `IInv` adds that the peer is
between the first packet of `send_buf` and the last one put (`PeerBetween`), that acknowledgements are ends of
packets the peer has reached (`AcksReached`), and that only packets that were put are on the
way (`OnlyPut`). A packet is popped only if an acknowledgement covers it, hence the
peer has it, also if the peer loses packets or fails. `SleeperIsDue` says that no wakeup of the
writer is lost; it is proved for the specification with losses (`LiveSpec`) as well. The test of the window and the sleep are two steps, and the timer may
open the window between them without waking anyone, so it cannot say that the window is closed. `WakeupAhead`
follows the network thread through the handling of an acknowledgement: the list may be empty there only if
the acknowledgement also ends the recovery, and then the wakeup is still to come. That it ends it needs
`NextIsPut` and `RecoverySent`: an acknowledgement that empties the list covers `snd_nxt`, and no
recovery point lies beyond.

`TcpConn_proofs`: `TypeOK`, `ExpectsWhatWasSent`, `CloseAgreed`, for any number of clients and
any room in the network. What the ends know of each other is in packets, so the
invariant is about packets: `PacketsGenuine` says that nothing on the way, and nothing in a
`send_buf` that may be sent again, ends beyond what its sender has sent, and that a FIN comes from an
end that closes (`Closing`). Both can only become truer: `snd_nxt` never falls, and an end that
closes goes on doing so, because a state of `Finishing` is left for others of the set only. With that
the overwriting of `rcv_nxt` by any packet without PSH is harmless, and `PeerCloses` holds when a FIN
moves an end to LAST_ACK or TIME_WAIT. A child that is accepted is open or closing (`QueuedStates`), which
`Phases` needs: no application owns an end that is still in the handshake.
`NoWakeupLost` has a second invariant: until the client is notified there is nothing of the
connection but the handshake (`HandshakeOnly`: SYNs to the child, SYN|ACKs to the client,
on the way as in the `send_buf`s), and both ends keep their part of it (`HandshakeKept`). A SYN acknowledges nothing,
so what comes to the child removes nothing; the first SYN|ACK that removes the SYN wakes the client in
the same step.

`AcceptQueue_proofs`: `TypeOK` of its own and `FirstIsQueued`, for any number of children. The queue
is not a list while the network thread is between two stores, so the invariant does not say that it
is: until the first take (`Untouched`) both pointers of its head lead into the queue
(`HeadPoints`), and only the list of pending children, which one thread changes, is linked
both ways (`PendingLinked`). Both are needed: a child leaves the pending list through its neighbours'
pointers, and these must not reach the accept queue. After the first take the invariant says
nothing of the links, and nothing holds of them.

`ArpCache_proofs`: `EntryIsLatest`: the table maps a host at most once, to the
address heard last. It is inductive together with the types of the table and of
`latest`; the step that matters is `Hear`, by whether the address is known.
`TypeOK`, `PendingOnce` and the action property `LearnedIsFlushed` follow from a second invariant.
Between the lookup and the append a packet is with its thread, and after being given up in `rejected`,
so the invariant says that these places exclude one another: a packet is held by one
thread at most, and `rejected` lists each once. That there is one request for an
address makes the first one that `Hear` finds the only one, so nothing is left behind.

`Nat_proofs`: `OneMappingPerFlow`. It is not inductive: a SYN from outside is looked up by its
external port, one from inside by its internal endpoint, and only `ServersByRule` (a mapping of a server has the port of
its rule) makes the two lookups agree.

`Stp_proofs`: `CostIsOfAPath` and `ParentIsCloser`, for any network. The invariant says
what every stored field and every message on the way is worth now: whoever sent
it still knows as much, or better (`Told`). It holds because a switch only ever
learns better roots or shorter ways (step 13 of `AdoptIInv`), which needs that its root and
cost are those of its root port (`RootPortOK`).

`AgreedIsTree` says what the protocol is for: when the two ends of every link hold the same fields, the links that
forward have no circle, and if no port is silenced either, every switch knows the root and its distance from
it. It needs two more parts: no shut port was told of anything nearer than the
root port (`RootPortBest`), and a switch knows itself or something better (`OwnRoot`). A link forwards then only if one
of its ends is a root port (`ActiveIsRootLink`), so the switch of a part that is farthest from its
root has one link in it, the one to its parent (`FarthestExists`). For the second half, of the
switches that do not know the shortest way take one nearest to the root (`LeastExists`, from the well-founded order): its
neighbour on that way knows, and agreeing with it leaves the switch nothing longer to believe (`NoBetterWay`).

`Lpm_proofs`: `BaseIsLongestMatch`, for every table, width and order of insertion. The nodes of
the binary trie are the ways to the prefixes put so far (`NodesAreWays`), those that match are their
ends (`MatchesAreEnds`). A walk for an address therefore passes the ends of exactly the prefixes that
cover it (`MatchesAreCovers`), and the deepest one is the longest. That there is a deepest
one needs induction: `LeastExists` takes it from the well-founded order of the natural
numbers (`WFMin`, which has a relation, not an operator, for its parameter).

`PoptrieIsLongestMatch`, for every table, address width, key width and order of insertion
that puts a prefix after those it lies in. The arrays alone do not say which node is where,
so the invariant (`CompressedInv`) says that there is a map `loc` from ways, as they name the nodes of a binary
trie, to places in arrays, with two halves. `Shape`: a way is in `loc` exactly when
its beginning is and the key has a bit in that node's `vector`, at the place its rank gives
(`Joined`), and an array belongs to one node (`Owned`), so that no place holds two nodes
(`LocOnce`) and copying an array moves the children of one node only. `Content`: every node
is on the way to a prefix, every prefix that is in has its nodes, every slot without a child has the leaf of
the longest prefix that covers it (`LeavesRight`), `direct_pointing` agrees with `loc`, and an insertion
under way is where its prefix leads. Each is needed: `LeavesRight` is what a lookup finds
and what a new node takes from its parent; `NodesStem`, with the order of insertion, shows that
the slots a prefix gives its leaf to have no children and no longer match. The lemmas below it say what one node does when
a slot gets a child (`GrownIs`) or a prefix its leaves (`LeavesIs`), by the ranks of its packed leaves
(`RankAdd`, `RankRemove`), and `GrowShape` what the arrays do when one is copied. A lookup
ends (`WalkEnds`) since the ways that are nodes are no longer than an address; the walk is
a recursive function, of which the least step that leaves its way would be the counterexample.
The invariant was checked with TLC before it was proved.

Only model-checked: liveness (the prover has no rule for fairness), with that `Mospf`,
whose properties are all liveness. Every safety property of the runs has a theorem. The proofs reach the
safety part of some liveness properties, that which holds without fairness: `SleeperIsDue` for
`WriterReturns`, `NoWakeupLost` for `ConnectReturns` and `QueuedIsAccepted`, `AgreedIsTree` for
`Converges` and `Tree`. What TLC adds is that what is due comes.

## What the models show of the code

With a run (see the findings in `PROJECT.json`):

- FIN_WAIT_1 takes any ACK for the one of its FIN; the client then waits in FIN_WAIT_2.
  A FIN that arrives in SYN_RECV is not handled, but it moves `rcv_nxt` (`tcp_in.c` 101), so that
  the next ACK acknowledges it and the client does not send it again (`tcp_conn_close`).
  A FIN to a child that is open is heard (`FinIsHeard`).
- `write_ofo_buffer` links a segment that belongs before the first entry of the list to a copy
  of the list head: it is lost until the peer sends it again, and the head dangles once
  the first entry is drained (`tcp_recv_ofo`).

Met while modelling, and taken into account as the modules say:

- With nothing in flight `tcp_sock_write` sends into any window, and `snd_wnd` wraps.
- The test of `wait_read->sleep` (`tcp_in.c` 264) misses a reader that has found the
  buffer empty and is about to sleep: the last data can stay unread. `SleeperReads` is
  about readers that sleep already.
- Data that reaches a child in SYN_RECV establishes it without queueing it, and
  accept never returns it (`tcp_in.c` 222).
- When the receive buffer fills up, the network thread sleeps in `sleep_on(wait_recv)`
  and the reader spins until `wait_recv->sleep` is clear (`tcp_sock.c` 377), which only its
  own `wake_up` would bring about: `SleeperReads` and `AllAcknowledged` are
  stated for runs in which the buffer does not stop the thread, and `WriterReturns` and
  `TransferCompletes` for a peer to which this does not happen.
- The end of a recovery is tested and stored without a lock (`tcp_in.c` 143-144, 152-153). The timer can
  begin a loss recovery in between, which the store then ends; `cwnd` and `snd_wnd` stay small, and nothing is lost.
- A FIN, or a handshake ACK that arrives late, overwrites `rcv_nxt` (`tcp_in.c` 101);
  `is_tcp_seq_valid`, which would notice, is not called.
- A fast recovery that begins between `snd_nxt += len` and `put_sendbuf` has a recovery
  point beyond what is in the list, and can retransmit from an empty list (`tcp_in.c` 146).
- The accept queue is changed by two threads without a lock: a child can be
  returned twice, and two that are queued and accepted at once can be lost
  (`AcceptQueue` claims the first accept only); `backlog` limits nothing; a spurious wakeup makes connect report success.
- In the ARP cache the test for a free slot is inverted (`arpcache.c` 89): mappings are
  overwritten while slots are free, and a full table is written before its start. A
  packet of our own that is given up gets an ICMP error to ourselves, which is
  given up in turn, without end.
- The translator never marks a port as assigned, so all internal hosts that talk
  to one remote endpoint share a port, and its replies go to the first of them; a
  SYN for which there is no port or rule leaves the lock taken and stops the program.
- A switch whose port was told of a root by the other end never speaks on that port
  again. When its hello arrives first, a switch can so cut itself off from the
  real root: with 2 between 3 and 4 and both behind 1, switch 2 may remain
  its own root. `Converges` is stated for runs in which no port is silenced like that.
- After a restart, or when the number wraps, a router's LSUs are ignored until its old
  entry times out (`mospf_daemon.c` 258); an LSU that renews an entry marked for deletion
  does not save it. Of the links of an entry `edit_mtx` keeps in its row only what the
  last one sets (`mospf_database.c` 50-57), so the matrix has fewer edges than the network.
- A prefix put into the compressed trie after a longer one that lies in it leaves
  the bit of the longer one and drops its leaf (`poptrie.c` 218), so later leaves are found in the
  wrong place. With a mask of 0, `put_base` marks the root, which `get_base` never looks at, and
  `put_poptrie` shifts by 32, which C leaves undefined (a machine that takes the count modulo
  32 stores the entry as it should); masks of the model begin at 1.

## Plan

Done: `TcpRecv`, `RingBuffer`, `TcpRecvRing`, `TcpSend`, `TcpConn`, `AcceptQueue`, `ArpCache`,
`Nat`, `Stp`, `Mospf`, `Lpm`, theorems for every safety property of them, and the safety properties
on which the liveness of the writer, of connect and accept and of the spanning tree rests. Next: the
same for `Mospf` (an entry stands for an LSU its router sent) and for `SilentIsSwept` of `Nat`.

## Not modelled

- Netlink and device I/O, packet formatting and checksums, the file transfer of `tcp_apps.c`, the
  measurement scripts: no state of their own.
- Socket tables (`tcp_hash.h`, `tcp_hash`, `tcp_unhash`, ports, `ref_cnt`): no lock guards
  them, and a socket that leaves LAST_ACK is unhashed by `tcp_process` and again by the timer,
  through the pointers of a node that is no longer linked. What the tables should be
  is clear, but the code does not keep it beyond one closed connection.
- `prj07`: an earlier version of what `ArpCache` models. It sends ICMP errors with the cache locked,
  and sending takes the same lock, so the first host that does not answer stops the program; an address can
  be in its table twice. `prj14` has mended both.
- `prj05` (a table under one lock; a station that moves keeps its port while it is heard),
  `prj04` (no state), `prj03` (exercises on sockets): sequential, with nothing that
  a test would hardly reach.
- `prj11` to `prj13`: superseded by `prj14`, which keeps their structure.
- The computation of routes in `prj08` (`edit_mtx`, `calc_path`).
