----------------------------- MODULE ArpCache -----------------------------
(***************************************************************************)
(* The ARP cache of prj14 (arpcache.c, the same in prj11 to prj13): the    *)
(* threads that send IP packets (network, application, TCP timer), the     *)
(* network thread that hears of addresses, and the sweeping thread, which  *)
(* asks again, gives up, and then sends ICMP errors through the same cache.*)
(* What is done under arpcache.lock is one step, except that the sweep     *)
(* visits one request a step, with the lock held; the lookup, the append   *)
(* and the request of one iface_send_packet_by_arp are three.              *)
(*                                                                         *)
(* Times are left out: any entry may be old enough at a sweep, and a       *)
(* request may be younger than a second at the first sweep it lives to     *)
(* see.  The routing table gives each address one interface.               *)
(***************************************************************************)
EXTENDS Naturals, Sequences, SequencesExt, FiniteSets

CONSTANTS Hosts,      \* addresses of other machines on the link
          Peers,      \* the hosts that packets come from and go to
          Self,       \* our own address: nobody answers for it
          Macs,       \* hardware addresses a host may have
          Packets,    \* bound: the packets sent
          Senders,    \* threads that send packets
          Sweeper,    \* the sweeping thread
          Size,       \* MAX_ARP_SIZE
          MaxRetries  \* ARP_REQUEST_MAX_RETRIES

ASSUME ArpCacheAssumption ==
  /\ Macs # {} /\ Peers \subseteq Hosts /\ Self \notin Hosts /\ Sweeper \notin Senders
  /\ Size \in Nat \ {0} /\ MaxRetries \in Nat \ {0}

Threads == Senders \cup {Sweeper}
Slots   == 1 .. Size
Ips     == Hosts \cup {Self}

Mapping == [ip : Hosts, mac : Macs]
NoEntry == [ip |-> Self]                \* valid = 0
NoPkt   == "none"

VARIABLES
  entries,   \* the table
  req_list,  \* the requests, newest first
  src, dst,  \* of each packet
  place,     \* where each packet is
  pc, pkt,   \* of each thread: the next step and its packet
  at,        \* the request the sweep is at; 0 unless it holds arpcache.lock
  rejected,  \* pkt_list of the sweeping thread
  latest     \* the hardware address last heard for each host

cacheVars == <<entries, req_list, latest>>
pktVars   == <<src, dst, place>>
vars      == <<cacheVars, pktVars, pc, pkt, at, rejected>>

Init ==
  /\ entries = [i \in Slots |-> NoEntry] /\ req_list = << >>
  /\ src = [p \in Packets |-> Self] /\ dst = [p \in Packets |-> Self]
  /\ place = [p \in Packets |-> "new"]
  /\ pc = [t \in Threads |-> "idle"] /\ pkt = [t \in Threads |-> NoPkt]
  /\ at = 0 /\ rejected = << >>
  /\ latest = [h \in Hosts |-> CHOOSE m \in Macs : TRUE]

LockFree == at = 0

Known(ip) == \E i \in Slots : entries[i].ip = ip /\ entries[i] # NoEntry

-----------------------------------------------------------------------------
(* Sending: iface_send_packet_by_arp.                                      *)

\* arpcache_lookup, and the packet goes if the address is known.
Lookup(t, p, ip) ==
  IF Known(ip)
  THEN /\ place' = [place EXCEPT ![p] = "sent"]
       /\ UNCHANGED <<pc, pkt>>
  ELSE /\ place' = [place EXCEPT ![p] = "held"]
       /\ pc' = [pc EXCEPT ![t] = "append"]
       /\ pkt' = [pkt EXCEPT ![t] = p]

\* A packet of our own, or one to forward, to a host.
Send(t, p) ==
  /\ LockFree /\ pc[t] = "idle" /\ place[p] = "new"
  /\ \E s \in Peers \cup {Self}, d \in Peers :
       /\ src' = [src EXCEPT ![p] = s]
       /\ dst' = [dst EXCEPT ![p] = d]
       /\ Lookup(t, p, d)
  /\ UNCHANGED <<cacheVars, at, rejected>>

\* Mutant: the list is not searched.
RequestsForNone(ip) == {}

RequestsFor(ip) == {i \in 1 .. Len(req_list) : req_list[i].ip = ip}

NewRequest(p) ==
  [ip |-> dst[p], fresh |-> TRUE, retries |-> 1, cached_packets |-> <<p>>]

\* arpcache_append_packet up to the unlock.
AppendPacket(t) ==
  /\ LockFree /\ pc[t] = "append"
  /\ LET p == pkt[t]
         old == RequestsFor(dst[p])
     IN  /\ place' = [place EXCEPT ![p] = "pending"]
         /\ \/ /\ old = {}
               /\ req_list' = <<NewRequest(p)>> \o req_list
               /\ pc' = [pc EXCEPT ![t] = "ask"]
               /\ UNCHANGED pkt
            \/ /\ \E i \in old : req_list' = [req_list EXCEPT ![i].cached_packets = Append(@, p)]
               /\ pc' = [pc EXCEPT ![t] = "idle"]
               /\ pkt' = [pkt EXCEPT ![t] = NoPkt]
  /\ UNCHANGED <<entries, latest, src, dst, at, rejected>>

\* arp_send_request, after the unlock.
Ask(t) ==
  /\ pc[t] = "ask"
  /\ pc' = [pc EXCEPT ![t] = "idle"]
  /\ pkt' = [pkt EXCEPT ![t] = NoPkt]
  /\ UNCHANGED <<cacheVars, pktVars, at, rejected>>

-----------------------------------------------------------------------------
(* Hearing of an address: arpcache_insert, for a reply or for a host's own  *)
(* request.                                                                *)

\* The table with a new mapping: any slot is overwritten as long as one is
\* free; with none free, pos stays -1 and the write falls before the table.
Inserted(m) ==
  IF \E i \in Slots : entries[i] = NoEntry
  THEN {[entries EXCEPT ![i] = m] : i \in Slots}
  ELSE {entries}

Updated(m) == [i \in Slots |-> IF entries[i].ip = m.ip THEN m ELSE entries[i]]

\* Mutant: as in prj07, a mapping that is known is not looked for.
TablesAfterBlind(m) == Inserted(m)

TablesAfter(m) == IF Known(m.ip) THEN {Updated(m)} ELSE Inserted(m)

\* Mutant: only a new mapping releases the packets that wait for it.
ReleasedNew(m) == IF Known(m.ip) THEN {} ELSE {i \in 1 .. Len(req_list) : req_list[i].ip = m.ip}

\* The request whose packets are sent: the first one for the address.
Released(m) ==
  {i \in 1 .. Len(req_list) : /\ req_list[i].ip = m.ip
                              /\ \A j \in 1 .. i - 1 : req_list[j].ip # m.ip}

Hear(m) ==
  /\ LockFree
  /\ entries' \in TablesAfter(m)
  /\ latest' = [latest EXCEPT ![m.ip] = m.mac]
  /\ LET flushed == Released(m)
         gone == UNION {ToSet(req_list[i].cached_packets) : i \in flushed}
     IN  /\ req_list' = IF flushed = {} THEN req_list
                        ELSE RemoveAt(req_list, CHOOSE i \in flushed : TRUE)
         /\ place' = [p \in Packets |-> IF p \in gone THEN "sent" ELSE place[p]]
  /\ UNCHANGED <<src, dst, pc, pkt, at, rejected>>

-----------------------------------------------------------------------------
(* The sweeping thread.                                                    *)

\* Mutant: requests are not counted.
AskedAgainUncounted(r) == [r EXCEPT !.fresh = FALSE]

GiveUp(r) == r.retries >= MaxRetries
AskedAgain(r) == [r EXCEPT !.fresh = FALSE, !.retries = @ + 1]

\* arpcache_sweep takes the lock; any mapping may be too old.
SweepBegin ==
  /\ LockFree /\ pc[Sweeper] = "idle" /\ rejected = << >>
  /\ \E old \in SUBSET Slots :
       entries' = [i \in Slots |-> IF i \in old THEN NoEntry ELSE entries[i]]
  /\ at' = 1
  /\ UNCHANGED <<req_list, latest, pktVars, pc, pkt, rejected>>

\* The request the sweep is at stays, as r, and the sweep goes on.
Stays(r) ==
  /\ req_list' = [req_list EXCEPT ![at] = r]
  /\ at' = at + 1
  /\ UNCHANGED <<place, rejected>>

\* It is too young, is asked again, or is given up with its packets.
SweepRequest ==
  /\ at \in 1 .. Len(req_list)
  /\ LET r == req_list[at]
     IN  \/ r.fresh /\ Stays([r EXCEPT !.fresh = FALSE])
         \/ ~GiveUp(r) /\ Stays(AskedAgain(r))
         \/ /\ GiveUp(r)
            /\ req_list' = RemoveAt(req_list, at)
            /\ rejected' = rejected \o r.cached_packets
            /\ place' = [p \in Packets |-> IF p \in ToSet(r.cached_packets) THEN "rejected"
                                           ELSE place[p]]
            /\ UNCHANGED at
  /\ UNCHANGED <<entries, latest, src, dst, pc, pkt>>

\* The unlock.
SweepEnd ==
  /\ at > Len(req_list)
  /\ at' = 0
  /\ UNCHANGED <<cacheVars, pktVars, pc, pkt, rejected>>

\* icmp_send_packet for the first rejected packet: the error, from us to the
\* packet's source, takes the place of the packet.
SendError ==
  /\ LockFree /\ pc[Sweeper] = "idle" /\ rejected # << >>
  /\ LET p == Head(rejected)
     IN  /\ src' = [src EXCEPT ![p] = Self]
         /\ dst' = [dst EXCEPT ![p] = src[p]]
         /\ Lookup(Sweeper, p, src[p])
  /\ rejected' = Tail(rejected)
  /\ UNCHANGED <<cacheVars, at>>

-----------------------------------------------------------------------------
ThreadStep(t) == AppendPacket(t) \/ Ask(t)
Sweep == SweepBegin \/ SweepRequest \/ SweepEnd
SweeperStep == ThreadStep(Sweeper) \/ Sweep \/ SendError

Next == \/ \E t \in Senders : ThreadStep(t) \/ \E p \in Packets : Send(t, p)
        \/ \E m \in Mapping : Hear(m)
        \/ SweeperStep

Spec == Init /\ [][Next]_vars

\* The threads run; the sweeping thread wakes every second and leaves the lock to
\* the others meanwhile.  Nothing is assumed of the hosts.
Fairness == WF_vars(SweeperStep) /\ \A t \in Senders : SF_vars(ThreadStep(t))

LiveSpec == Spec /\ Fairness

-----------------------------------------------------------------------------
(* Properties.                                                             *)

Request == [ip : Ips, fresh : BOOLEAN, retries : 1 .. MaxRetries, cached_packets : Seq(Packets)]

\* The values of the variables; a request is repeated at most MaxRetries times.
TypeOK ==
  /\ entries \in [Slots -> Mapping \cup {NoEntry}]
  /\ req_list \in Seq(Request)
  /\ src \in [Packets -> Ips] /\ dst \in [Packets -> Ips]
  /\ place \in [Packets -> {"new", "held", "pending", "rejected", "sent"}]
  /\ pc \in [Threads -> {"idle", "append", "ask"}]
  /\ pkt \in [Threads -> Packets \cup {NoPkt}]
  /\ at \in Nat /\ rejected \in Seq(Packets)
  /\ latest \in [Hosts -> Macs]

\* The table has at most one mapping for a host, the last one heard, whatever
\* slots were overwritten or had expired (arpcache.c 79-97): a lookup, which
\* takes the first one, never uses an older hardware address.
EntryIsLatest ==
  \A i \in Slots :
    entries[i] # NoEntry =>
      /\ entries[i].mac = latest[entries[i].ip]
      /\ \A j \in Slots : entries[j] # NoEntry /\ entries[j].ip = entries[i].ip => i = j

\* A packet waits in the queue of its own destination, once, as long as it is
\* pending, and each destination has one queue, although the thread that found
\* the address unknown takes the lock again to append (arpcache.c 33-62).
PendingOnce ==
  /\ \A i, j \in 1 .. Len(req_list) : i # j => req_list[i].ip # req_list[j].ip
  /\ \A i \in 1 .. Len(req_list) : IsInjective(req_list[i].cached_packets)
  /\ \A i \in 1 .. Len(req_list), p \in Packets :
       p \in ToSet(req_list[i].cached_packets)
         <=> place[p] = "pending" /\ dst[p] = req_list[i].ip
  /\ \A p \in Packets :
       place[p] = "pending" => \E i \in 1 .. Len(req_list) : dst[p] = req_list[i].ip

\* Once an address is heard no packet waits for it, also when it was known and
\* the packet was appended after a lookup that had missed it (arpcache.c 80-119).
LearnedIsFlushed ==
  [][\A m \in Mapping : Hear(m) =>
       \A p \in Packets : place'[p] = "pending" => dst'[p] # m.ip]_vars

\* A packet does not wait for ever: it is sent, or given up, and then its
\* error is sent or was to be sent to ourselves (arpcache.c 124-174).
PacketSettled ==
  \A p \in Packets : place[p] # "new" ~> place[p] = "sent" \/ dst[p] = Self
=============================================================================
