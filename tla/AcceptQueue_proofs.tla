------------------------- MODULE AcceptQueue_proofs -------------------------
(***************************************************************************)
(* Proofs about AcceptQueue: what the first accept returns, for any number *)
(* of children and whatever the interleaving of the stores.                *)
(***************************************************************************)
EXTENDS AcceptQueue, TLAPS

Pend      == {Pending} \cup {s \in Socks : stage[s] = "pending"}
Queued    == {s \in Socks : stage[s] \in {"queueing", "complete"}}
InQueue   == {Queue} \cup Queued
Enqueuing == {"tail", "head_prev", "prev_next", "new_next", "new_prev", "count", "counted",
              "wake"}

Heaps == [next : [Nodes -> Nodes], prev : [Nodes -> Nodes]]

\* The types of the variables the invariant is about.
TypeOK ==
  /\ heap \in Heaps
  /\ stage \in [Socks -> {"none", "pending", "queueing", "complete"}]
  /\ npc \in {"idle"} \cup Enqueuing
  /\ tsk \in Nodes /\ before \in Nodes /\ new_tsk \in Nodes
  /\ apc \in {"check", "to_sleep", "asleep", "first", "next_prev", "prev_next", "init",
              "count", "counted"}
  /\ accepted \in Seq(Nodes)

\* The server has taken nothing out of the queue yet.
Untouched == accepted = << >> /\ apc \in {"check", "to_sleep", "asleep", "first"}

\* The nodes P of heap h form lists of their own, linked both ways.
Linked(h, P) ==
  \A n \in P : /\ h.next[n] \in P /\ h.prev[h.next[n]] = n
               /\ h.prev[n] \in P /\ h.next[h.prev[n]] = n

PendingLinked == Linked(heap, Pend)

\* The head of the accept queue points into the queue on both sides, and forwards
\* to a child once the server has seen one.
HeadPoints ==
  /\ heap.next[Queue] \in InQueue /\ heap.prev[Queue] \in InQueue
  /\ before \in InQueue
  /\ apc = "first" => heap.next[Queue] # Queue

\* The child the network thread is at work on.
Enqueued == npc \in Enqueuing => tsk \in Queued

\* The child the server is about to return first.
FirstTaken == accepted = << >> /\ ~Untouched => new_tsk \in Queued

IInv == /\ TypeOK /\ Enqueued /\ FirstTaken /\ FirstIsQueued
        /\ Untouched => PendingLinked /\ HeadPoints

-----------------------------------------------------------------------------
(* Lists.                                                                  *)

\* What the operations of list.h write.
LEMMA ListFacts ==
  ASSUME NEW h \in Heaps, NEW s \in Nodes, NEW a \in Nodes
  PROVE  /\ list_add_tail(h, s, a) \in Heaps /\ list_delete_entry(h, s) \in Heaps
         /\ init_list_head(h, s) \in Heaps
         /\ list_delete_entry(h, s).next = [h.next EXCEPT ![h.prev[s]] = h.next[s]]
         /\ list_delete_entry(h, s).prev = [h.prev EXCEPT ![h.next[s]] = h.prev[s]]
BY DEF Heaps, list_add_tail, list_insert, list_delete_entry, init_list_head

\* A list stays a list when a node is added at its tail.
LEMMA LinkedAdd ==
  ASSUME NEW h \in Heaps, NEW P \in SUBSET Nodes, NEW a \in P, NEW s \in Nodes \ P,
         Linked(h, P)
  PROVE  Linked(list_add_tail(h, s, a), P \cup {s})
<1> DEFINE next == h.next  prev == h.prev  p == prev[a]
           after == list_add_tail(h, s, a)
<1>1. /\ next \in [Nodes -> Nodes] /\ prev \in [Nodes -> Nodes]
      /\ \A n \in P : /\ next[n] \in P /\ prev[next[n]] = n
                      /\ prev[n] \in P /\ next[prev[n]] = n
  BY DEF Heaps, Linked
<1>2. /\ after.next = [[next EXCEPT ![p] = s] EXCEPT ![s] = a]
      /\ after.prev = [[prev EXCEPT ![a] = s] EXCEPT ![s] = p]
  BY DEF list_add_tail, list_insert
<1> HIDE DEF next, prev, p, after
<1>3. p \in P /\ next[p] = a /\ p = prev[a]
  BY <1>1 DEF p
<1>4. ASSUME NEW n \in P \cup {s}
      PROVE  /\ after.next[n] \in P \cup {s} /\ after.prev[after.next[n]] = n
             /\ after.prev[n] \in P \cup {s} /\ after.next[after.prev[n]] = n
  <2>1. CASE n = s
    BY <2>1, <1>1, <1>2, <1>3
  <2>2. CASE n \in P
    <3>1. after.next[n] \in P \cup {s} /\ after.prev[after.next[n]] = n
      <4>1. CASE n = p
        BY <4>1, <1>1, <1>2, <1>3
      <4>2. CASE n # p
        <5>1. after.next[n] = next[n] /\ next[n] \in P /\ next[n] # a /\ next[n] # s
          BY <2>2, <4>2, <1>1, <1>2, <1>3
        <5> QED BY <5>1, <2>2, <1>1, <1>2
      <4> QED BY <4>1, <4>2
    <3>2. after.prev[n] \in P \cup {s} /\ after.next[after.prev[n]] = n
      <4>1. CASE n = a
        BY <4>1, <1>1, <1>2, <1>3
      <4>2. CASE n # a
        <5>1. after.prev[n] = prev[n] /\ prev[n] \in P /\ prev[n] # p /\ prev[n] # s
          BY <2>2, <4>2, <1>1, <1>2, <1>3
        <5> QED BY <5>1, <2>2, <1>1, <1>2
      <4> QED BY <4>1, <4>2
    <3> QED BY <3>1, <3>2
  <2> QED BY <2>1, <2>2
<1> QED BY <1>4 DEF Linked, after

\* What is left of it is a list when a node is taken out.
LEMMA LinkedDelete ==
  ASSUME NEW h \in Heaps, NEW P \in SUBSET Nodes, NEW s \in P, Linked(h, P)
  PROVE  Linked(list_delete_entry(h, s), P \ {s})
<1> DEFINE next == h.next  prev == h.prev  a == prev[s]  b == next[s]
           after == list_delete_entry(h, s)
<1>1. /\ next \in [Nodes -> Nodes] /\ prev \in [Nodes -> Nodes]
      /\ \A n \in P : /\ next[n] \in P /\ prev[next[n]] = n
                      /\ prev[n] \in P /\ next[prev[n]] = n
  BY DEF Heaps, Linked
<1>2. after.next = [next EXCEPT ![a] = b] /\ after.prev = [prev EXCEPT ![b] = a]
  BY ListFacts
<1> HIDE DEF next, prev, after
<1>3. a \in P /\ b \in P /\ next[a] = s /\ prev[b] = s
  BY <1>1
<1>4. ASSUME NEW n \in P \ {s}
      PROVE  /\ after.next[n] \in P \ {s} /\ after.prev[after.next[n]] = n
             /\ after.prev[n] \in P \ {s} /\ after.next[after.prev[n]] = n
  <2>1. after.next[n] \in P \ {s} /\ after.prev[after.next[n]] = n
    BY <1>1, <1>2, <1>3
  <2>2. after.prev[n] \in P \ {s} /\ after.next[after.prev[n]] = n
    BY <1>1, <1>2, <1>3
  <2> QED BY <2>1, <2>2
<1> QED BY <1>4 DEF Linked, after

\* What happens to other nodes leaves it.
LEMMA LinkedElsewhere ==
  ASSUME NEW h, NEW after, NEW P, Linked(h, P),
         \A n \in P : after.next[n] = h.next[n] /\ after.prev[n] = h.prev[n]
  PROVE  Linked(after, P)
BY DEF Linked

-----------------------------------------------------------------------------
(* Steps.                                                                  *)

\* A store changes one pointer.
LEMMA StoreFacts ==
  ASSUME heap \in Heaps, NEW n \in Nodes, NEW to \in Nodes
  PROVE  /\ SetNext(n, to) => /\ heap' \in Heaps /\ heap'.prev = heap.prev
                              /\ heap'.next = [heap.next EXCEPT ![n] = to]
         /\ SetPrev(n, to) => /\ heap' \in Heaps /\ heap'.next = heap.next
                              /\ heap'.prev = [heap.prev EXCEPT ![n] = to]
BY DEF Heaps, SetNext, SetPrev

\* The children and the heads are different nodes.
LEMMA NodeFacts ==
  /\ Socks \subseteq Nodes /\ Queue \in Nodes /\ Pending \in Nodes
  /\ Queue # Pending /\ Queue \notin Socks /\ Pending \notin Socks
  /\ Pend \in SUBSET Nodes /\ InQueue \in SUBSET Nodes
  /\ Pend \cap InQueue = {} /\ Pending \in Pend /\ Queue \in InQueue
BY AcceptQueueAssumption DEF Nodes, Pend, InQueue, Queued

\* Every step keeps the types.
LEMMA TypeStep == ASSUME TypeOK, [Next]_vars PROVE TypeOK'
<1>1. CASE \E s \in Socks : NetSyn(s) \/ NetAck(s)
  <2>1. PICK s \in Socks : NetSyn(s) \/ NetAck(s)
    BY <1>1
  <2>2. /\ list_add_tail(heap, s, Pending) \in Heaps /\ list_delete_entry(heap, s) \in Heaps
        /\ s \in Nodes
    BY NodeFacts, ListFacts DEF TypeOK
  <2> QED BY <2>1, <2>2 DEF TypeOK, NetSyn, NetAck, Net, netVars, appVars, Enqueuing
<1>2. CASE NetTail \/ NetLoadCount \/ NetStoreCount \/ NetWake
  <2>1. heap.prev[Queue] \in Nodes
    BY NodeFacts DEF TypeOK, Heaps
  <2> QED BY <1>2, <2>1 DEF TypeOK, NetTail, NetLoadCount, NetStoreCount, NetWake, Net,
                            netVars, appVars, Enqueuing
<1>3. CASE NetStore
  <2>1. heap' \in Heaps
    BY <1>3, NodeFacts, StoreFacts DEF NetStore, TypeOK
  <2> QED BY <1>3, <2>1 DEF TypeOK, NetStore, Net, appVars, Enqueuing
<1>4. CASE AppCheck \/ AppSleep \/ AppResume \/ AppLoadCount
  BY <1>4 DEF TypeOK, AppCheck, AppSleep, AppResume, AppLoadCount, App, AfterSleep, netVars
<1>5. CASE AppFirst
  <2>1. heap.next[Queue] \in Nodes
    BY NodeFacts DEF TypeOK, Heaps
  <2> QED BY <1>5, <2>1 DEF TypeOK, AppFirst, App, netVars
<1>6. CASE AppStore
  <2>1. /\ heap.next[new_tsk] \in Nodes /\ heap.prev[new_tsk] \in Nodes
        /\ heap \in Heaps /\ new_tsk \in Nodes
    BY DEF TypeOK, Heaps
  <2>2. heap' \in Heaps
    <3>1. CASE SetPrev(heap.next[new_tsk], heap.prev[new_tsk])
      BY <3>1, <2>1, StoreFacts
    <3>2. CASE SetNext(heap.prev[new_tsk], heap.next[new_tsk])
      BY <3>2, <2>1, StoreFacts
    <3>3. CASE heap' = init_list_head(heap, new_tsk)
      BY <3>3, <2>1, ListFacts
    <3> QED BY <1>6, <3>1, <3>2, <3>3 DEF AppStore
  <2> QED BY <1>6, <2>2 DEF TypeOK, AppStore, App, netVars
<1>7. CASE AppReturn
  BY <1>7 DEF TypeOK, AppReturn, App, netVars
<1>8. CASE UNCHANGED vars
  BY <1>8 DEF TypeOK, vars, netVars, appVars
<1> QED BY <1>1, <1>2, <1>3, <1>4, <1>5, <1>6, <1>7, <1>8 DEF Next, NetRun, AppRun

\* A child of the queue stays one.
LEMMA QueuedStays ==
  ASSUME TypeOK, [Next]_vars
  PROVE  Queued \subseteq Queued' /\ InQueue \subseteq InQueue'
<1>1. \A s \in Socks : stage[s] \in {"queueing", "complete"} =>
                         stage'[s] \in {"queueing", "complete"}
  <2>1. CASE \E s \in Socks : NetSyn(s) \/ NetAck(s)
    BY <2>1 DEF TypeOK, NetSyn, NetAck
  <2>2. CASE NetWake
    BY <2>2 DEF TypeOK, NetWake
  <2>3. CASE stage' = stage
    BY <2>3
  <2> QED BY <2>1, <2>2, <2>3 DEF Next, NetRun, NetTail, NetStore, NetLoadCount,
             NetStoreCount, AppRun, AppCheck, AppSleep, AppResume, AppFirst, AppStore,
             AppLoadCount, AppReturn, vars
<1> QED BY <1>1 DEF Queued, InQueue

\* The child the network thread is at work on is queued.
LEMMA EnqueuedStep == ASSUME TypeOK, Enqueued, [Next]_vars PROVE Enqueued'
<1>1. CASE \E s \in Socks : NetAck(s)
  <2>1. PICK s \in Socks : NetAck(s)
    BY <1>1
  <2>2. tsk' = s /\ stage'[s] = "queueing"
    BY <2>1 DEF NetAck, TypeOK
  <2> QED BY <2>2 DEF Enqueued, Queued
<1>2. CASE /\ tsk' = tsk
           /\ npc' \in Enqueuing => npc \in Enqueuing
  BY <1>2, QueuedStays DEF Enqueued
<1> QED BY <1>1, <1>2 DEF Next, NetSyn, NetRun, NetTail, NetStore, NetLoadCount, Net,
           NetStoreCount, NetWake, AppRun, AppCheck, AppSleep, AppResume, AppFirst, AppStore,
           AppLoadCount, AppReturn, vars, netVars, appVars, Enqueuing

\* While the server has taken nothing, its list head and the pending list are sound.
LEMMA UntouchedStep ==
  ASSUME IInv, [Next]_vars, Untouched'
  PROVE  PendingLinked' /\ HeadPoints'
<1>1. /\ heap \in Heaps /\ heap' \in Heaps /\ tsk \in Nodes /\ before \in Nodes
      /\ stage \in [Socks -> {"none", "pending", "queueing", "complete"}]
      /\ heap.next \in [Nodes -> Nodes] /\ heap.prev \in [Nodes -> Nodes]
  BY TypeStep DEF IInv, TypeOK, Heaps
<1>2. Untouched
  BY DEF Untouched, IInv, TypeOK, Next, NetSyn, NetAck, NetRun, NetTail, NetStore, NetLoadCount,
         NetStoreCount, NetWake, AppRun, AppCheck, AppSleep, AppResume, AppFirst, AppStore,
         AppLoadCount, AppReturn, App, vars, netVars, appVars
<1>3. /\ Linked(heap, Pend)
      /\ heap.next[Queue] \in InQueue /\ heap.prev[Queue] \in InQueue /\ before \in InQueue
      /\ apc = "first" => heap.next[Queue] # Queue
  BY <1>2 DEF IInv, PendingLinked, HeadPoints
<1>4. InQueue \subseteq InQueue'
  BY QueuedStays DEF IInv
<1>5. CASE \E s \in Socks : NetSyn(s)
  <2>1. PICK s \in Socks : NetSyn(s)
    BY <1>5
  <2>2. /\ heap' = list_add_tail(heap, s, Pending) /\ UNCHANGED <<apc, before>>
        /\ stage[s] = "none" /\ stage' = [stage EXCEPT ![s] = "pending"]
    BY <2>1 DEF NetSyn, netVars, appVars
  <2>3. s \in Nodes \ Pend /\ s # Queue /\ s \notin InQueue /\ Pend' = Pend \cup {s}
    BY <1>1, <2>2, NodeFacts DEF Pend, InQueue, Queued
  <2>4. PendingLinked'
    BY <1>1, <1>3, <2>2, <2>3, NodeFacts, LinkedAdd DEF PendingLinked
  <2>5. heap.prev[Pending] \in Pend
    BY <1>3, NodeFacts DEF Linked
  <2>6. heap'.next[Queue] = heap.next[Queue] /\ heap'.prev[Queue] = heap.prev[Queue]
    BY <1>1, <2>2, <2>3, <2>5, NodeFacts DEF list_add_tail, list_insert
  <2> QED BY <1>3, <1>4, <2>2, <2>4, <2>6 DEF HeadPoints
<1>6. CASE \E s \in Socks : NetAck(s)
  <2>1. PICK s \in Socks : NetAck(s)
    BY <1>6
  <2>2. /\ heap' = list_delete_entry(heap, s) /\ UNCHANGED <<apc, before>>
        /\ stage[s] = "pending" /\ stage' = [stage EXCEPT ![s] = "queueing"]
    BY <2>1 DEF NetAck, appVars
  <2>3. s \in Pend /\ Pend' = Pend \ {s}
    BY <1>1, <2>2, NodeFacts DEF Pend
  <2>4. PendingLinked'
    BY <1>1, <1>3, <2>2, <2>3, NodeFacts, LinkedDelete DEF PendingLinked
  <2>5. heap.prev[s] \in Pend /\ heap.next[s] \in Pend
    BY <1>3, <2>3 DEF Linked
  <2>6. heap'.next[Queue] = heap.next[Queue] /\ heap'.prev[Queue] = heap.prev[Queue]
    BY <1>1, <2>2, <2>5, NodeFacts DEF list_delete_entry
  <2> QED BY <1>3, <1>4, <2>2, <2>4, <2>6 DEF HeadPoints
<1>7. CASE NetStore
  <2>1. tsk \in Queued /\ tsk \in InQueue /\ tsk # Queue /\ tsk \notin Pend
    BY <1>7, NodeFacts DEF IInv, Enqueued, NetStore, Net, Enqueuing, InQueue, Queued, Pend
  <2>2. UNCHANGED <<stage, apc, before>> /\ Pend' = Pend /\ InQueue' = InQueue
    BY <1>7 DEF NetStore, appVars, Pend, InQueue, Queued
  <2>3. PICK n \in InQueue, to \in InQueue :
          \/ heap'.prev = [heap.prev EXCEPT ![n] = to] /\ heap'.next = heap.next
          \/ /\ heap'.next = [heap.next EXCEPT ![n] = to] /\ heap'.prev = heap.prev
             /\ n = Queue => to # Queue
    <3>1. Queue \in InQueue /\ Queue \in Nodes
      BY NodeFacts
    <3>2. CASE SetPrev(Queue, tsk)
      <4>1. heap'.prev = [heap.prev EXCEPT ![Queue] = tsk] /\ heap'.next = heap.next
        BY <3>2, <1>1, <3>1, StoreFacts
      <4> QED BY <2>1, <3>1, <4>1
    <3>3. CASE SetNext(before, tsk)
      <4>1. heap'.next = [heap.next EXCEPT ![before] = tsk] /\ heap'.prev = heap.prev
        BY <3>3, <1>1, StoreFacts
      <4> QED BY <1>3, <2>1, <4>1
    <3>4. CASE SetNext(tsk, Queue)
      <4>1. heap'.next = [heap.next EXCEPT ![tsk] = Queue] /\ heap'.prev = heap.prev
        BY <3>4, <1>1, <3>1, StoreFacts
      <4> QED BY <2>1, <3>1, <4>1
    <3>5. CASE SetPrev(tsk, before)
      <4>1. heap'.prev = [heap.prev EXCEPT ![tsk] = before] /\ heap'.next = heap.next
        BY <3>5, <1>1, StoreFacts
      <4> QED BY <1>3, <2>1, <4>1
    <3> QED BY <1>7, <3>2, <3>3, <3>4, <3>5 DEF NetStore
  <2>4. \A d \in Pend : heap'.next[d] = heap.next[d] /\ heap'.prev[d] = heap.prev[d]
    <3>1. n \notin Pend
      BY NodeFacts
    <3> QED BY <1>1, <2>3, <3>1, NodeFacts
  <2>5. PendingLinked'
    BY <1>3, <2>2, <2>4, LinkedElsewhere DEF PendingLinked
  <2>6. /\ heap'.next[Queue] \in InQueue /\ heap'.prev[Queue] \in InQueue
        /\ heap'.next[Queue] = heap.next[Queue] \/ heap'.next[Queue] # Queue
    BY <1>1, <1>3, <2>3, NodeFacts
  <2> QED BY <1>3, <2>2, <2>5, <2>6 DEF HeadPoints
<1>8. CASE \/ NetTail \/ NetLoadCount \/ NetStoreCount \/ AppCheck \/ AppSleep
           \/ AppResume \/ UNCHANGED vars
  <2>1. heap' = heap /\ stage' = stage
    BY <1>8 DEF NetTail, NetLoadCount, NetStoreCount, AppCheck, AppSleep, AppResume, vars
  <2>2. before' \in InQueue
    BY <1>3, <1>8 DEF NetTail, NetLoadCount, NetStoreCount, AppCheck, AppSleep, AppResume, vars,
                      netVars
  <2>3. apc' = "first" => heap.next[Queue] # Queue
    BY <1>3, <1>8 DEF NetTail, NetLoadCount, NetStoreCount, AppCheck, AppSleep, AppResume, vars,
                      appVars, App, AfterSleep, list_empty
  <2> QED BY <1>3, <1>4, <2>1, <2>2, <2>3 DEF PendingLinked, HeadPoints, Pend
<1>9. CASE NetWake
  <2>1. tsk \in Queued
    BY <1>9 DEF IInv, Enqueued, NetWake, Net, Enqueuing
  <2>2. Pend' = Pend
    BY <1>1, <1>9, <2>1 DEF NetWake, Queued, Pend
  <2> QED BY <1>3, <1>4, <1>9, <2>2 DEF NetWake, appVars, PendingLinked, HeadPoints
<1>10. ~(AppFirst \/ AppStore \/ AppLoadCount \/ AppReturn)
  BY DEF Untouched, AppFirst, AppStore, AppLoadCount, AppReturn, App, IInv, TypeOK
<1> QED BY <1>5, <1>6, <1>7, <1>8, <1>9, <1>10 DEF Next, NetRun, AppRun

\* What the server has taken, or returned, first is a child of the queue.
LEMMA FirstStep ==
  ASSUME IInv, [Next]_vars
  PROVE  FirstTaken' /\ FirstIsQueued'
<1>1. Queued \subseteq Queued' /\ Queued \subseteq Socks
  BY QueuedStays DEF IInv, Queued
<1>2. accepted \in Seq(Nodes) /\ new_tsk \in Nodes
  BY DEF IInv, TypeOK
<1>3. accepted # << >> => accepted[1] \in Queued
  BY DEF IInv, FirstIsQueued, Queued
<1>4. accepted' # << >> => accepted'[1] \in Queued'
  <2>1. CASE AppReturn
    <3>1. accepted' = Append(accepted, new_tsk)
      BY <2>1 DEF AppReturn
    <3>2. CASE accepted = << >>
      <4>1. new_tsk \in Queued
        BY <2>1, <3>2 DEF IInv, FirstTaken, Untouched, AppReturn, App
      <4>2. accepted'[1] = new_tsk
        BY <1>2, <3>1, <3>2
      <4> QED BY <4>1, <4>2, <1>1
    <3>3. CASE accepted # << >>
      <4>1. accepted'[1] = accepted[1]
        BY <1>2, <3>1, <3>3
      <4> QED BY <4>1, <1>1, <1>3, <3>3
    <3> QED BY <3>2, <3>3
  <2>2. CASE accepted' = accepted
    BY <2>2, <1>1, <1>3
  <2> QED BY <2>1, <2>2 DEF Next, NetSyn, NetAck, NetRun, NetTail, NetStore, NetLoadCount,
             NetStoreCount, NetWake, AppRun, AppCheck, AppSleep, AppResume, AppFirst, AppStore,
             AppLoadCount, vars, appVars
<1>5. FirstTaken'
  <2> SUFFICES ASSUME accepted' = << >>, ~Untouched' PROVE new_tsk' \in Queued'
    BY DEF FirstTaken
  <2>1. CASE AppFirst
    <3>1. accepted = << >> /\ apc = "first"
      BY <2>1 DEF AppFirst, App
    <3>2. heap.next[Queue] \in Queued
      BY <3>1 DEF IInv, Untouched, HeadPoints, InQueue
    <3> QED BY <2>1, <3>2, <1>1 DEF AppFirst
  <2>2. CASE AppReturn
    <3>1. accepted' = Append(accepted, new_tsk)
      BY <2>2 DEF AppReturn
    <3>2. Len(accepted') = Len(accepted) + 1 /\ Len(accepted) \in Nat /\ Len(<< >>) = 0
      BY <1>2, <3>1
    <3>3. Len(accepted') # Len(<< >>)
      BY <3>2
    <3> QED BY <3>3
  <2>3. CASE ~AppFirst /\ ~AppReturn
    <3>1. accepted = << >> /\ new_tsk' = new_tsk /\ ~Untouched
      BY <2>3 DEF Untouched, Next, NetSyn, NetAck, NetRun, NetTail, NetStore, NetLoadCount,
             NetStoreCount, NetWake, AppRun, AppCheck, AppSleep, AppResume, AppStore,
             AppLoadCount, App, AfterSleep, vars, appVars
    <3> QED BY <3>1, <1>1 DEF IInv, FirstTaken
  <2> QED BY <2>1, <2>2, <2>3
<1>6. FirstIsQueued'
  BY <1>4 DEF FirstIsQueued, Queued
<1> QED BY <1>5, <1>6

-----------------------------------------------------------------------------
\* The invariant holds at the start.
LEMMA InitIInv == ASSUME Init PROVE IInv
<1>1. TypeOK
  BY NodeFacts DEF Init, TypeOK, Heaps
<1>2. Pend = {Pending} /\ InQueue = {Queue}
  BY DEF Init, Pend, InQueue, Queued
<1>3. Linked(heap, Pend) /\ HeadPoints
  BY <1>2, NodeFacts DEF Init, Linked, HeadPoints
<1>4. Enqueued /\ FirstTaken /\ FirstIsQueued
  BY DEF Init, Enqueued, Enqueuing, FirstTaken, Untouched, FirstIsQueued
<1> QED BY <1>1, <1>3, <1>4 DEF IInv, PendingLinked

\* The first call of tcp_sock_accept that returns, returns a child whose handshake
\* is over, however the stores of the two threads interleave (tcp_sock.c 323-347).
THEOREM FirstIsQueuedCorrect == Spec => []FirstIsQueued
<1>1. Init => IInv
  BY InitIInv
<1>2. IInv /\ [Next]_vars => IInv'
  BY TypeStep, EnqueuedStep, UntouchedStep, FirstStep DEF IInv
<1>3. IInv => FirstIsQueued
  BY DEF IInv
<1> QED BY <1>1, <1>2, <1>3, PTL DEF Spec
=============================================================================
