---------------------------- MODULE AcceptQueue ----------------------------
(***************************************************************************)
(* prj14: the accept queue of a listener.  The network thread puts a child *)
(* into it (tcp_sock_accept_enqueue) while the server's thread takes one   *)
(* out (tcp_sock_accept_dequeue), both without a lock.  A store to a       *)
(* pointer, with the loads that lead to it, is one step; the code is built *)
(* without optimisation, so they happen in program order.                  *)
(***************************************************************************)
EXTENDS LinkedList, Integers, Sequences, SynchWait

CONSTANTS Socks,     \* the children
          Queue,     \* the list head accept_queue
          Pending,   \* the list head listen_queue
          MaxAccepts \* bound: calls of tcp_sock_accept

ASSUME AcceptQueueAssumption ==
  Queue # Pending /\ Queue \notin Socks /\ Pending \notin Socks /\ MaxAccepts \in Nat

Nodes == Socks \cup {Queue, Pending}

VARIABLES heap,                    \* next and prev of every `list` node
          accept_backlog, wait_accept,
          stage,                   \* of each child: how far its handshake is
          npc, tsk, before, nread, \* network thread: where, child, registers
          apc, new_tsk, aread,     \* server's thread: where, child, register
          accepted                 \* what tcp_sock_accept has returned

netVars == <<npc, tsk, before, nread>>
appVars == <<apc, new_tsk, aread, accepted>>
vars    == <<heap, accept_backlog, wait_accept, stage, netVars, appVars>>

Init ==
  /\ heap = [next |-> [n \in Nodes |-> n], prev |-> [n \in Nodes |-> n]]
  /\ accept_backlog = 0 /\ wait_accept = wait_init
  /\ stage = [s \in Socks |-> "none"]
  /\ npc = "idle" /\ tsk = Queue /\ before = Queue /\ nread = 0
  /\ apc = "check" /\ new_tsk = Queue /\ aread = 0 /\ accepted = << >>

SetNext(n, to) == heap' = [heap EXCEPT !.next[n] = to]
SetPrev(n, to) == heap' = [heap EXCEPT !.prev[n] = to]

-----------------------------------------------------------------------------
(* The network thread.                                                     *)

Net(from, to) == npc = from /\ npc' = to

\* A SYN: the child is allocated and put into listen_queue.
NetSyn(s) ==
  /\ npc = "idle" /\ stage[s] = "none"
  /\ stage' = [stage EXCEPT ![s] = "pending"]
  /\ heap' = list_add_tail(heap, s, Pending)
  /\ UNCHANGED <<accept_backlog, wait_accept, netVars, appVars>>

\* The last packet of the handshake: out of listen_queue ...
NetAck(s) ==
  /\ Net("idle", "tail") /\ stage[s] = "pending"
  /\ stage' = [stage EXCEPT ![s] = "queueing"]
  /\ tsk' = s
  /\ heap' = list_delete_entry(heap, s)
  /\ UNCHANGED <<accept_backlog, wait_accept, before, nread, appVars>>

\* ... and to the tail of accept_queue, load by load and store by store.
NetTail ==
  /\ Net("tail", "head_prev")
  /\ before' = heap.prev[Queue]
  /\ UNCHANGED <<heap, accept_backlog, wait_accept, stage, tsk, nread, appVars>>

NetStore ==
  /\ \/ Net("head_prev", "prev_next") /\ SetPrev(Queue, tsk)
     \/ Net("prev_next", "new_next") /\ SetNext(before, tsk)
     \/ Net("new_next", "new_prev") /\ SetNext(tsk, Queue)
     \/ Net("new_prev", "count") /\ SetPrev(tsk, before)
  /\ UNCHANGED <<accept_backlog, wait_accept, stage, tsk, before, nread, appVars>>

\* accept_backlog += 1.
NetLoadCount ==
  /\ Net("count", "counted")
  /\ nread' = accept_backlog
  /\ UNCHANGED <<heap, accept_backlog, wait_accept, stage, tsk, before, appVars>>

NetStoreCount ==
  /\ Net("counted", "wake")
  /\ accept_backlog' = nread + 1
  /\ UNCHANGED <<heap, wait_accept, stage, tsk, before, nread, appVars>>

\* Mutant: the server is woken only when it is seen asleep.
WakeAcceptSeen == IF wait_accept.sleep THEN wake_up(wait_accept) ELSE wait_accept

WakeAccept == wake_up(wait_accept)

NetWake ==
  /\ Net("wake", "idle")
  /\ wait_accept' = WakeAccept
  /\ stage' = [stage EXCEPT ![tsk] = "complete"]
  /\ UNCHANGED <<heap, accept_backlog, tsk, before, nread, appVars>>

-----------------------------------------------------------------------------
(* The server's thread: tcp_sock_accept.                                   *)

App(from, to) == apc = from /\ apc' = to

\* while (list_empty(&tsk->accept_queue)) ...
AppCheck ==
  /\ Len(accepted) < MaxAccepts
  /\ App("check", IF list_empty(heap, Queue) THEN "to_sleep" ELSE "first")
  /\ UNCHANGED <<heap, accept_backlog, wait_accept, stage, netVars, new_tsk, aread, accepted>>

\* Mutant: the queue is not looked at again after the sleep.
AfterSleepTake == "first"

AfterSleep == "check"

AppSleep ==
  /\ App("to_sleep", IF Returns(wait_accept) THEN AfterSleep ELSE "asleep")
  /\ wait_accept' = sleep_on(wait_accept)
  /\ UNCHANGED <<heap, accept_backlog, stage, netVars, new_tsk, aread, accepted>>

AppResume ==
  /\ App("asleep", AfterSleep)
  /\ wait_accept' = resume(wait_accept)
  /\ UNCHANGED <<heap, accept_backlog, stage, netVars, new_tsk, aread, accepted>>

AppFirst ==
  /\ App("first", "next_prev")
  /\ new_tsk' = heap.next[Queue]
  /\ UNCHANGED <<heap, accept_backlog, wait_accept, stage, netVars, aread, accepted>>

\* list_delete_entry, then init_list_head.
AppStore ==
  /\ \/ App("next_prev", "prev_next") /\ SetPrev(heap.next[new_tsk], heap.prev[new_tsk])
     \/ App("prev_next", "init") /\ SetNext(heap.prev[new_tsk], heap.next[new_tsk])
     \/ App("init", "count") /\ heap' = init_list_head(heap, new_tsk)
  /\ UNCHANGED <<accept_backlog, wait_accept, stage, netVars, new_tsk, aread, accepted>>

\* accept_backlog -= 1.
AppLoadCount ==
  /\ App("count", "counted")
  /\ aread' = accept_backlog
  /\ UNCHANGED <<heap, accept_backlog, wait_accept, stage, netVars, new_tsk, accepted>>

AppReturn ==
  /\ App("counted", "check")
  /\ accept_backlog' = aread - 1
  /\ accepted' = Append(accepted, new_tsk)
  /\ UNCHANGED <<heap, wait_accept, stage, netVars, new_tsk, aread>>

-----------------------------------------------------------------------------
NetRun == NetTail \/ NetStore \/ NetLoadCount \/ NetStoreCount \/ NetWake
AppRun == AppCheck \/ AppSleep \/ AppFirst \/ AppStore \/ AppLoadCount \/ AppReturn

\* pthread_cond_wait may return without a signal: AppResume is not guarded.
Next == (\E s \in Socks : NetSyn(s) \/ NetAck(s)) \/ NetRun \/ AppRun \/ AppResume

Spec == Init /\ [][Next]_vars

\* Both threads run, a signalled thread wakes.
Fairness == WF_vars(NetRun) /\ WF_vars(AppRun) /\ WF_vars(wait_accept.notified /\ AppResume)

LiveSpec == Spec /\ Fairness

-----------------------------------------------------------------------------
(* Properties.                                                             *)

\* The first socket accept returns is a child whose handshake is over, never a
\* pending one and never the head of the list, although the wakeup it waits for
\* may be stale or spurious and the enqueueing half done (tcp_sock.c 331-347).
FirstIsQueued ==
  accepted # << >> =>
    accepted[1] \in Socks /\ stage[accepted[1]] \in {"queueing", "complete"}

\* Once a handshake is complete, accept returns for the first time, although the
\* network thread wakes the server before it has set the state, and the server
\* may look at the queue, or go to sleep, at any point of the enqueueing
\* (tcp_in.c 200-202, tcp_sock.c 342-347).
FirstIsAccepted ==
  (\E s \in Socks : stage[s] = "complete") /\ accepted = << >> ~> accepted # << >>
=============================================================================
