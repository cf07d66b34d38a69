------------------------------- MODULE Mospf -------------------------------
(***************************************************************************)
(* The link-state database of prj08 (mospf_daemon.c, mospf_database.c):    *)
(* what the routers know of one of them, Origin.  Entries of different     *)
(* routers never meet, so the others are followed as Origin is.            *)
(*                                                                         *)
(* A router has one interface per neighbour.  Each of its threads does a   *)
(* round under mospf_lock or db_lock, so a round is one step.  A router    *)
(* may stop and be started again, with an empty database and from sequence *)
(* number 0.                                                               *)
(***************************************************************************)
EXTENDS Naturals, Sequences, FiniteSets

CONSTANTS Routers,
          Adjacent,         \* the links: a symmetric relation of Routers
          Origin,
          Followed,         \* the routers whose state is followed
          SeqMod,           \* sequence_num is a u16
          DatabaseTimeout,  \* MOSPF_DATABASE_TIMEOUT, in rounds of checking_database
          LinkRoom,         \* bound: LSUs on the way over a link; others are lost
          MaxStops,         \* bound: stops of routers
          None

ASSUME MospfAssumption ==
  /\ Adjacent \subseteq {l \in Routers \X Routers : l[1] # l[2]}
  /\ \A l \in Adjacent : <<l[2], l[1]>> \in Adjacent
  /\ Origin \in Followed /\ Followed \subseteq Routers
  \* What a router with one link hears of Origin it tells nobody.
  /\ \A r \in Routers \ Followed : Cardinality({l \in Adjacent : l[1] = r}) = 1
  /\ SeqMod \in Nat \ {0} /\ DatabaseTimeout \in Nat \ {0}
  /\ LinkRoom \in Nat /\ MaxStops \in Nat

NextTo(r) == {n \in Routers : <<r, n>> \in Adjacent}

\* The links to others: who is a neighbour is said by its router id.
Lsu == [seq : 0 .. SeqMod - 1, adv : SUBSET Routers]

\* map2mtx: NODE_ADD, an index of the matrix, or what NODE_DELETE - index gives.
Entry == [lsu : Lsu, alive : 0 .. DatabaseTimeout, map2mtx : {"add", "index", "delete"}]

ASSUME NoneAssumption == None \notin Entry

VARIABLES
  up,            \* the routers that run
  nbr_list,      \* of each router that is followed
  sequence_num,  \* of Origin
  mospf_db,      \* the entry of Origin in the database of each router
  link,          \* the LSUs on the way over <<from, to>>
  stops

vars == <<up, nbr_list, sequence_num, mospf_db, link, stops>>

Init ==
  /\ up = Routers
  /\ nbr_list = [r \in Followed |-> {}]
  /\ sequence_num = 0
  /\ mospf_db = [r \in Followed |-> None]
  /\ link = [l \in Adjacent |-> << >>]
  /\ stops = 0

-----------------------------------------------------------------------------
\* Router r is stopped; what is on the way to it is lost.
Stop(r) ==
  /\ r \in up /\ stops < MaxStops
  /\ stops' = stops + 1
  /\ up' = up \ {r}
  /\ link' = [l \in Adjacent |-> IF l[2] = r THEN << >> ELSE link[l]]
  /\ UNCHANGED <<nbr_list, sequence_num, mospf_db>>

\* mospf_init, init_mospf_db.
Start(r) ==
  /\ r \notin up
  /\ up' = up \cup {r}
  /\ nbr_list' = [nbr_list EXCEPT ![r] = {}]
  /\ sequence_num' = IF r = Origin THEN 0 ELSE sequence_num
  /\ mospf_db' = [mospf_db EXCEPT ![r] = None]
  /\ UNCHANGED <<link, stops>>

\* n sends its hellos, and r hears one.
handle_mospf_hello(r, n) ==
  /\ {r, n} \subseteq up /\ n \in NextTo(r) \ nbr_list[r]
  /\ nbr_list' = [nbr_list EXCEPT ![r] = @ \cup {n}]
  /\ UNCHANGED <<up, sequence_num, mospf_db, link, stops>>

\* The hellos of n have stopped.
checking_nbr(r, n) ==
  /\ r \in up /\ n \in nbr_list[r] \ up
  /\ nbr_list' = [nbr_list EXCEPT ![r] = @ \ {n}]
  /\ UNCHANGED <<up, sequence_num, mospf_db, link, stops>>

\* The links k when r sends lsu to its neighbours Q.
Sent(k, r, Q, lsu) ==
  [l \in Adjacent |-> IF l[1] = r /\ l[2] \in Q \cap Followed \cap up /\ Len(k[l]) < LinkRoom
                      THEN Append(k[l], lsu) ELSE k[l]]

\* The thread of Origin.
sending_mospf_lsu ==
  LET lsu == [seq |-> sequence_num, adv |-> nbr_list[Origin]]
  IN  /\ Origin \in up
      /\ link' = Sent(link, Origin, nbr_list[Origin], lsu)
      /\ sequence_num' = (sequence_num + 1) % SeqMod
      /\ UNCHANGED <<up, nbr_list, mospf_db, stops>>

\* The LSU says nothing of Origin that r does not know.
Known(r, lsu) == mospf_db[r] # None /\ lsu.seq <= mospf_db[r].lsu.seq

\* The entry e after the LSU.  One that is to be deleted stays so.
Renewed(e, lsu) ==
  [lsu |-> lsu, alive |-> DatabaseTimeout, map2mtx |-> IF e = None THEN "add" ELSE e.map2mtx]

\* An LSU from neighbour n; what is new goes on over the other interfaces.
handle_mospf_lsu(r, n) ==
  LET lsu == Head(link[n, r])
      rest == [link EXCEPT ![n, r] = Tail(@)]
  IN  /\ r \in up /\ n \in NextTo(r) /\ link[n, r] # << >>
      /\ IF r = Origin \/ Known(r, lsu)
         THEN link' = rest /\ UNCHANGED mospf_db
         ELSE /\ mospf_db' = [mospf_db EXCEPT ![r] = Renewed(@, lsu)]
              /\ link' = Sent(rest, r, nbr_list[r] \ {n}, lsu)
      /\ UNCHANGED <<up, nbr_list, sequence_num, stops>>

\* Mutant: only an entry without an index is marked.
ToggledNew(map2mtx) == IF map2mtx = "add" THEN "delete" ELSE map2mtx

\* NODE_DELETE - map2mtx: marks, and unmarks if the other thread was not there since.
Toggled(map2mtx) == IF map2mtx = "index" THEN "delete" ELSE "index"

\* A round of checking_database_thread.  setting_rt_list_thread has many rounds in the
\* life of an entry: the entry has an index when its time is up.
checking_database(r) ==
  LET e == mospf_db[r]
  IN  /\ r \in up /\ e # None
      /\ IF e.alive > 1
         THEN mospf_db' = [mospf_db EXCEPT ![r].alive = @ - 1]
         ELSE /\ e.map2mtx # "add"
              /\ mospf_db' = [mospf_db EXCEPT ![r].alive = 0, ![r].map2mtx = Toggled(@)]
      /\ UNCHANGED <<up, nbr_list, sequence_num, link, stops>>

\* A round of setting_rt_list_thread, as far as it changes the database.
renew_matrix(r) ==
  /\ r \in up /\ mospf_db[r] # None
  /\ \/ /\ mospf_db[r].map2mtx = "delete"
        /\ mospf_db' = [mospf_db EXCEPT ![r] = None]
     \/ /\ mospf_db[r].map2mtx = "add"
        /\ mospf_db' = [mospf_db EXCEPT ![r].map2mtx = "index"]
  /\ UNCHANGED <<up, nbr_list, sequence_num, link, stops>>

Next ==
  \/ sending_mospf_lsu
  \/ \E r \in Routers : Stop(r) \/ Start(r)
  \/ \E r \in Followed : checking_database(r) \/ renew_matrix(r)
  \/ \E r \in Followed, n \in Routers :
       handle_mospf_hello(r, n) \/ checking_nbr(r, n) \/ handle_mospf_lsu(r, n)

Spec == Init /\ [][Next]_vars

\* The threads of a router that runs go on and packets arrive.  The periods of
\* checking_database_thread and setting_rt_list_thread differ by the time their work
\* takes, so a mark is not taken back every time (SF).
Fairness ==
  /\ WF_vars(sending_mospf_lsu)
  /\ WF_vars(\E r \in Followed, n \in Routers : handle_mospf_hello(r, n) \/ checking_nbr(r, n))
  /\ \A r \in Followed \ {Origin} :
       /\ WF_vars(\E n \in Routers : handle_mospf_lsu(r, n))
       /\ WF_vars(checking_database(r))
       /\ SF_vars(renew_matrix(r))

LiveSpec == Spec /\ Fairness

-----------------------------------------------------------------------------
(* Properties.                                                             *)

TypeOK ==
  /\ up \subseteq Routers
  /\ nbr_list \in [Followed -> SUBSET Routers]
  /\ sequence_num \in 0 .. SeqMod - 1
  /\ mospf_db \in [Followed -> Entry \cup {None}]
  /\ link \in [Adjacent -> Seq(Lsu)]
  /\ stops \in 0 .. MaxStops

\* Router r has it that n is there: it has an entry of Origin, which is n or is linked to it.
Believes(r, n) == mospf_db[r] # None /\ (n = Origin \/ n \in mospf_db[r].lsu.adv)

\* In the end, for stops are bounded, who is down is forgotten by all that run, be it
\* Origin or a neighbour of it, although a mark may be taken back, an LSU may arrive late, and
\* new ones may be ignored (checking_nbr_thread, checking_database_thread, renew_matrix).
Forgotten == <>[](\A r \in Followed \cap up, n \in Routers \ up : ~Believes(r, n))

Knows(r) == mospf_db[r] # None /\ mospf_db[r].lsu.adv = nbr_list[Origin]

\* When all routers run, each learns Origin's links again and again, though LSUs are
\* lost, the number wraps to 0 and starts from 0 after a stop, and everyone ignores
\* LSUs until the old entry is dropped (handle_mospf_lsu, line 258).
KnownAgain == <>[](up = Routers) => \A r \in Followed \ {Origin} : []<>Knows(r)
=============================================================================
