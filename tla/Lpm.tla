-------------------------------- MODULE Lpm --------------------------------
(***************************************************************************)
(* The longest-prefix match of prj09: the binary trie of base.c and the    *)
(* compressed one of poptrie.c, filled from a forwarding table.  The test  *)
(* program is built with one of them; insertion in the compressed trie is  *)
(* followed node by node.                                                  *)
(*                                                                         *)
(* An internal node has a slot for each value of K bits.  A slot whose bit *)
(* in vector is set has a child; the others have leaves, one for each run  *)
(* of slots, that begins where the bit in leafvec is set.  Both arrays are *)
(* packed.  Children are found through pointers, kept in direct_pointing   *)
(* as well, so an array that is moved has to be followed.                  *)
(*                                                                         *)
(* An unsigned integer is the function of its bits, the highest first.     *)
(***************************************************************************)
EXTENDS Naturals, Sequences, FiniteSets, SequencesExt, FiniteSetsExt

CONSTANTS K,      \* bits of a key, 6 in the program
          W,      \* bits of an address, 32; more than 2 * K
          Table,  \* the entries [dest, mask, iface] of the forwarding table
          NULL

Bits(n) == [1 .. n -> {0, 1}]
Address == Bits(W)
Slots   == Bits(K)

\* Bit i of d; what is shifted in is 0.
Bit(d, i) == IF i \in DOMAIN d THEN d[i] ELSE 0

\* The first bits of d: the way from the root of a binary trie.
Way(d, depth) == [i \in 1 .. depth |-> Bit(d, i)]

\* The K bits after those.
Key(d, depth) == [i \in 1 .. K |-> Bit(d, depth + i)]

\* The table, which is not part of the program, has each prefix once, with zeros after it.
ASSUME LpmAssumption ==
  /\ K \in Nat \ {0} /\ W \in Nat /\ W > 2 * K
  /\ NULL \notin Nat \cup (Nat \X Nat) \cup [entry : Table, depth : Nat, current : Nat \X Nat]
  /\ \A p \in Table : /\ p.mask \in 1 .. W /\ p.iface \in Nat \ {0} /\ p.dest \in Address
                      /\ \A i \in p.mask + 1 .. W : p.dest[i] = 0
  /\ \A p, q \in Table : Way(p.dest, p.mask) = Way(q.dest, q.mask) => p = q

VARIABLES
  BASE,             \* whether the program is built with the binary trie
  inserted,         \* the entries put so far
  son,              \* base.c: the nodes below the root with their matches
  arrays,           \* poptrie.c: the arrays of internal nodes, by number
  counter_internal, \* the number of the last
  direct_pointing,
  put               \* the insertion under way, or NULL

vars == <<BASE, inserted, son, arrays, counter_internal, direct_pointing, put>>

Slot0  == [i \in 1 .. K |-> 0]
NoLeaf == [iface |-> 0, mask |-> 0]

\* Mutant: a new node matches nothing.
NewNodeEmpty(leaf) ==
  [vector |-> {}, leafvec |-> {Slot0}, leaf |-> <<[leaf EXCEPT !.iface = 0]>>, child |-> NULL]

NewNode(leaf) == [vector |-> {}, leafvec |-> {Slot0}, leaf |-> <<leaf>>, child |-> NULL]

Root == <<1, 1>>

Init ==
  /\ BASE \in BOOLEAN
  /\ inserted = {}
  /\ son = << >>
  /\ arrays = [a \in {1} |-> <<NewNode(NoLeaf)>>]
  /\ counter_internal = 1
  /\ direct_pointing = [i \in Bits(2 * K) |-> NULL]
  /\ put = NULL

-----------------------------------------------------------------------------
\* The trie of base.c.  A node is named by the bits on the way to it.

\* Mutant: a node that is there already gets no match.
put_baseNew(p) ==
  /\ BASE /\ p \notin inserted
  /\ inserted' = inserted \cup {p}
  /\ son' = [n \in DOMAIN son \cup {Way(p.dest, k) : k \in 1 .. p.mask} |->
               IF n \in DOMAIN son THEN son[n]
               ELSE IF n = Way(p.dest, p.mask) THEN p.iface ELSE NULL]
  /\ UNCHANGED <<BASE, arrays, counter_internal, direct_pointing, put>>

put_base(p) ==
  /\ BASE /\ p \notin inserted
  /\ inserted' = inserted \cup {p}
  /\ son' = [n \in DOMAIN son \cup {Way(p.dest, k) : k \in 1 .. p.mask} |->
               IF n = Way(p.dest, p.mask) THEN p.iface
               ELSE IF n \in DOMAIN son THEN son[n] ELSE NULL]
  /\ UNCHANGED <<BASE, arrays, counter_internal, direct_pointing, put>>

\* How deep the trie is followed for d.
Depths(d) == {k \in 1 .. W : \A j \in 1 .. k : Way(d, j) \in DOMAIN son}

get_base(d) ==
  LET matches == {k \in Depths(d) : son[Way(d, k)] # NULL}
  IN  IF matches = {} THEN 0 ELSE son[Way(d, Max(matches))]

-----------------------------------------------------------------------------
\* The compressed trie.
Node(at) == arrays[at[1]][at[2]]

\* The order of the slots.
Before(s, t) == \E i \in 1 .. K : s[i] < t[i] /\ \A j \in 1 .. i - 1 : s[j] = t[j]
First(S)     == CHOOSE s \in S : \A t \in S : t = s \/ Before(s, t)

\* The place in a packed array of the last element at or before the slot.
Rank(S, slot) == Cardinality({s \in S : s = slot \/ Before(s, slot)})

LeafAt(n, slot) == n.leaf[Rank(n.leafvec, slot)]
LeafOf(n, slot) == IF Rank(n.leafvec, slot) = 0 THEN NoLeaf ELSE LeafAt(n, slot)

Child(n, slot) == <<n.child, Rank(n.vector, slot)>>

\* A step of the walk for d, which stays where the slot has no child.
Follow(d, w) ==
  LET n == Node(w.at)
  IN  IF Key(d, w.depth) \in n.vector
      THEN [at |-> Child(n, Key(d, w.depth)), depth |-> w.depth + K] ELSE w

\* The leaf that the walk from a node comes to, after W nodes at most.
Lookup(at, depth, d) ==
  LET walk[k \in 0 .. W] ==
        IF k = 0 THEN [at |-> at, depth |-> depth] ELSE Follow(d, walk[k - 1])
      end == walk[W]
  IN  LeafAt(Node(end.at), Key(d, end.depth))

get_poptrie(d) ==
  LET direct == direct_pointing[Way(d, 2 * K)]
  IN  IF direct = NULL THEN Lookup(Root, 0, d).iface ELSE Lookup(direct, 2 * K, d).iface

\* The forwarding table lists a prefix after those it lies in.
Within(p, q) == q.mask < p.mask /\ Way(p.dest, q.mask) = Way(q.dest, q.mask)

\* put_poptrie up to the loop.
PutBegin(p) ==
  LET direct == direct_pointing[Way(p.dest, 2 * K)]
  IN  /\ ~BASE /\ put = NULL /\ p \notin inserted
      /\ \A q \in Table : Within(p, q) => q \in inserted
      /\ inserted' = inserted \cup {p}
      /\ put' = IF direct # NULL /\ p.mask > 2 * K
                THEN [entry |-> p, depth |-> 2 * K, current |-> direct]
                ELSE [entry |-> p, depth |-> 0, current |-> Root]
      /\ UNCHANGED <<BASE, son, arrays, counter_internal, direct_pointing>>

\* Node n after slot key has got a child: a run of leaves that began there begins at
\* the next slot with a leaf, or is over.
WithoutLeaf(n, key) ==
  LET later == {s \in Slots : Before(key, s)} \ n.vector
      moves == later # {} /\ First(later) \notin n.leafvec
  IN  IF key \notin n.leafvec THEN n
      ELSE IF moves THEN [n EXCEPT !.leafvec = (@ \ {key}) \cup {First(later)}]
      ELSE [n EXCEPT !.leafvec = @ \ {key}, !.leaf = RemoveAt(@, Rank(n.leafvec, key))]

\* direct_pointing after the children of a node of level 1 have moved to array a.
Repointed(head, vector, a) ==
  [i \in Bits(2 * K) |->
     IF Way(i, K) = head /\ Key(i, K) \in vector THEN <<a, Rank(vector, Key(i, K))>>
     ELSE direct_pointing[i]]

\* The bits of the prefix that are left, and the next ones.
Left    == put.entry.mask - put.depth
PutKey  == Key(put.entry.dest, put.depth)
Descending == put # NULL /\ Left > K

\* The walk goes on at address at.
Descend(at) == put' = [put EXCEPT !.current = at, !.depth = @ + K]

PutFollow ==
  /\ Descending /\ PutKey \in Node(put.current).vector
  /\ Descend(Child(Node(put.current), PutKey))
  /\ UNCHANGED <<BASE, inserted, son, arrays, counter_internal, direct_pointing>>

\* The child array is copied, with a new child that has the leaf of its slot.
PutGrow ==
  LET n     == Node(put.current)
      a     == counter_internal + 1
      place == Rank(n.vector, PutKey) + 1
      old   == IF n.child = NULL THEN << >> ELSE arrays[n.child]
      grown == [WithoutLeaf(n, PutKey) EXCEPT !.vector = @ \cup {PutKey}, !.child = a]
      kept  == [arrays EXCEPT ![put.current[1]][put.current[2]] = grown]
  IN  /\ Descending /\ PutKey \notin n.vector
      /\ arrays' = [b \in (DOMAIN arrays \ {n.child}) \cup {a} |->
                      IF b = a THEN InsertAt(old, place, NewNode(LeafAt(n, PutKey))) ELSE kept[b]]
      /\ counter_internal' = a
      /\ direct_pointing' = IF put.depth = K
           THEN Repointed(Way(put.entry.dest, K), grown.vector, a) ELSE direct_pointing
      /\ Descend(<<a, place>>)
      /\ UNCHANGED <<BASE, inserted, son>>

\* Node n after the leaves of the slots that begin with the Left bits of slot key have
\* become that of the new prefix.  A leaf of a longer prefix stays marked in leafvec.
Leaves(n, key) ==
  LET range    == {s \in Slots : Way(s, Left) = Way(key, Left)}
      new      == [iface |-> put.entry.iface, mask |-> put.entry.mask]
      open     == range \ n.vector
      after    == {s \in Slots \ range : Before(key, s)} \ n.vector
      written  == {s \in open : /\ s = First(open) \/ s \in n.leafvec
                                /\ new.mask >= LeafOf(n, s).mask}
      restored == {s \in after : s = First(after) /\ open # {}}
      begins   == (n.leafvec \ range) \cup written \cup restored
      Begin(i) == CHOOSE s \in begins : Rank(begins, s) = i
  IN  [n EXCEPT !.leafvec = @ \cup written \cup restored,
                !.leaf = [i \in 1 .. Cardinality(begins) |->
                            IF Begin(i) \in written THEN new ELSE LeafOf(n, Begin(i))]]

PutLeaf ==
  /\ put # NULL /\ Left <= K
  /\ arrays' = [arrays EXCEPT ![put.current[1]][put.current[2]] =
                  Leaves(@, PutKey)]
  /\ put' = NULL
  /\ UNCHANGED <<BASE, inserted, son, counter_internal, direct_pointing>>

Next == (\E p \in Table : put_base(p) \/ PutBegin(p)) \/ PutFollow \/ PutGrow \/ PutLeaf

Spec == Init /\ [][Next]_vars

-----------------------------------------------------------------------------
(* Properties.                                                             *)

Covers(p, d) == Way(d, p.mask) = Way(p.dest, p.mask)

\* What the longest prefix that covers d says; 0 if there is none.
LongestMatch(d) ==
  LET covering == {p \in inserted : Covers(p, d)}
  IN  IF covering = {} THEN 0
      ELSE (CHOOSE p \in covering : \A q \in covering : q.mask <= p.mask).iface

\* The trie finds the longest prefix, whatever was inserted (put_base, get_base).
BaseIsLongestMatch == BASE => \A d \in Address : get_base(d) = LongestMatch(d)

\* So does the compressed trie, through its leaf runs, its packed arrays and the
\* pointers to arrays that have moved meanwhile, if a prefix is put after
\* those it lies in (put_poptrie, renew_pointing, get_poptrie).
PoptrieIsLongestMatch ==
  ~BASE /\ put = NULL => \A d \in Address : get_poptrie(d) = LongestMatch(d)
=============================================================================
