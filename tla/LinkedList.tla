---------------------------- MODULE LinkedList ----------------------------
(***************************************************************************)
(* include/list.h: circular doubly linked lists with a head node.  The     *)
(* memory is a record h of two functions on nodes, h.next and h.prev, so   *)
(* that a stale pointer is followed as the code follows it.                *)
(***************************************************************************)
EXTENDS Naturals, FiniteSets

\* init_list_head(n).
init_list_head(h, n) == [next |-> [h.next EXCEPT ![n] = n],
                         prev |-> [h.prev EXCEPT ![n] = n]]

list_empty(h, n) == h.next[n] = n

\* list_insert(new, prev, next): four stores in this order.
list_insert(h, new, prev, next) ==
  [next |-> [[h.next EXCEPT ![prev] = new] EXCEPT ![new] = next],
   prev |-> [[h.prev EXCEPT ![next] = new] EXCEPT ![new] = prev]]

list_add_head(h, new, head) == list_insert(h, new, head, h.next[head])
list_add_tail(h, new, head) == list_insert(h, new, h.prev[head], head)

\* list_delete_entry(entry): the entry keeps its own pointers.
list_delete_entry(h, entry) ==
  [next |-> [h.next EXCEPT ![h.prev[entry]] = h.next[entry]],
   prev |-> [h.prev EXCEPT ![h.next[entry]] = h.prev[entry]]]

\* The nodes list_for_each_entry visits from a head: the walk ends at the head,
\* or goes round for ever in a list that is broken.
Walk(h, head) ==
  LET f[k \in Nat] == IF k = 0 THEN h.next[head] ELSE h.next[f[k - 1]]
  IN  f
Entries(h, head) ==
  LET f == Walk(h, head)
      last == Cardinality(DOMAIN h.next)
      ends == {k \in 0 .. last : f[k] = head}
  IN  {f[k] : k \in {k \in 0 .. last : \A e \in ends : k < e}}
=============================================================================
