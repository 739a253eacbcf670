-------------------------------- MODULE KList --------------------------------
(***************************************************************************)
(* The kernel's intrusive doubly linked list (src/include/os/list.h) at    *)
(* the level of its pointers.  A list state L is a record                  *)
(*   [next |-> f, prev |-> g, fault |-> b]                                 *)
(* where f and g give the next/prev field of every list node (queue heads  *)
(* and the list field of every PCB) and b records that a store went        *)
(* through a NULL pointer.  Node 0 stands for NULL.  Nothing resets a      *)
(* node's pointers when it is unlinked, exactly as in the C code, so a     *)
(* second unlink of the same node writes through stale pointers.           *)
(***************************************************************************)
EXTENDS Integers, Sequences

Nil == 0

\* list_insert(new, prev, next): four stores, in the order of the code.
ListInsert(L, new, prv, nxt) ==
    LET p1 == [L.prev EXCEPT ![nxt] = new]
        n1 == [L.next EXCEPT ![prv] = new]
    IN  [next  |-> [n1 EXCEPT ![new] = nxt],
         prev  |-> [p1 EXCEPT ![new] = prv],
         fault |-> L.fault \/ nxt = Nil \/ prv = Nil \/ new = Nil]

\* list_add_tail(new, head) == list_insert(new, head->prev, head)
ListAddTail(L, new, head) == ListInsert(L, new, L.prev[head], head)

\* list_delete_entry(entry): entry->next->prev = entry->prev, then
\* entry->prev->next = entry->next (reading entry->prev after the first store).
ListDelete(L, e) ==
    LET p1 == [L.prev EXCEPT ![L.next[e]] = L.prev[e]]
    IN  [next  |-> [L.next EXCEPT ![p1[e]] = L.next[e]],
         prev  |-> p1,
         fault |-> L.fault \/ L.next[e] = Nil \/ p1[e] = Nil]

\* INIT_LIST_HEAD(head)
InitListHead(L, h) ==
    [L EXCEPT !.next[h] = h, !.prev[h] = h]

\* is_queue_empty(queue)
IsQueueEmpty(L, h) == L.next[h] = h

\* The nodes met following next from n until h, at most k of them
\* (list_for_each_entry stops when it comes back to the head).
RECURSIVE Walk(_, _, _, _)
Walk(L, h, n, k) ==
    IF n = h \/ k = 0 THEN <<>> ELSE <<n>> \o Walk(L, h, L.next[n], k - 1)

\* The entries of the list headed by h, following next, at most k of them.
Entries(L, h, k) == Walk(L, h, L.next[h], k)

\* The list headed by h is a proper ring: following next from h comes back
\* to h within k steps, without NULL, and every prev undoes its next.
RECURSIVE RingFrom(_, _, _, _)
RingFrom(L, h, n, k) ==
    /\ k > 0
    /\ n # Nil
    /\ L.prev[L.next[n]] = n
    /\ (L.next[n] = h \/ RingFrom(L, h, L.next[n], k - 1))

IsRing(L, h, k) == RingFrom(L, h, h, k)
=============================================================================
