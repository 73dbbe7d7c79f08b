---------------------------- MODULE ListPointers ----------------------------
(***************************************************************************)
(* The circular doubly linked lists of list.c, down to their pointers.     *)
(* The kernel's discipline is in the guards: a node is added only while it *)
(* is on no list, only the first of a list that is not empty is deleted,   *)
(* and only an empty list is initialised again.  (LinkedOnce,              *)
(* CurrentUnlinked and WaitersConsistent of ZeosKernel say that the kernel *)
(* keeps to it.)  lists records, next to the pointers, what the same calls *)
(* do to the sequences of ListOps, which the kernel's modules work with.   *)
(***************************************************************************)
EXTENDS Integers, ListOps

CONSTANTS ListHead,   \* freequeue, readyqueue, keyboardqueue, the .blocked heads
          ListNode,   \* the list field of the PCBs
          NULL

ASSUME ListAssumption ==
    /\ ListHead \cap ListNode = {}
    /\ NULL \notin ListHead \cup ListNode

VARIABLES next, prev,  \* the two fields of every list_head
          lists        \* the sequences that they stand for

listVars == <<next, prev, lists>>

Addr == ListHead \cup ListNode

\* __list_add(n, p, x): four stores, in the code's order.  In an empty list p
\* and x are the same head.  The fault: the store to x->prev is missing.
link_between_fault(n, p, x) ==
    /\ prev' = [prev EXCEPT ![n] = p]
    /\ next' = [next EXCEPT ![n] = x, ![p] = n]
link_between(n, p, x) ==
    /\ prev' = [prev EXCEPT ![x] = n, ![n] = p]
    /\ next' = [next EXCEPT ![n] = x, ![p] = n]

\* __list_del(e->prev, e->next), and e's own pointers are cleared.
unlink(e) ==
    /\ prev' = [prev EXCEPT ![next[e]] = prev[e], ![e] = NULL]
    /\ next' = [next EXCEPT ![prev[e]] = next[e], ![e] = NULL]

Unlinked(n) == next[n] = NULL

AddFirst(n, h) ==
    /\ Unlinked(n)
    /\ link_between(n, h, next[h])
    /\ lists' = list_add(lists, h, n)

AddLast(n, h) ==
    /\ Unlinked(n)
    /\ link_between(n, prev[h], h)
    /\ lists' = list_add_tail(lists, h, n)

\* list_del(list_first(&h)), under !list_empty(&h).
DeleteFirst(h) ==
    /\ next[h] # h
    /\ unlink(next[h])
    /\ lists' = list_del(lists, h)

\* INIT_LIST_HEAD of a semaphore that is initialised again.
INIT_LIST_HEAD(h) ==
    /\ next[h] = h
    /\ next' = [next EXCEPT ![h] = h]
    /\ prev' = [prev EXCEPT ![h] = h]
    /\ lists' = [lists EXCEPT ![h] = <<>>]

\* The heads after their INIT_LIST_HEAD at boot; the PCBs are zeroed.
ListInit ==
    /\ next = [a \in Addr |-> IF a \in ListHead THEN a ELSE NULL]
    /\ prev = next
    /\ lists = [h \in ListHead |-> <<>>]

ListNext ==
    \E h \in ListHead :
        \/ \E n \in ListNode : AddFirst(n, h) \/ AddLast(n, h)
        \/ DeleteFirst(h)
        \/ INIT_LIST_HEAD(h)

ListSpec == ListInit /\ [][ListNext]_listVars

----------------------------------------------------------------------------
\* The i-th cell of the ring that starts at head h, which is also its cell 0
\* and its last one.
Cell(h, i) == IF i \in 1 .. Len(lists[h]) THEN lists[h][i] ELSE h

\* A node is at one place of one list.
OnePlace ==
    \A h, g \in ListHead :
        \A i \in 1 .. Len(lists[h]), j \in 1 .. Len(lists[g]) :
            lists[h][i] = lists[g][j] => h = g /\ i = j

\* The pointers stand for the sequences: following next from a head gives its
\* nodes in order and comes back to the head, following prev gives them
\* backwards, and exactly the nodes on no list have null pointers.  So the
\* kernel's modules may take its lists as sequences.
Represents ==
    /\ next \in [Addr -> Addr \cup {NULL}]
    /\ prev \in [Addr -> Addr \cup {NULL}]
    /\ lists \in [ListHead -> Seq(ListNode)]
    /\ OnePlace
    /\ \A h \in ListHead : \A i \in 0 .. Len(lists[h]) :
          /\ next[Cell(h, i)] = Cell(h, i + 1)
          /\ prev[Cell(h, i + 1)] = Cell(h, i)
    /\ \A n \in ListNode :
          Unlinked(n) <=> \A h \in ListHead : \A i \in 1 .. Len(lists[h]) : lists[h][i] # n
=============================================================================
