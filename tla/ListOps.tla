------------------------------- MODULE ListOps -------------------------------
(***************************************************************************)
(* What the operations of list.c do to the kernel's lists when a list is   *)
(* taken as the sequence of the nodes linked on it: q maps each list head  *)
(* to its sequence.  The kernel applies list_del to the first element of a *)
(* list, but for the one of update_process_state_rr.  ListPointers shows   *)
(* that the pointers of list.c implement these operators.                  *)
(*                                                                         *)
(* Definitions named ..._fault are what-if variants: the operator after    *)
(* them with a plausible bug in it, which the properties are shown to      *)
(* detect.                                                                 *)
(***************************************************************************)
EXTENDS Sequences

\* The new node at the wrong end.
list_add_tail_fault(q, dst, t) == [q EXCEPT ![dst] = <<t>> \o @]
list_add_tail(q, dst, t)       == [q EXCEPT ![dst] = Append(@, t)]

list_add_fault(q, dst, t) == [q EXCEPT ![dst] = Append(@, t)]
list_add(q, dst, t)       == [q EXCEPT ![dst] = <<t>> \o @]

list_first(q, src)       == Head(q[src])
list_del(q, src)         == [q EXCEPT ![src] = Tail(@)]
list_empty(q, src)       == q[src] = <<>>

\* list_del(&t->list), wherever t is linked.
list_unlink(q, t) == [x \in DOMAIN q |-> SelectSeq(q[x], LAMBDA u : u # t)]

\* A loop of list_del and list_add_tail that empties src (sys_sem_destroy).
\* The fault: no list_del.
list_move_all_fault(q, src, dst) == [q EXCEPT ![dst] = @ \o q[src]]
list_move_all(q, src, dst) == [q EXCEPT ![dst] = @ \o q[src], ![src] = <<>>]
=============================================================================
