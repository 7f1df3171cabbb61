----------------------------- MODULE LinkedList -----------------------------
(***************************************************************************)
(* The singly linked lists of cPyMemTrace.c: static_profile_ll,            *)
(* static_trace_ll and the two lists of reference tracers.  A list is a    *)
(* static pointer to its newest node; every node has the next older one.   *)
(* Here it is the sequence of the payloads, OLDEST first, so that the node *)
(* the static pointer designates (the "head") is the LAST element: pushing *)
(* appends and popping drops the last element.                             *)
(*                                                                         *)
(* The lists own no reference to their payload (the NOTE at the node type).*)
(***************************************************************************)
LOCAL INSTANCE Integers
LOCAL INSTANCE Sequences

CONSTANT None       \* the NULL pointer

\* The payload of the head node, or NULL when the list is empty.
ll_get(list) == IF list = <<>> THEN None ELSE list[Len(list)]

\* A bug used by the checks: the new node is not linked to the old head.
ll_push_unlinked(list, w) == <<w>>

\* The new node becomes the head.
ll_push(list, w) == Append(list, w)

\* A bug used by the checks: the node next to the head is unlinked.
ll_pop_second(list) ==
    IF Len(list) < 2 THEN <<>>
    ELSE Append(SubSeq(list, 1, Len(list) - 2), list[Len(list)])

\* The head node is unlinked and freed.  There is no test for an empty list:
\* callers that can reach one model the NULL dereference themselves.
ll_pop(list) == SubSeq(list, 1, Len(list) - 1)

\* The number of nodes, which is the stack depth the API reports.
ll_length(list) == Len(list)

OnList(list, w) == \E i \in 1 .. Len(list) : list[i] = w

=============================================================================
