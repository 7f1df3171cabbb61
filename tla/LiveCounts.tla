----------------------------- MODULE LiveCounts -----------------------------
(***************************************************************************)
(* What the design note promises of the counts of live objects: there is a *)
(* number for every type an event was seen of; each creation adds one to   *)
(* it, each destruction takes one away.  An event is lost only when there  *)
(* is no memory for a type that has no number yet.                         *)
(*                                                                         *)
(* HashTable implements this specification.                                *)
(***************************************************************************)
EXTENDS Integers

CONSTANTS Types      \* the names of types

VARIABLE counts      \* the number of each type that has one

Init == counts = [type \in {} |-> 0]

Count(type, delta) ==
  counts' = [other \in DOMAIN counts \cup {type} |->
               (IF other \in DOMAIN counts THEN counts[other] ELSE 0)
               + (IF other = type THEN delta ELSE 0)]

Next == \E type \in Types, delta \in {1, -1} : Count(type, delta)

Spec == Init /\ [][Next]_counts

=============================================================================
