---------------------------- MODULE MCReferenceLog ----------------------------
(* ReferenceLog with two tracers, two addresses, a path that the user may  *)
(* give to both tracers, and three types: one that is built in, one that   *)
(* is not, and one that is never looked at.                                *)
EXTENDS ReferenceLog, TLC

CONSTANTS builtin, mine, frame, none

MCTypes == {builtin, mine, frame}

MCFilters ==
  {[include_builtins |-> FALSE, exclude_tp_names |-> none, include_tp_names |-> none],
   [include_builtins |-> TRUE, exclude_tp_names |-> {mine}, include_tp_names |-> {builtin, mine}]}

Symmetry == Permutations(Tracers) \cup Permutations(Addresses)

=============================================================================
