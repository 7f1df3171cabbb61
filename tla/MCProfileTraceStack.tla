------------------------- MODULE MCProfileTraceStack -------------------------
(* ProfileTraceStack with small sets of threads, objects and wrappers.     *)
EXTENDS ProfileTraceStack, TLC

Symmetry ==
  Permutations(Threads) \cup Permutations(Objects) \cup Permutations(Wrappers)

=============================================================================
