--------------------------- MODULE MCReferenceTracing ---------------------------
(* ReferenceTracing with small sets of threads and tracers.                *)
EXTENDS ReferenceTracing, TLC

Symmetry == Permutations(Threads) \cup Permutations(Simple) \cup Permutations(Files)

=============================================================================
