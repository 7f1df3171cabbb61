---------------------------- MODULE MCMallocTrace ----------------------------
(* MallocTrace with two objects, three addresses, one of them in an arena  *)
(* of pymalloc, and three sizes.                                           *)
EXTENDS MallocTrace, TLC

MCSizes == {-1, 0, 2}

Symmetry == Permutations(Objects) \cup Permutations(Addresses \ Arena)

=============================================================================
