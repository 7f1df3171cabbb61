----------------------------- MODULE MCHashTable -----------------------------
(* HashTable with few types and a small first capacity.                    *)
EXTENDS HashTable, TLC

Symmetry == Permutations(Types)

=============================================================================
