---------------------------- MODULE MCBorrowers ----------------------------
(* Borrowers for TLC: two snapshots, so that one can be taken of the       *)
(* other, and two chunks.                                                  *)
EXTENDS Borrowers, TLC
Symmetry == Permutations(Fork)
=============================================================================
