---------------------------- MODULE MCSnapshots ----------------------------
(* Small instances of Snapshots for TLC. *)
EXTENDS Snapshots, TLC

Interchangeable == Permutations(Worker) \union Permutations(Key)

=============================================================================
