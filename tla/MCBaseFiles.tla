----------------------------- MODULE MCBaseFiles ------------------------------
(* Connections are interchangeable. *)
EXTENDS BaseFiles, TLC
Interchangeable == Permutations(Conn)
=============================================================================
