---------------------------- MODULE MCIdbStorage ----------------------------
(* Small instances of IdbStorage for TLC. *)
EXTENDS IdbStorage

=============================================================================
