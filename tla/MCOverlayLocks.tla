--------------------------- MODULE MCOverlayLocks ---------------------------
(* Small instances of OverlayLocks for TLC. *)
EXTENDS OverlayLocks

=============================================================================
