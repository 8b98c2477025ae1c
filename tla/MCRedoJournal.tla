--------------------------- MODULE MCRedoJournal ---------------------------
(* RedoJournal for TLC: two chunks, so that a commit can grow, shrink and  *)
(* be half written; the salts are interchangeable.                         *)
EXTENDS RedoJournal, TLC
=============================================================================
