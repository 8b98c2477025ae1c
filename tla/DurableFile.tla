----------------------------- MODULE DurableFile -----------------------------
(***************************************************************************)
(* What storing a database in a file promises (README.md, "Storage", and   *)
(* the comment over "Writable base files" in src/src/overlay.c): the file  *)
(* always holds a state that was committed, and once a commit is stored,   *)
(* no earlier one.                                                         *)
(***************************************************************************)
CONSTANTS File, NoFile

VARIABLES status,   \* "closed", "open" on the file, or in "memory"
          content,  \* what a reader of the open database sees
          may       \* the contents the file may be found with

vars == <<status, content, may>>

(* The file holds something to begin with, and that for certain. *)
Init ==
  /\ status = "closed" /\ content = NoFile
  /\ may \subseteq File /\ \E s \in may : may = {s}

(* Opening finds one of the contents the file may have, and settles it. *)
Open ==
  /\ status = "closed"
  /\ \E s \in may : content' = s /\ may' = {s}
  /\ status' = "open"

(* A commit is visible at once; until it is stored, older ones may return. *)
Commit ==
  /\ status # "closed"
  /\ content' \in File
  /\ may' = IF status = "open" THEN may \union {content'} ELSE may
  /\ UNCHANGED status

(* The commit is on disk: nothing older may return. *)
Store ==
  /\ content \in may
  /\ may' = {content}
  /\ UNCHANGED <<status, content>>

(* Detaching leaves the file as it is and keeps the content. *)
Detach ==
  /\ status = "open"
  /\ status' = "memory"
  /\ UNCHANGED <<content, may>>

(* Attaching opens the file, then replaces what it holds, in one step. *)
AttachBegin ==
  /\ status = "memory"
  /\ \E s \in may : may' = {s, content}
  /\ UNCHANGED <<status, content>>
AttachEnd ==
  /\ status = "memory" /\ may = {content}
  /\ status' = "open"
  /\ UNCHANGED <<content, may>>

(* Closing, or a crash at any time. *)
Close ==
  /\ status' = "closed"
  /\ content' = NoFile
  /\ UNCHANGED may

Next == Open \/ Commit \/ Store \/ Detach \/ AttachBegin \/ AttachEnd \/ Close
Spec == Init /\ [][Next]_vars
=============================================================================
