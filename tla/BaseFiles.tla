------------------------------ MODULE BaseFiles ------------------------------
(***************************************************************************)
(* The files that databases are opened on or moved onto: of snapshots, or   *)
(* of openOverlay (openOn and SnapshotStorage.write in                     *)
(* src/src/snapshots.ts).  Each is registered under a label of its own, with *)
(* a callback that gives its read locks back, or closes it, once SQLite has *)
(* closed the last handle on it (class Files of src/src/opfs.ts).          *)
(*                                                                         *)
(* The calls here are synchronous: nothing comes between their steps.       *)
(***************************************************************************)
EXTENDS Integers

CONSTANTS Conn,      \* Database objects
          MaxFiles   \* bound: files registered, of FileStorage included

ASSUME MaxFilesAssumption == MaxFiles \in Nat

Place == 0 .. MaxFiles - 1   \* in Files.files; also the numbers of labels
NoEntry == -1                \* no entry; what Files.open returns for want of one

VARIABLES
  nextFile,  \* counts labels
  length,    \* of Files.files
  files,     \* class Files: [ids, file, count, released]
  conn,      \* "closed", "open", "kept": closed, but SQLite keeps it
  on,        \* the base a connection reads: its label (zPath) and handle
  call       \* the call under way

filesVars == <<nextFile, length, files, conn, on, call>>

OnNothing == [label |-> NoEntry, id |-> NoEntry]
NoCall == [pc |-> "idle"]

FilesInit ==
  /\ nextFile = 0 /\ length = 0
  /\ files = [ids   |-> [n \in Place |-> NoEntry],  \* by label
              file  |-> [i \in Place |-> NoEntry],  \* the label of each
              count |-> [i \in Place |-> NoEntry],  \* handles that SQLite has
              released |-> {}]                      \* labels whose callback was called
  /\ conn = [c \in Conn |-> "closed"] /\ on = [c \in Conn |-> OnNothing]
  /\ call = NoCall

(***************************************************************************)
(* class Files, of contents `r'                                            *)
(***************************************************************************)
Add(r, n, i) ==               \* with a callback
  [ids   |-> [r.ids EXCEPT ![n] = i], file |-> [r.file EXCEPT ![i] = n],
   count |-> [r.count EXCEPT ![i] = 0], released |-> r.released]

OpenHandles(r, n) == IF r.ids[n] = NoEntry THEN 0 ELSE r.count[r.ids[n]]

Remove(r, n) ==
  IF r.ids[n] = NoEntry THEN r
  ELSE [ids   |-> [r.ids EXCEPT ![n] = NoEntry],
        file  |-> [r.file EXCEPT ![r.ids[n]] = NoEntry],
        count |-> [r.count EXCEPT ![r.ids[n]] = NoEntry],
        released |-> r.released \union {n}]

Counted(r, i, n) ==
  [ids |-> r.ids, file |-> r.file, count |-> [r.count EXCEPT ![i] = n],
   released |-> r.released]

(* Mutant of XOpen: the handle of a fork is not counted. *)
XOpenOnce(r, n) == Counted(r, r.ids[n], 1)

(* SQLite opens the file of a label, and closes a handle. *)
XOpen(r, n) == Counted(r, r.ids[n], r.count[r.ids[n]] + 1)
XClose(r, i) ==
  IF i = NoEntry THEN r
  ELSE IF r.count[i] = 1 THEN Remove(Counted(r, i, 0), r.file[i])
  ELSE Counted(r, i, r.count[i] - 1)

(* FileStorage registers files too: under names of another form, and        *)
(* without a callback, so that their handles are not counted.              *)
StoreFile ==
  /\ call = NoCall /\ length < MaxFiles /\ length' = length + 1
  /\ UNCHANGED <<nextFile, files, conn, on, call>>

(***************************************************************************)
(* Connections                                                             *)
(***************************************************************************)
New(c) ==                     \* new Database()
  /\ call = NoCall /\ conn[c] = "closed" /\ conn' = [conn EXCEPT ![c] = "open"]
  /\ UNCHANGED <<nextFile, length, files, on, call>>

(* A fork has a handle of its own, on the file its source reads. *)
Fork(c, d) ==
  /\ call = NoCall /\ conn[c] = "open" /\ conn[d] = "closed"
  /\ conn' = [conn EXCEPT ![d] = "open"]
  /\ LET n == on[c].label
     IN  IF n = NoEntry THEN UNCHANGED <<files, on>>
         ELSE /\ files.ids[n] # NoEntry
              /\ files' = XOpen(files, n)
              /\ on' = [on EXCEPT ![d] = [label |-> n, id |-> files.ids[n]]]
  /\ UNCHANGED <<nextFile, length, call>>

(* SQLite closes the base, unless a statement is left. *)
CloseConn(c) ==
  /\ call = NoCall /\ conn[c] = "open"
  /\ \/ /\ conn' = [conn EXCEPT ![c] = "closed"]
        /\ files' = XClose(files, on[c].id) /\ on' = [on EXCEPT ![c] = OnNothing]
     \/ conn' = [conn EXCEPT ![c] = "kept"] /\ UNCHANGED <<files, on>>
  /\ UNCHANGED <<nextFile, length, call>>

Register ==
  /\ length < MaxFiles
  /\ files' = Add(files, nextFile, length)
  /\ nextFile' = nextFile + 1 /\ length' = length + 1
  /\ UNCHANGED <<conn, on>>

(***************************************************************************)
(* openOn                                                                  *)
(***************************************************************************)
OpenOn ==
  /\ call = NoCall /\ call' = [pc |-> "open", label |-> nextFile] /\ Register

Opened(c) ==
  /\ call.pc = "open" /\ conn[c] = "closed"
  /\ conn' = [conn EXCEPT ![c] = "open"]
  /\ files' = XOpen(files, call.label)
  /\ on' = [on EXCEPT ![c] = [label |-> call.label, id |-> files.ids[call.label]]]
  /\ call' = [pc |-> "check", label |-> call.label, conn |-> c]
  /\ UNCHANGED <<nextFile, length>>

(* Before SQLite opened the file, or after it did and closed it again, then  *)
(* removed or not; in the end release() is called in any case, once.        *)
OpenFails ==
  /\ call.pc = "open" /\ call' = NoCall
  /\ \E r \in {files, XClose(XOpen(files, call.label), files.ids[call.label])} :
       files' = IF OpenHandles(r, call.label) = 0 THEN Remove(r, call.label) ELSE r
  /\ UNCHANGED <<nextFile, length, conn, on>>

Checked ==
  /\ call.pc = "check" /\ call' = NoCall
  /\ UNCHANGED <<nextFile, length, files, conn, on>>

(* It is corrupt: closed, then release() is called. *)
CheckFails ==
  /\ call.pc = "check" /\ call' = NoCall
  /\ conn' = [conn EXCEPT ![call.conn] = "closed"]
  /\ LET r == XClose(files, on[call.conn].id)
     IN  files' = [ids |-> r.ids, file |-> r.file, count |-> r.count,
                   released |-> r.released \union {call.label}]
  /\ on' = [on EXCEPT ![call.conn] = OnNothing]
  /\ UNCHANGED <<nextFile, length>>

(***************************************************************************)
(* SnapshotStorage.write: a snapshot is stored, and the database it is a    *)
(* fork of moves onto it, with the saves that wait                         *)
(***************************************************************************)
Written(s) ==
  /\ call = NoCall /\ conn[s] = "open"
  /\ call' = [pc |-> "move", label |-> nextFile, snapshot |-> s] /\ Register

(* What sqlite3_overlay_rebase asks for before it opens the file. *)
MayRebase(c) ==
  /\ call.pc = "move" /\ conn[c] = "open" /\ c # call.snapshot
  /\ on[c].label = on[call.snapshot].label /\ files.ids[call.label] # NoEntry

(* The new base is opened, then the old one closed. *)
Rebase(c) ==
  /\ MayRebase(c)
  /\ files' = XClose(XOpen(files, call.label), on[c].id)
  /\ on' = [on EXCEPT ![c] = [label |-> call.label, id |-> files.ids[call.label]]]
  /\ UNCHANGED <<nextFile, length, conn, call>>

(* The file is opened and closed again: if nobody else has moved onto it    *)
(* before, it is gone then, also for those that are still to move.         *)
RebaseFails(c) ==
  /\ MayRebase(c)
  /\ files' = XClose(XOpen(files, call.label), files.ids[call.label])
  /\ UNCHANGED <<nextFile, length, conn, on, call>>

(* Mutant of MoveEnds: the file stays registered, also if nobody opened it. *)
MoveEndsAnyway ==
  /\ call.pc = "move" /\ call' = NoCall
  /\ UNCHANGED <<nextFile, length, files, conn, on>>

MoveEnds ==
  /\ call.pc = "move" /\ call' = NoCall
  /\ files' = IF OpenHandles(files, call.label) = 0 THEN Remove(files, call.label)
              ELSE files
  /\ UNCHANGED <<nextFile, length, conn, on>>

FilesNext ==
  \/ StoreFile \/ OpenOn \/ OpenFails \/ Checked \/ CheckFails \/ MoveEnds
  \/ \E c \in Conn : New(c) \/ CloseConn(c) \/ Opened(c) \/ Written(c) \/ Rebase(c)
                     \/ RebaseFails(c)
  \/ \E c, d \in Conn : Fork(c, d)

FilesSpec == FilesInit /\ [][FilesNext]_filesVars

(***************************************************************************)
(* Properties                                                              *)
(***************************************************************************)
(* The file a connection reads stays registered, under the label its forks  *)
(* open, and the locks that keep retain() from deleting the snapshot are    *)
(* held: also when it is closed for JavaScript only, and whatever became of *)
(* the connection the file was registered for.                             *)
ReadersKeepTheFile == \A c \in Conn : on[c] # OnNothing =>
  /\ files.ids[on[c].label] = on[c].id /\ files.file[on[c].id] = on[c].label
  /\ on[c].label \notin files.released

(* Between two calls, the locks of a snapshot that no connection reads are  *)
(* given back, whichever step failed.                                      *)
UnreadIsReleased == call = NoCall => \A n \in Place :
  n < nextFile /\ n \notin files.released => \E c \in Conn : on[c].label = n

=============================================================================
