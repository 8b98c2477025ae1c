----------------------------- MODULE FileStorage -----------------------------
(***************************************************************************)
(* Databases stored in one file of OPFS, and its journal                   *)
(* (src/src/opfs.ts): FileStorage opens both files, registers them with    *)
(* the "js" VFS of its Worker (class Files) and keeps them until the       *)
(* database closes or detaches.  Between two awaits of a call the others,  *)
(* of this Worker and of others, go on.                                    *)
(*                                                                         *)
(* States of the database are numbered: 0 is the empty one.  A file holds   *)
(* parts of the states in `mixes'; a loss of power brings parts of those in *)
(* `unsynced' back.  The journal turns a file that mixes states in `from'   *)
(* into its `top'.  How it does is the matter of module RedoJournal.       *)
(***************************************************************************)
EXTENDS Integers, FiniteSets

CONSTANTS Worker, Db,
          None,        \* no database
          MaxCommits,  \* bound: commits in a behaviour
          MaxFaults    \* bound: write-backs that fail, and times Workers end

ASSUME NoneAssumption == None \notin Db \union Worker
ASSUME BoundsAssumption == MaxCommits \in Nat /\ MaxFaults \in Nat

State == 0 .. MaxCommits
Mixed == MaxCommits + 1                  \* what a mix of states opens as
Part  == {"main", "journal"}
NoFile == [there |-> FALSE]
Main(s, u) == [there |-> TRUE, mixes |-> s, unsynced |-> u]
Journal(from, top) == [there |-> TRUE, from |-> from, top |-> top]
Cleared == Journal({}, 0)

VARIABLES
  disk,     \* the two files
  conn,     \* "none", "memory", "stored", "zombie": closed but with a statement left
  at,       \* the Worker of a database
  call,     \* "idle", "main", "journal": the file its store() opens next
  owned,    \* store() created the database: Database.sync
  held,     \* SyncFiles it has open
  ids,      \* Files.ids of a Worker
  files,    \* Files.files: its own that are registered
  active,   \* Workers in which the name is active
  deleting, \* "idle", "main", "journal": what delete() of a Worker removes next
  last,     \* the state a database holds
  unstored, \*   and its last commits could not be stored
  leaked,   \* it has a statement that close() does not find
  error,    \* FilePersistence.error: flush() rejects
  commits, faults,
  may,      \* history: the state stored last, and those that could not be since
  lost,     \* history: a database was left with commits that are not stored
  torn      \* history: delete() took the file but not its journal

registry == <<held, ids, files, active>>
database == <<conn, at, last, unstored, leaked, error>>
calls == <<call, owned, deleting>>
history == <<may, lost, torn>>
vars == <<disk, registry, database, calls, commits, faults, history>>

Init ==
  /\ disk = [f \in Part |-> NoFile]
  /\ conn = [d \in Db |-> "none"] /\ at = [d \in Db |-> None]
  /\ call = [d \in Db |-> "idle"] /\ owned = [d \in Db |-> FALSE]
  /\ held = [d \in Db |-> {}] /\ files = [d \in Db |-> {}]
  /\ ids = [w \in Worker |-> [f \in Part |-> None]] /\ active = {}
  /\ deleting = [w \in Worker |-> "idle"]
  /\ last = [d \in Db |-> 0] /\ unstored = [d \in Db |-> FALSE]
  /\ leaked = [d \in Db |-> FALSE] /\ error = [d \in Db |-> FALSE]
  /\ commits = 0 /\ faults = 0
  /\ may = {0} /\ lost = [d \in Db |-> FALSE] /\ torn = FALSE

(* Whether another of the faults that are bounded happens. *)
Faults(one) == faults' = (IF one THEN faults + 1 ELSE faults) /\ faults' <= MaxFaults

(***************************************************************************)
(* The file system: a file is open once, and is not removed meanwhile      *)
(***************************************************************************)
Free(f) == \A d \in Db : f \notin held[d]

(* getFileHandle(name, {create: true}), for the files in `parts'. *)
Created(parts) == [f \in Part |->
  IF f \in parts /\ disk[f] = NoFile THEN (IF f = "main" THEN Main({0}, {}) ELSE Cleared)
  ELSE disk[f]]

HasRecord(k) == k["journal"] # NoFile /\ k["journal"].from # {}

(* What a connection reads that opens the files as they are in `k'. *)
Recovered(k) ==
  LET j == k["journal"]
      s == k["main"].mixes
      r == IF ~HasRecord(k) THEN s
           ELSE IF s \subseteq j.from \union {j.top} THEN {j.top} ELSE s \union {j.top}
  IN  IF Cardinality(r) = 1 THEN CHOOSE n \in r : TRUE ELSE Mixed

Pair(m, j) == [f \in Part |-> IF f = "main" THEN m ELSE j]

(* The journal is replayed; or the file is synced.  Then that is cleared.  *)
Replayed(k) == Pair(Main({Recovered(k)}, {}), Cleared)

(* Every state that the file `m' may be found to mix. *)
Found(m) == m.mixes \union m.unsynced

(* The journal with a record of state n, which makes n of the states in     *)
(* `over' by itself, and of the others after the records before it.        *)
Recorded(k, over, n) ==
  LET j == k["journal"]
      before == IF HasRecord(k) THEN {j.top} ELSE {}
  IN  Journal((j.from \union over \union before) \ {n}, n)

(* Then n is written to the file: all of it, or a part. *)
Written(k, over, n) ==
  Pair(Main({n}, Found(k["main"]) \ {n}), Recorded(k, over, n))
HalfWritten(k, over, n) ==
  Pair(Main(k["main"].mixes \union {n}, k["main"].unsynced \ {n}), Recorded(k, over, n))

(* Mutant of Checkpoints: the journal is cleared before the file is synced. *)
CheckpointsUnsynced(k) == {k, Pair(k["main"], Cleared)}

(* ovCheckpoint: may fail, which is not reported. *)
Checkpoints(k) == {k, Replayed(k)}

(* Mutant of NotStored: the file is written before the journal. *)
NotStoredInPlace(k, over, n) ==
  {k, Pair(HalfWritten(k, over, n)["main"], k["journal"])}

(* ovWriteBack fails: before there is a record, after it is written, synced *)
(* or not, or when a part of the file is.  A record that was not synced may *)
(* get lost until the next one takes its place: then it is as if it had     *)
(* never been there, the first of these outcomes.                          *)
NotStored(k, over, n) ==
  {k, Pair(k["main"], Recorded(k, over, n)), HalfWritten(k, over, n)}

(* What ovWriteBack of state n makes of the files `k'. *)
WriteBack(k, over, n, fails) ==
  IF fails THEN NotStored(k, over, n) ELSE Checkpoints(Written(k, over, n))

(* The states the file may open as, then. *)
MayOpen(n, fails) == IF fails THEN may \union {n} ELSE {n}

(***************************************************************************)
(* class Files, and release() of store()                                   *)
(***************************************************************************)
(* Files.remove of the names in `parts', whoever registered them. *)
Removed(w, parts) ==
  /\ files' = [d \in Db |-> {f \in files[d] : ~(f \in parts /\ ids[w][f] = d)}]
  /\ ids' = [ids EXCEPT ![w] = [f \in Part |-> IF f \in parts THEN None ELSE @[f]]]

(* What was opened is removed and closed; then the name is free. *)
Release(d) ==
  /\ Removed(at[d], held[d]) /\ held' = [held EXCEPT ![d] = {}]
  /\ active' = active \ {at[d]}

(* Files.add of both. *)
Register(d) ==
  /\ ids' = [ids EXCEPT ![at[d]] = [f \in Part |-> d]]
  /\ files' = [files EXCEPT ![d] = Part]

(***************************************************************************)
(* Databases                                                               *)
(***************************************************************************)
Idle(d) == call[d] = "idle"

Create(w, d) ==               \* new Database(), with some content
  /\ conn[d] = "none" /\ Idle(d) /\ commits < MaxCommits
  /\ conn' = [conn EXCEPT ![d] = "memory"] /\ at' = [at EXCEPT ![d] = w]
  /\ commits' = commits + 1 /\ last' = [last EXCEPT ![d] = commits']
  /\ error' = [error EXCEPT ![d] = FALSE] /\ lost' = [lost EXCEPT ![d] = FALSE]
  /\ UNCHANGED <<disk, registry, calls, unstored, leaked, faults, may, torn>>

(* A transaction commits: it is stored when it returns, or, if writing it   *)
(* fails, with a later commit or flush().  Until then the file may hold it, *)
(* and may not.                                                            *)
Commit(d) ==
  /\ conn[d] \in {"memory", "stored"} /\ last[d] # Mixed /\ commits < MaxCommits
  /\ commits' = commits + 1 /\ last' = [last EXCEPT ![d] = commits']
  /\ \/ conn[d] = "memory" /\ UNCHANGED <<disk, unstored, may, faults>>
     \/ \E fails \in BOOLEAN :
          /\ conn[d] = "stored" /\ Faults(fails)
          /\ disk' \in WriteBack(disk, disk["main"].mixes, commits', fails)
          /\ unstored' = [unstored EXCEPT ![d] = fails] /\ may' = MayOpen(commits', fails)
  /\ UNCHANGED <<registry, calls, conn, at, leaked, error, lost, torn>>

(* The files `k' after a try at storing what is left. *)
Tried(k, d, fails) ==
  IF unstored[d] THEN WriteBack(k, k["main"].mixes, last[d], fails) ELSE {k}

(* FilePersistence.flush; or a detach() that throws, having tried that.    *)
Flush(d) == \E fails \in BOOLEAN :
  /\ conn[d] = "stored" /\ unstored[d]
  /\ disk' \in Tried(disk, d, fails) /\ may' = MayOpen(last[d], fails)
  /\ unstored' = [unstored EXCEPT ![d] = fails] /\ Faults(fails)
  /\ UNCHANGED <<registry, calls, conn, at, last, leaked, error, commits, lost, torn>>

Leak(d) ==                    \* prepare(sql, params) of params that do not bind
  /\ conn[d] \in {"memory", "stored"} /\ ~leaked[d]
  /\ leaked' = [leaked EXCEPT ![d] = TRUE]
  /\ UNCHANGED <<disk, registry, calls, conn, at, last, unstored, error, commits,
                 faults, history>>

(***************************************************************************)
(* store(): Database.sync and Database.attach                              *)
(***************************************************************************)
(* Mutant of Store: the name is not looked up. *)
StoreAnyhow(w, d) ==
  /\ Idle(d) /\ at' = [at EXCEPT ![d] = w] /\ active' = active \union {w}
  /\ call' = [call EXCEPT ![d] = "main"]
  /\ UNCHANGED <<disk, held, ids, files, conn, last, unstored, leaked, error, deleting,
                 commits, faults, history>>

Store(w, d) ==
  /\ Idle(d) /\ w \notin active
  /\ at' = [at EXCEPT ![d] = w] /\ active' = active \union {w}
  /\ call' = [call EXCEPT ![d] = "main"]
  /\ UNCHANGED <<disk, held, ids, files, conn, last, unstored, leaked, error, deleting,
                 commits, faults, history>>

Sync(w, d) == conn[d] = "none" /\ owned' = [owned EXCEPT ![d] = TRUE] /\ Store(w, d)

(* Fails for a database that is stored, or is being attached. *)
Attach(w, d) ==
  /\ conn[d] = "memory" /\ at[d] = w
  /\ owned' = [owned EXCEPT ![d] = FALSE] /\ Store(w, d)

(* Some delete() has taken the file, and is still to take the journal. *)
Overtakes == \E w \in Worker : deleting[w] = "journal"

OpenMain(d) ==
  /\ call[d] = "main" /\ Free("main")
  /\ disk' = Created({"main"}) /\ torn' = (torn \/ Overtakes)
  /\ held' = [held EXCEPT ![d] = {"main"}] /\ call' = [call EXCEPT ![d] = "journal"]
  /\ UNCHANGED <<ids, files, active, database, owned, deleting, commits, faults,
                 may, lost>>

(* Another Worker has it open, or the file system fails: after it created   *)
(* the file, or before.                                                    *)
OpenFails(d) ==
  /\ ~Idle(d) /\ call' = [call EXCEPT ![d] = "idle"]
  /\ disk' \in {disk, Created({call[d]})}
  /\ torn' = (torn \/ (disk' # disk /\ Overtakes))
  /\ Release(d)
  /\ owned' = [owned EXCEPT ![d] = FALSE]
  /\ UNCHANGED <<database, deleting, commits, faults, may, lost>>

(* The second file is open: the rest of store() runs in one go. *)
Uses(d) ==
  /\ call[d] = "journal" /\ Free("journal") /\ call' = [call EXCEPT ![d] = "idle"]
  /\ owned' = [owned EXCEPT ![d] = FALSE]
  /\ UNCHANGED <<at, unstored, deleting, commits>>

Stores(d) ==
  /\ Uses(d) /\ Register(d) /\ held' = [held EXCEPT ![d] = Part]
  /\ conn' = [conn EXCEPT ![d] = "stored"]
  /\ error' = [error EXCEPT ![d] = FALSE] /\ lost' = [lost EXCEPT ![d] = FALSE]
  /\ UNCHANGED <<active, faults>>

(* openFile replays the journal ... *)
Synced(d) ==
  /\ owned[d] /\ Stores(d)
  /\ disk' = Replayed(Created({"journal"}))
  /\ last' = [last EXCEPT ![d] = Recovered(disk')]
  /\ may' = {last'[d]} /\ torn' = Overtakes /\ leaked' = [leaked EXCEPT ![d] = FALSE]

(* ... and attachFile too, then one write-back replaces every chunk. *)
Replaced(d, fails) ==
  WriteBack(Replayed(Created({"journal"})), State \union {Mixed}, last[d], fails)

Attached(d) ==
  /\ ~owned[d] /\ conn[d] = "memory" /\ Stores(d)
  /\ disk' \in Replaced(d, FALSE) /\ may' = MayOpen(last[d], FALSE) /\ torn' = Overtakes
  /\ UNCHANGED <<last, leaked>>

(* openFile or attachFile fails, this one also when it replaces the chunks. *)
(* A database of its own is closed, that of an attach() stays in memory, or *)
(* was closed during the awaits.                                           *)
UseFails(d) ==
  /\ Uses(d) /\ Release(d)
  /\ \/ /\ disk' \in {Created({"journal"}), Replayed(Created({"journal"}))}
        /\ UNCHANGED <<may, faults>>
     \/ /\ Faults(TRUE) /\ ~owned[d] /\ conn[d] = "memory"
        /\ disk' \in Replaced(d, TRUE) /\ may' = MayOpen(last[d], TRUE)
  /\ UNCHANGED <<conn, last, leaked, error, lost, torn>>

(***************************************************************************)
(* detach(), close()                                                       *)
(***************************************************************************)
(* Mutant of Leave: what could not be stored is not reported. *)
LeaveSilently(d, left, fails) ==
  /\ lost' = [lost EXCEPT ![d] = left] /\ error' = [error EXCEPT ![d] = FALSE]
  /\ may' = IF unstored[d] THEN MayOpen(last[d], left) ELSE may
  /\ unstored' = [unstored EXCEPT ![d] = FALSE]
  /\ Release(d)

(* The database leaves its file after a last try at storing what is left:   *)
(* `left' if it still is, `fails' if that try failed.                      *)
Leave(d, left, fails) ==
  /\ lost' = [lost EXCEPT ![d] = left] /\ error' = [error EXCEPT ![d] = fails]
  /\ may' = IF unstored[d] THEN MayOpen(last[d], left) ELSE may
  /\ unstored' = [unstored EXCEPT ![d] = FALSE]
  /\ Release(d)

(* Whether storing what is left fails. *)
Fails(d) == IF unstored[d] THEN BOOLEAN ELSE {FALSE}

(* The journal is checkpointed, unless there are commits left to store. *)
Settled(k, left) == IF left THEN {k} ELSE Checkpoints(k)

(* May throw instead, and the database stays as it is (Flush).  `left': it   *)
(* could not store the last commits, and returns that error.               *)
DetachFile(d, left) ==
  /\ conn[d] = "stored" /\ conn' = [conn EXCEPT ![d] = "memory"]
  /\ \E k \in Tried(disk, d, left) : disk' \in Settled(k, left)

Detach(d) == \E left \in Fails(d) :
  /\ DetachFile(d, left) /\ Leave(d, left, left) /\ Faults(left)
  /\ UNCHANGED <<at, last, leaked, calls, commits, torn>>

(* closing() tries to store what is left; sqlite3_close_v2 closes the files *)
(* and tries again (ovClose) - unless a statement is left.  The SyncFiles   *)
(* are closed in any case.                                                 *)
CloseFile(d, fails, left) ==
  \E k \in Tried(disk, d, fails) :
    IF leaked[d] THEN left = fails /\ disk' = k
    ELSE IF fails THEN \E l \in Tried(k, d, left) : disk' \in Settled(l, left)
    ELSE left = FALSE /\ disk' \in Checkpoints(k)

Close(d) == \E fails \in Fails(d), left \in Fails(d) :
  /\ conn[d] = "stored"
  /\ conn' = [conn EXCEPT ![d] = IF leaked[d] THEN "zombie" ELSE "none"]
  /\ CloseFile(d, fails, left)
  /\ Leave(d, left, fails) /\ last' = [last EXCEPT ![d] = 0] /\ Faults(fails)
  /\ UNCHANGED <<at, leaked, calls, commits, torn>>

Discard(d) ==                 \* close() of a database in memory
  /\ conn[d] = "memory" /\ conn' = [conn EXCEPT ![d] = "none"]
  /\ last' = [last EXCEPT ![d] = 0] /\ leaked' = [leaked EXCEPT ![d] = FALSE]
  /\ UNCHANGED <<disk, registry, at, unstored, error, calls, commits,
                 faults, history>>

(***************************************************************************)
(* delete(), and Workers that end                                          *)
(***************************************************************************)
Delete(w) ==
  /\ deleting[w] = "idle" /\ w \notin active
  /\ deleting' = [deleting EXCEPT ![w] = "main"]
  /\ UNCHANGED <<disk, registry, database, call, owned, commits, faults, history>>

DeleteMain(w) ==
  /\ deleting[w] = "main" /\ Free("main")
  /\ disk' = [disk EXCEPT !["main"] = NoFile] /\ may' = {0}
  /\ deleting' = [deleting EXCEPT ![w] = "journal"]
  /\ UNCHANGED <<registry, database, call, owned, commits, faults, lost, torn>>

DeleteJournal(w) ==
  /\ deleting[w] = "journal" /\ Free("journal")
  /\ disk' = [disk EXCEPT !["journal"] = NoFile]
  /\ deleting' = [deleting EXCEPT ![w] = "idle"]
  /\ torn' = (torn /\ disk["main"] # NoFile)
  /\ UNCHANGED <<registry, database, call, owned, commits, faults, may, lost>>

(* remove() rejects with any other error than that there is no such file,   *)
(* as it does while some Worker has it open.                               *)
DeleteFails(w) ==
  /\ deleting[w] # "idle" /\ deleting' = [deleting EXCEPT ![w] = "idle"]
  /\ torn' = (torn \/ (deleting[w] = "journal" /\ HasRecord(disk)))
  /\ UNCHANGED <<disk, registry, database, call, owned, commits, faults, may, lost>>

(* The Workers in `ws' end, with their databases; the browser closes the    *)
(* files.                                                                  *)
End(ws) ==
  LET Mine(value, f) == [d \in Db |-> IF at[d] \in ws THEN value ELSE f[d]]
  IN  /\ Faults(TRUE)
      /\ conn' = Mine("none", conn) /\ call' = Mine("idle", call)
      /\ held' = Mine({}, held) /\ files' = Mine({}, files)
      /\ ids' = [w \in Worker |-> IF w \in ws THEN [f \in Part |-> None] ELSE ids[w]]
      /\ active' = active \ ws
      /\ unstored' = Mine(FALSE, unstored) /\ leaked' = Mine(FALSE, leaked)
      /\ error' = Mine(FALSE, error) /\ lost' = Mine(FALSE, lost)
      /\ owned' = Mine(FALSE, owned) /\ last' = Mine(0, last) /\ at' = Mine(None, at)
      /\ deleting' = [w \in Worker |-> IF w \in ws THEN "idle" ELSE deleting[w]]
      /\ torn' = (torn \/ (HasRecord(disk) /\ \E w \in ws : deleting[w] = "journal"))

Crash(w) == End({w}) /\ UNCHANGED <<disk, commits, may>>

(* A Worker ends while a commit is written to the file, after the record of *)
(* the commit was synced: no older state may return.                       *)
CrashWriting(d) ==
  /\ conn[d] = "stored" /\ last[d] # Mixed /\ commits < MaxCommits
  /\ commits' = commits + 1 /\ may' = {commits'}
  /\ disk' = HalfWritten(disk, disk["main"].mixes, commits')
  /\ End({at[d]})

(* The power goes: what was not synced may be there or not. *)
PowerLoss ==
  /\ disk["main"] # NoFile
  /\ disk' = [disk EXCEPT !["main"] = Main(Found(@), {})]
  /\ End(Worker) /\ UNCHANGED <<commits, may>>

Next ==
  \/ \E w \in Worker, d \in Db : Create(w, d) \/ Sync(w, d) \/ Attach(w, d)
  \/ \E d \in Db : Commit(d) \/ Flush(d) \/ Leak(d) \/ OpenMain(d) \/ OpenFails(d)
                   \/ Synced(d) \/ Attached(d) \/ UseFails(d)
                   \/ Detach(d) \/ Close(d) \/ Discard(d)
  \/ \E w \in Worker : Delete(w) \/ DeleteMain(w) \/ DeleteJournal(w) \/ DeleteFails(w)
                       \/ Crash(w)
  \/ \E d \in Db : CrashWriting(d)
  \/ PowerLoss

Spec == Init /\ [][Next]_vars

(***************************************************************************)
(* Properties                                                              *)
(***************************************************************************)
(* A database that is stored has both files open, and registered under      *)
(* their names with the VFS of its Worker; a call that opens them holds     *)
(* what it opened; nobody else does, also no connection that a statement    *)
(* keeps after close().  The name is active exactly that long.             *)
FilesAreReleased ==
  /\ \A d \in Db :
       LET stored == conn[d] = "stored"
       IN  /\ held[d] = IF stored THEN Part ELSE IF call[d] = "journal" THEN {"main"} ELSE {}
           /\ files[d] = IF stored THEN Part ELSE {}
           /\ stored => ids[at[d]] = [f \in Part |-> d]
  /\ active = {at[d] : d \in {e \in Db : conn[e] = "stored" \/ ~Idle(e)}}

(* README.md:406 "Opening the database replays the journal after a crash, so *)
(* it always holds the last commit": it opens as the state that was stored   *)
(* last, or as a newer one that could not be stored since, and never as an   *)
(* older one or a mix, whichever calls, failures and Workers that end came   *)
(* between - but for a delete() that took one file only.                   *)
OpensTheLastCommit ==
  ~torn /\ ~Overtakes =>
    (IF disk["main"] = NoFile THEN 0 ELSE Recovered(disk)) \in may

(* Commits that are not stored when the database closes or detaches are     *)
(* reported: flush() rejects (FilePersistence.closing, detach and flush).  *)
LossIsReported == \A d \in Db : lost[d] => error[d]

=============================================================================
