----------------------------- MODULE IdbStorage -----------------------------
(***************************************************************************)
(* A database kept in IndexedDB under one name (src/src/indexeddb.ts): the *)
(* commit hook of the overlay (ovReportCommit in src/src/overlay.c) hands  *)
(* the chunks of each commit to IndexedDBPersistence, which merges them    *)
(* into a pending batch and writes batches one after another, each in one  *)
(* IndexedDB transaction.                                                  *)
(*                                                                         *)
(* A chunk holds PerChunk pages: one, until VACUUM makes the pages of the   *)
(* database smaller, from when on a file may end inside a chunk.  `stored'  *)
(* and every batch carry, as their meta, the commit they stand for: the    *)
(* code keeps its size, the model also its number and content, to compare  *)
(* with what is really read back.                                          *)
(***************************************************************************)
EXTENDS Integers, FiniteSetsExt

CONSTANTS N,           \* chunks a file may grow to
          PerChunk,    \* pages in a chunk
          MaxCommits,  \* bound: commits, and new databases, in a behaviour
          MaxWritten,  \* bound: pages a transaction writes
          MaxCrashes,  \* bound: times the page closes
          HookFails    \* whether the commit hook may fail (out of memory)

ASSUME NAssumption == N \in Nat \ {0}
ASSUME PerChunkAssumption == PerChunk \in Nat \ {0}
ASSUME HookFailsAssumption == HookFails \in BOOLEAN

Chunk == 0 .. N - 1
Limit == N * PerChunk
Page  == 0 .. Limit - 1
Size  == 0 .. Limit
Infinity == Limit + 1                      \* more than any size or index
ChunkOf(p) == p \div PerChunk
ChunksBelow(s) == s \div PerChunk   \* Mutant of Chunks: rounded down
Chunks(s) == (s + PerChunk - 1) \div PerChunk   \* Math.ceil(s / chunkSize)
Lesser(a, b) == IF b < a THEN b ELSE a

Zeros  == [p \in Page |-> 0]
NoFile == [n |-> 0, size |-> 0, data |-> Zeros]   \* also: no meta
File   == [n : Nat, size : Size, data : [Page -> Nat]]

(***************************************************************************)
(* Batches (interface Batch) and what IndexedDB holds                      *)
(***************************************************************************)
Batch == [truncate : 0 .. Infinity, chunks : SUBSET Chunk,
          data : [Page -> Nat], meta : File]
EmptyBatch ==
  [truncate |-> Infinity, chunks |-> {}, data |-> Zeros, meta |-> NoFile]

(* The chunks a batch leaves, over the chunks `data'. *)
Over(data, batch) ==
  [p \in Page |-> IF ChunkOf(p) \in batch.chunks THEN batch.data[p]
                  ELSE IF ChunkOf(p) >= batch.truncate THEN 0 ELSE data[p]]

(* Mutant of Merge: the truncation of the later batch is lost. *)
MergeKeepingTruncate(into, batch) ==
  [truncate |-> into.truncate,
   chunks |-> {c \in into.chunks : c < batch.truncate} \union batch.chunks,
   data |-> Over(into.data, batch),
   meta |-> IF batch.meta = NoFile THEN into.meta ELSE batch.meta]

Merge(into, batch) ==
  [truncate |-> Lesser(into.truncate, batch.truncate),
   chunks |-> {c \in into.chunks : c < batch.truncate} \union batch.chunks,
   data |-> Over(into.data, batch),
   meta |-> IF batch.meta = NoFile THEN into.meta ELSE batch.meta]

(* writeBatch, once its transaction completed. *)
Stored(old, batch) == [data |-> Over(old.data, batch), meta |-> batch.meta]
NothingStored == [data |-> Zeros, meta |-> NoFile]

(* loadInto: what is read back. *)
Loaded(s) == [n |-> s.meta.n, size |-> s.meta.size,
              data |-> [p \in Page |-> IF p < s.meta.size THEN s.data[p] ELSE 0]]

VARIABLES
  db,        \* "none", "memory", "stored": there is a database, with a hook
  file,      \* its committed file
  dirty,     \* aDirty: chunks written since the last report
  min,       \* szMin: the smallest size since then
  told,      \* szCommitted: the size last reported
  commits,   \* commits made
  size,      \* IndexedDBPersistence.size
  pending,   \* .pending
  scheduled, \* .scheduled: a write is queued
  writing,   \* a write has started
  running,   \*   and this is its batch
  failed,    \* the last write of the queue failed
  closed,    \* .closed is set
  store,     \* "idle", "sync", "attach": a store() under way
  deleting,  \* a delete() waits for the final write
  flushing,  \* "none", or the write a flush() waits for
  stored,    \* what IndexedDB holds
  crashes,   \* times the page closed
  reported,  \* history: the last commit the listener took
  wanted,    \* history: `reported' when that flush() was called
  promised   \* history: the latest `wanted' of a flush() that resolved

overlayVars == <<db, file, dirty, min, told, commits>>
queueVars   == <<size, pending, scheduled, writing, running, failed, closed>>
historyVars == <<reported, wanted, promised>>
vars == <<overlayVars, queueVars, store, deleting, flushing, stored, crashes,
          historyVars>>

Init ==
  /\ db = "none" /\ file = NoFile
  /\ dirty = {} /\ min = 0 /\ told = 0 /\ commits = 0
  /\ size = Infinity /\ pending = EmptyBatch /\ scheduled = FALSE
  /\ writing = FALSE /\ running = EmptyBatch /\ failed = FALSE /\ closed = TRUE
  /\ store = "idle" /\ deleting = FALSE /\ flushing = "none"
  /\ stored = NothingStored /\ crashes = 0
  /\ reported = 0 /\ wanted = 0 /\ promised = 0

(***************************************************************************)
(* Transactions                                                            *)
(***************************************************************************)
Touched(written, m) ==
  {ChunkOf(p) : p \in written}
    \union (IF m < file.size /\ m % PerChunk # 0 THEN {ChunkOf(m)} ELSE {})

(* Mutant of After: the size is one more when the file is cut. *)
AfterTooLong(written, m, s) ==
  [n |-> commits + 1, size |-> s + 1,
   data |-> [p \in Page |->
     IF p \in written /\ p < s THEN commits + 1
     ELSE IF p < m THEN file.data[p] ELSE 0]]

(* The committed file after a transaction that wrote the pages in     *)
(* `written', cut the file to m if that is less than its size, and left it *)
(* with size s.                                                            *)
After(written, m, s) ==
  [n |-> commits + 1, size |-> s,
   data |-> [p \in Page |->
     IF p \in written /\ p < s THEN commits + 1
     ELSE IF p < m THEN file.data[p] ELSE 0]]

(* IndexedDBPersistence.commit: `new' is the file, cut to `least' on its    *)
(* way, `listed' the chunks reported.                                      *)
Report(new, least, listed) ==
  Merge(pending,
    [truncate |-> IF least < size THEN Chunks(least) ELSE Infinity,
     chunks |-> listed,
     data |-> [p \in Page |-> IF ChunkOf(p) \in listed THEN new.data[p] ELSE 0],
     meta |-> new])

(* ovReportCommit, when the hook succeeds. *)
Reported(new, changed, least) ==
  /\ pending' = Report(new, least, {c \in changed : c < Chunks(new.size)})
  /\ size' = new.size /\ scheduled' = TRUE
  /\ dirty' = {} /\ min' = new.size /\ told' = new.size
  /\ reported' = new.n

(* The hook failed: the changes stay to be reported with the next commit.  *)
NotReported(changed, least) ==
  /\ HookFails
  /\ dirty' = changed /\ min' = least
  /\ UNCHANGED <<pending, size, scheduled, told, reported>>

(* COMMIT_PHASETWO of a transaction. *)
Commit(written, m, s) ==
  /\ db # "none" /\ commits < MaxCommits
  /\ file' = After(written, m, s) /\ commits' = commits + 1
  /\ IF db = "stored"
     THEN LET changed == dirty \union Touched(written, m)
              least   == Lesser(min, m)
          IN  \/ Reported(file', changed, least)
              \/ NotReported(changed, least)
     ELSE UNCHANGED <<pending, size, scheduled, dirty, min, told, reported>>
  /\ UNCHANGED <<db, writing, running, failed, closed, store, deleting,
                 flushing, stored, crashes, wanted, promised>>

(* A transaction writes pages and ends with the file grown, or cut.  The    *)
(* header, with its change counter, is always among them.  SQLite does not *)
(* write every page a file grows by: one freed again stays a hole.         *)
Writes == {w \in SUBSET Page : 0 \in w /\ Cardinality(w) <= MaxWritten}

Grow == \E written \in Writes :
  /\ Commit(written, file.size,
            IF file.size <= Max(written) THEN Max(written) + 1 ELSE file.size)

Shrink == \E written \in Writes, m \in 1 .. file.size - 1 :
  /\ \A p \in written : p < file.size
  /\ Commit(written, m, m)

(* A transaction that SQLite rolled back, when it had cut the file to m     *)
(* already: the playback rewrites all that was cut.                        *)
RolledBack(written, m) ==
  /\ db = "stored"
  /\ m <= file.size /\ \A p \in Page : m <= p /\ p < file.size => p \in written
  /\ dirty' = dirty \union Touched(written, m) /\ min' = Lesser(min, m)
  /\ UNCHANGED <<db, file, told, commits, queueVars, store, deleting,
                 flushing, stored, crashes, historyVars>>

(***************************************************************************)
(* The queue of writes                                                     *)
(***************************************************************************)
(* The final write is done and closing.delete(name) has run. *)
Drained == closed /\ ~scheduled /\ ~writing

(* Mutant of StartWrite: a commit that comes during the write is not queued. *)
StartWriteStillScheduled ==
  /\ scheduled /\ ~writing
  /\ writing' = TRUE /\ UNCHANGED scheduled
  /\ running' = pending /\ pending' = EmptyBatch
  /\ flushing' = IF flushing = "queued" THEN "started" ELSE flushing
  /\ UNCHANGED <<overlayVars, size, failed, closed, store, deleting, stored,
                 crashes, historyVars>>

(* IndexedDBPersistence.write up to its await. *)
StartWrite ==
  /\ scheduled /\ ~writing
  /\ writing' = TRUE /\ scheduled' = FALSE
  /\ running' = pending /\ pending' = EmptyBatch
  /\ flushing' = IF flushing = "queued" THEN "started" ELSE flushing
  /\ UNCHANGED <<overlayVars, size, failed, closed, store, deleting, stored,
                 crashes, historyVars>>

Ended ==
  /\ writing' = FALSE /\ running' = EmptyBatch
  /\ flushing' = IF flushing = "started" THEN "none" ELSE flushing

(* Mutant of Written: `scheduled' is reset when a write ends. *)
WrittenUnscheduling ==
  /\ writing /\ stored' = Stored(stored, running)
  /\ failed' = FALSE /\ Ended /\ scheduled' = FALSE
  /\ promised' = IF flushing = "started" THEN wanted ELSE promised
  /\ UNCHANGED <<overlayVars, size, pending, closed, store, deleting,
                 crashes, reported, wanted>>

(* writeBatch completed. *)
Written ==
  /\ writing /\ stored' = Stored(stored, running)
  /\ failed' = FALSE /\ Ended
  /\ promised' = IF flushing = "started" THEN wanted ELSE promised
  /\ UNCHANGED <<overlayVars, size, pending, scheduled, closed, store,
                 deleting, crashes, reported, wanted>>

(* Its transaction aborted: retried with the next commit or flush. *)
WriteFails ==
  /\ writing /\ pending' = Merge(running, pending)
  /\ failed' = TRUE /\ Ended
  /\ UNCHANGED <<overlayVars, size, scheduled, closed, store, deleting,
                 stored, crashes, historyVars>>

(***************************************************************************)
(* flush(), detach(), close()                                              *)
(***************************************************************************)
HasPending == pending.meta # NoFile

(* Mutant of Flush: does not retry what a failed write left. *)
FlushUnscheduled ==
  /\ flushing = "none"
  /\ scheduled' = scheduled
  /\ wanted' = reported
  /\ flushing' = IF scheduled \/ (~closed /\ HasPending) THEN "queued"
                 ELSE IF writing THEN "started" ELSE "none"
  /\ promised' = IF flushing' = "none" /\ ~failed THEN wanted' ELSE promised
  /\ UNCHANGED <<overlayVars, size, pending, writing, running, failed, closed,
                 store, deleting, stored, crashes, reported>>

(* Mutant of Flush: waits for the write under way. *)
FlushStarted ==
  /\ flushing = "none"
  /\ scheduled' = (scheduled \/ (~closed /\ HasPending))
  /\ wanted' = reported
  /\ flushing' = IF writing THEN "started"
                 ELSE IF scheduled' THEN "queued" ELSE "none"
  /\ promised' = IF flushing' = "none" /\ ~failed THEN wanted' ELSE promised
  /\ UNCHANGED <<overlayVars, size, pending, writing, running, failed, closed,
                 store, deleting, stored, crashes, reported>>

(* A flush that is called while another waits adds nothing: one is enough.  *)
(* After close() it waits for the final write, and rejects if that failed. *)
Flush ==
  /\ flushing = "none"
  /\ scheduled' = (scheduled \/ (~closed /\ HasPending))
  /\ wanted' = reported
  /\ flushing' = IF scheduled' THEN "queued"
                 ELSE IF writing THEN "started" ELSE "none"
  /\ promised' = IF flushing' = "none" /\ ~failed THEN wanted' ELSE promised
  /\ UNCHANGED <<overlayVars, size, pending, writing, running, failed, closed,
                 store, deleting, stored, crashes, reported>>

(* IndexedDBPersistence.close. *)
ClosePersistence ==
  /\ closed' = TRUE
  /\ scheduled' = (scheduled \/ HasPending)

(* Database.detach, and Database.close. *)
Leave(to) ==
  /\ db = "stored" /\ db' = to
  /\ ClosePersistence
  /\ file' = IF to = "none" THEN NoFile ELSE file
  /\ dirty' = {} /\ min' = file'.size /\ told' = file'.size
  /\ UNCHANGED <<commits, size, pending, writing, running, failed, store,
                 deleting, flushing, stored, crashes, historyVars>>
Detach == Leave("memory")
Close  == Leave("none")

(***************************************************************************)
(* store(): Database.sync and Database.attach                              *)
(***************************************************************************)
Active == db = "stored" \/ store # "idle"     \* names.active holds the name

Create ==          \* new Database()
  /\ db = "none" /\ store = "idle" /\ commits < MaxCommits
  /\ db' = "memory" /\ commits' = commits + 1
  /\ file' = [NoFile EXCEPT !.n = commits + 1]
  /\ dirty' = {} /\ min' = 0 /\ told' = 0
  /\ UNCHANGED <<queueVars, store, deleting, flushing, stored, crashes,
                 historyVars>>

Discard ==         \* close() of a database that is not stored
  /\ db = "memory" /\ db' = "none" /\ file' = NoFile
  /\ dirty' = {} /\ min' = 0 /\ told' = 0
  /\ UNCHANGED <<commits, queueVars, store, deleting, flushing, stored,
                 crashes, historyVars>>

Store ==
  /\ ~Active
  /\ store' = IF db = "memory" THEN "attach" ELSE "sync"
  /\ UNCHANGED <<overlayVars, queueVars, deleting, flushing, stored, crashes,
                 historyVars>>

(* Store's continuation: the commits of a closed database are written, and  *)
(* a delete() that was called earlier is done.                             *)
CanOpen == Drained /\ ~deleting

NewPersistence ==
  /\ writing' = FALSE /\ running' = EmptyBatch
  /\ failed' = FALSE /\ closed' = FALSE

(* The stored file is loaded into a new database. *)
Synced ==
  /\ store = "sync" /\ CanOpen
  /\ store' = "idle" /\ db' = "stored" /\ file' = Loaded(stored)
  /\ dirty' = {} /\ min' = file'.size /\ told' = file'.size
  /\ NewPersistence /\ pending' = EmptyBatch /\ scheduled' = FALSE
  /\ size' = IF stored.meta = NoFile THEN Infinity ELSE stored.meta.size
  /\ reported' = stored.meta.n
  /\ UNCHANGED <<commits, deleting, flushing, stored, crashes, wanted, promised>>

(* persistAll: the whole file is reported, as one commit. *)
Attached ==
  /\ store = "attach" /\ db = "memory" /\ CanOpen
  /\ store' = "idle" /\ db' = "stored"
  /\ NewPersistence /\ scheduled' = TRUE
  /\ pending' = [truncate |-> 0, chunks |-> {c \in Chunk : c < Chunks(file.size)},
                 data |-> file.data, meta |-> file]
  /\ size' = file.size /\ dirty' = {} /\ min' = file.size /\ told' = file.size
  /\ reported' = file.n
  /\ UNCHANGED <<file, commits, deleting, flushing, stored, crashes, wanted,
                 promised>>

(* Opening or loading failed, or persistAll (a write transaction is open),  *)
(* or the database that was to be attached is closed.                      *)
StoreFails ==
  /\ store # "idle" /\ CanOpen
  /\ store' = "idle"
  /\ UNCHANGED <<overlayVars, queueVars, deleting, flushing, stored, crashes,
                 historyVars>>

Delete ==
  /\ ~Active /\ ~deleting
  /\ deleting' = TRUE
  /\ UNCHANGED <<overlayVars, queueVars, store, flushing, stored, crashes,
                 historyVars>>

Deleted ==
  /\ deleting /\ Drained
  /\ deleting' = FALSE /\ stored' = NothingStored
  /\ promised' = 0 /\ reported' = 0
  /\ UNCHANGED <<overlayVars, queueVars, store, flushing, crashes, wanted>>

(* The page closes: only what IndexedDB holds is left, with or without the  *)
(* transaction under way.                                                  *)
Crash ==
  /\ crashes < MaxCrashes /\ crashes' = crashes + 1
  /\ stored' \in {stored} \union (IF writing THEN {Stored(stored, running)} ELSE {})
  /\ db' = "none" /\ file' = NoFile /\ dirty' = {} /\ min' = 0 /\ told' = 0
  /\ size' = Infinity /\ pending' = EmptyBatch /\ scheduled' = FALSE
  /\ writing' = FALSE /\ running' = EmptyBatch /\ failed' = FALSE
  /\ closed' = TRUE /\ store' = "idle" /\ deleting' = FALSE
  /\ flushing' = "none" /\ reported' = stored'.meta.n
  /\ UNCHANGED <<commits, wanted, promised>>

Rollback == \E written \in SUBSET Page, m \in Size : RolledBack(written, m)

Next ==
  \/ Grow \/ Shrink \/ Rollback
  \/ StartWrite \/ Written \/ WriteFails
  \/ Flush \/ Detach \/ Close \/ Create \/ Discard
  \/ Store \/ Synced \/ Attached \/ StoreFails \/ Delete \/ Deleted
  \/ Crash

(* The browser runs what is queued, and settles its requests. *)
Fairness ==
  /\ WF_vars(StartWrite) /\ WF_vars(Written \/ WriteFails)
  /\ WF_vars(Synced \/ Attached \/ StoreFails) /\ WF_vars(Deleted)

Spec == Init /\ [][Next]_vars /\ Fairness

(***************************************************************************)
(* Properties                                                              *)
(***************************************************************************)
(* Every variable has its type. *)
TypeOK ==
  /\ db \in {"none", "memory", "stored"} /\ store \in {"idle", "sync", "attach"}
  /\ file \in File /\ dirty \in SUBSET Chunk /\ min \in Size /\ told \in Size
  /\ commits \in Nat /\ size \in Size \union {Infinity}
  /\ pending \in Batch /\ running \in Batch
  /\ {scheduled, writing, failed, closed, deleting} \subseteq BOOLEAN
  /\ flushing \in {"none", "queued", "started"}
  /\ stored \in [data : [Page -> Nat], meta : File]
  /\ crashes \in Nat /\ reported \in Nat
  /\ wanted \in Nat /\ promised \in Nat

(* "The stored database always reflects a committed state": loading it      *)
(* gives the file of one commit, whole, whichever commits were merged, cut, *)
(* rolled back, retried or given up (loadInto, merge and ovReportCommit).  *)
StoredIsACommit == Loaded(stored) = stored.meta

(* A flush() that resolves means the commits the listener took before it    *)
(* are stored, and stay so when the database is closed, stored again or the *)
(* page dies (IndexedDBPersistence.flush).  A commit that the listener      *)
(* could not take, because the hook failed, is not among them, although     *)
(* Database.flush says "every committed change".                           *)
FlushedMeansStored == promised <= stored.meta.n

(* Once nothing is queued and the last write went well, all commits taken   *)
(* by the listener are stored, also after close() or detach(): none waits   *)
(* in `pending' for a write that nobody schedules.                         *)
QuietMeansStored ==
  ~scheduled /\ ~writing /\ ~failed => stored.meta.n = reported

(* A flush() is answered, and so are sync(), attach() and delete(), also    *)
(* those that wait for the final write of another database.                *)
FlushSettles == flushing # "none" ~> flushing = "none"
NameSettles == (store # "idle" ~> store = "idle") /\ (deleting ~> ~deleting)

=============================================================================
