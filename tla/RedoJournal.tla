----------------------------- MODULE RedoJournal -----------------------------
(***************************************************************************)
(* One overlay on a writable base file (base=VFS), its redo journal, and   *)
(* the disk under both: src/src/overlay.c, "Writable base files".          *)
(*                                                                         *)
(* A transaction changes pages in memory.  Its commit is written back: a   *)
(* record of the dirty chunks is appended to the journal and synced, then  *)
(* the chunks are written to the base file, which is not synced, and the   *)
(* pages in memory are dropped.  A checkpoint syncs the base file and      *)
(* clears the journal.  Opening replays the journal.  Each of these steps  *)
(* can fail, and the power can go between any two of them; what was        *)
(* written and not synced then survives or not, chunk by chunk.            *)
(*                                                                         *)
(* The program is single-threaded here (a commit runs to its end before    *)
(* the next call), so only a crash comes between the steps of one call.    *)
(***************************************************************************)
EXTENDS OverlayPages, FiniteSets

CONSTANTS MaxTxn,         \* bound: transactions begun
          MaxRecords,     \* bound: records the journal has room for
          JournalLimit,   \* OV_JOURNAL_LIMIT, in records
          Salts,          \* what sqlite3_randomness returns
          Torn,           \* content of a chunk that was half written
          Old,            \* content of a chunk from before this history
          Rare            \* what rarely happens, and may here: see Rarities

(***************************************************************************)
(* What the disk and SQLite do only in rare cases.  A run that leaves one  *)
(* out of Rare assumes that it does not happen.                            *)
(*   "leaf"    SQLite grows the file and leaves a free page unwritten      *)
(*   "clear"   clearing the journal fails after the header was cleared     *)
(*   "cache"   what a process reads of a journal that an earlier one did   *)
(*             not sync is lost later, when the power goes                 *)
(*   "growth"  a write-back fails after it made the base file longer       *)
(***************************************************************************)
Rarities == {"leaf", "clear", "cache", "growth"}

ASSUME BoundsAssumption ==
  /\ MaxTxn \in Nat /\ MaxRecords \in Nat \ {0} /\ JournalLimit \in Nat
  /\ Torn \in Nat /\ Torn > MaxTxn /\ Old \in Nat /\ Old > MaxTxn /\ Old # Torn
  /\ Salts \subseteq Nat \ {0}
ASSUME RareAssumption == Rare \subseteq Rarities

VARIABLES
  mode,       \* "closed", "open" (on the base file) or "memory" (detached)
  step,       \* where the running call is, "idle" between calls
  caller,     \* the call the step belongs to
  ov,         \* the Overlay
  dirty,      \* aiDirty: chunks written since the last write-back
  stored,     \* szStored
  rc,         \* rcWrite: "ok" or "error"
  used,       \* iJournal, in records; nSeq is the same number
  salt,       \* salt of the records since the last checkpoint
  todo,       \* chunks this write-back has still to write to the base file
  at,         \* journal record this recovery reads next
  \* The files: what a read returns, and what a crash may leave instead.
  base, baseLeft,
  journal, journalLeft,
  \* SQLite's rollback journal, which is in memory: chunks to restore.
  touched,
  txn,        \* number of the transaction: the content its writes leave
  \* History: the last commit, and the commits the file may be found with.
  committed, allowed

memoryVars == <<ov, dirty, stored, rc>>
fileVars   == <<base, baseLeft, journal, journalLeft>>
clientVars == <<touched, txn, committed, allowed>>
vars == <<mode, step, caller, ov, dirty, stored, rc, used, salt, todo, at,
          base, baseLeft, journal, journalLeft, touched, txn, committed,
          allowed>>

-----------------------------------------------------------------------------
(* The journal *)

Slot   == 1 .. MaxRecords
Record == [salt : Salts, size : Size, page : [Chunk -> Page]]
(* Anything replay stops at: zeros, or a record that was torn.             *)
Empty  == [salt |-> 0, size |-> 0, page |-> NoPages]

(* The record ovAppendJournal writes: dirty chunks that are held.          *)
NewRecord ==
  [salt |-> salt, size |-> ov.size,
   page |-> [i \in Chunk |-> IF i \in dirty /\ i < ov.size
                             THEN ov.page[i] ELSE NoPage]]
Held(page) == {i \in Chunk : page[i] # NoPage}

(* Mutant of Follows: replay takes any complete record.                    *)
FollowsAnything(k) == k \in Slot /\ journal[k] # Empty

(* ovRecover: record k is complete and follows the one before it.  Records *)
(* take one slot each here: the sequence number is the slot, and a record  *)
(* left behind always starts where the last one written ends, the worst    *)
(* case (otherwise replay finds no header there).                          *)
Follows(k) ==
  /\ k \in Slot
  /\ journal[k] # Empty
  /\ k > 1 => journal[k].salt = journal[k - 1].salt

(* ovNewJournal: not the salt of the generation before.  That a random     *)
(* salt of 32 bits is none of those left in the journal is an assumption.  *)
LeftSalts == {r.salt : r \in UNION {journalLeft[k] : k \in Slot}}
FreshSalts == Salts \ ({salt} \union LeftSalts)
NewJournal ==
  /\ salt' \in FreshSalts
  /\ used' = 0

-----------------------------------------------------------------------------
(* The files: what is written reaches the disk at a sync, before it or     *)
(* not at all.  Left holds what a crash may leave of each chunk.           *)

WriteBase(i, v) ==
  /\ base' = [size |-> IF i + 1 > base.size THEN i + 1 ELSE base.size,
              data |-> [base.data EXCEPT ![i] = v]]
  /\ baseLeft' = [size |-> baseLeft.size \union {base'.size},
                  data |-> [baseLeft.data EXCEPT ![i] = @ \union {v, Torn}]]

(* base'.data reads as zero from n on, should the file grow again.         *)
CutBase(n) ==
  /\ base' = [size |-> n, data |-> Cut(base.data, n)]
  /\ baseLeft' = [size |-> baseLeft.size \union {n},
                  data |-> [i \in Chunk |->
                    IF i < n THEN baseLeft.data[i]
                    ELSE baseLeft.data[i] \union {0}]]

SyncBase ==
  /\ baseLeft' = [size |-> {base.size},
                  data |-> [i \in Chunk |-> {base.data[i]}]]
  /\ UNCHANGED base

WriteJournal(k, r) ==
  /\ journal' = [journal EXCEPT ![k] = r]
  /\ journalLeft' = [journalLeft EXCEPT ![k] = @ \union {r, Empty}]

SyncJournal ==
  /\ journalLeft' = [k \in Slot |-> {journal[k]}]
  /\ UNCHANGED journal

-----------------------------------------------------------------------------
Init ==
  /\ mode = "closed" /\ step = "idle" /\ caller = "none"
  /\ ov = EmptyOverlay
  /\ dirty = {} /\ stored = 0 /\ rc = "ok"
  /\ used = 0 /\ salt = 0 /\ todo = {} /\ at = 0
  /\ \E n \in Size :
       base = [size |-> n, data |-> Cut([i \in Chunk |-> Old], n)]
  /\ baseLeft = [size |-> {base.size},
                 data |-> [i \in Chunk |-> {base.data[i]}]]
  /\ journal = [k \in Slot |-> Empty]
  /\ journalLeft = [k \in Slot |-> {Empty}]
  /\ touched = {} /\ txn = 0
  /\ committed = NoFile /\ allowed = {base}

Idle == step = "idle"

-----------------------------------------------------------------------------
(* SQLite's transactions, on an open or a detached overlay.                *)

(* A transaction takes the write lock. *)
Begin ==
  /\ Idle /\ mode # "closed" /\ txn < MaxTxn
  /\ txn' = txn + 1
  /\ step' = "txn"
  /\ UNCHANGED <<mode, caller, memoryVars, used, salt, todo, at, fileVars,
                 touched, committed, allowed>>

(* ovMarkDirty: only a stored overlay keeps track. *)
MarkDirty(chunks) ==
  dirty' = IF mode = "open" THEN dirty \union chunks ELSE dirty

(* ovWrite.  SQLite appends pages in order; with "leaf" it leaves out   *)
(* one that is free and was never written.                                 *)
Write(i) ==
  /\ step = "txn"
  /\ i <= ov.size \/ ("leaf" \in Rare /\ ov.size > 0)
  /\ ov' = WriteChunk(ov, i, txn)
  /\ MarkDirty({i})
  /\ touched' = touched \union {i}
  /\ UNCHANGED <<mode, step, caller, stored, rc, used, salt, todo, at,
                 fileVars, txn, committed, allowed>>

(* ovTruncate: SQLite cuts the file as the last thing before it commits,   *)
(* and never its first page.                                               *)
Truncate(n) ==
  /\ step = "txn"
  /\ n < ov.size
  /\ ov' = TruncateTo(ov, n)
  /\ touched' = touched \union {i \in Chunk : n <= i}
  /\ step' = "cut"
  /\ UNCHANGED <<mode, caller, dirty, stored, rc, used, salt, todo, at,
                 fileVars, txn, committed, allowed>>

(* ovFileControl(COMMIT_PHASETWO): the commit stands, whatever comes of    *)
(* the write-back it starts.                                               *)
Commit ==
  /\ step \in {"txn", "cut"}
  /\ committed' = Content(ov, base)
  /\ touched' = {}
  /\ IF mode = "open"
     THEN step' = "append" /\ caller' = "commit"
          /\ allowed' = allowed \union {committed'}
     ELSE step' = "idle" /\ UNCHANGED <<caller, allowed>>
  /\ UNCHANGED <<mode, memoryVars, used, salt, todo, at, fileVars, txn>>

(* SQLite restores what the transaction touched from its own journal: the  *)
(* size first, then each page, with ordinary writes.                       *)
Rollback ==
  /\ step \in {"txn", "cut"}
  /\ ov' = Restore(ov, committed, touched)
  /\ MarkDirty({i \in touched : i < committed.size})
  /\ touched' = {} /\ step' = "idle"
  /\ UNCHANGED <<mode, caller, stored, rc, used, salt, todo, at, fileVars,
                 txn, committed, allowed>>

-----------------------------------------------------------------------------
(* ovWriteBack.  Its callers start it with step "append".                  *)

CallWriteBack(call) ==
  /\ step' = "append"
  /\ caller' = call
  /\ UNCHANGED <<mode, memoryVars, used, salt, todo, at, fileVars,
                 clientVars>>

(* sqlite3_overlay_flush, sqlite3_overlay_detach_base and the ovClose of   *)
(* the last connection: not during a write transaction.                    *)
Flush  == Idle /\ mode = "open" /\ CallWriteBack("flush")
Detach == Idle /\ mode = "open" /\ CallWriteBack("detach")
Close  == Idle /\ mode = "open" /\ CallWriteBack("close")

(* What comes after ovWriteBack returned, by caller. *)
AfterWriteBack(result) ==
  /\ rc' = result
  /\ \/ /\ caller \in {"commit", "flush"}
        /\ step' = "idle" /\ caller' = "none" /\ UNCHANGED mode
     \/ /\ caller = "close"
        /\ step' = "checkpoint" /\ caller' = "closing" /\ UNCHANGED mode
     \/ /\ caller = "detach"
        /\ step' = "copy" /\ UNCHANGED <<caller, mode>>
     \/ /\ caller = "attach" /\ result = "ok"
        /\ step' = "idle" /\ caller' = "none" /\ mode' = "open"
     \/ /\ caller = "attach" /\ result # "ok"
        /\ step' = "letgo" /\ UNCHANGED <<caller, mode>>

(* Everything is stored already. *)
NothingToStore ==
  /\ step = "append"
  /\ dirty = {} /\ ov.size = stored
  /\ AfterWriteBack("ok")
  /\ UNCHANGED <<ov, dirty, stored, used, salt, todo, at, fileVars,
                 clientVars>>

(* ovPreserveLocked fails for a snapshot, or memory runs out. *)
PreserveFails ==
  /\ step = "append"
  /\ ~(dirty = {} /\ ov.size = stored)
  /\ AfterWriteBack("error")
  /\ UNCHANGED <<ov, dirty, stored, used, salt, todo, at, fileVars,
                 clientVars>>

(* ovAppendJournal, up to the sync.  A write that fails leaves anything.   *)
Append ==
  /\ step = "append"
  /\ ~(dirty = {} /\ ov.size = stored)
  /\ used < MaxRecords
  /\ WriteJournal(used + 1, NewRecord)
  /\ step' = "journalsync"
  /\ UNCHANGED <<mode, caller, memoryVars, used, salt, todo, at, base,
                 baseLeft, clientVars>>

AppendFails ==
  /\ step = "append"
  /\ ~(dirty = {} /\ ov.size = stored)
  /\ used < MaxRecords
  /\ journal' = [journal EXCEPT ![used + 1] = Empty]
  /\ journalLeft' =
       [journalLeft EXCEPT ![used + 1] = @ \union {NewRecord, Empty}]
  /\ AfterWriteBack("error")
  /\ UNCHANGED <<ov, dirty, stored, used, salt, todo, at, base, baseLeft,
                 clientVars>>

(* Mutant of JournalSynced: the journal is not synced.                     *)
JournalNotSynced ==
  /\ step = "journalsync"
  /\ used' = used + 1
  /\ todo' = Held(NewRecord.page)
  /\ step' = "apply"
  /\ allowed' = {committed}
  /\ UNCHANGED <<mode, caller, memoryVars, salt, at, fileVars, touched,
                 txn, committed>>

(* "from then on the commit survives a crash": only it may be found now.   *)
JournalSynced ==
  /\ step = "journalsync"
  /\ SyncJournal
  /\ used' = used + 1
  /\ todo' = Held(NewRecord.page)
  /\ step' = "apply"
  /\ allowed' = {committed}
  /\ UNCHANGED <<mode, caller, memoryVars, salt, at, base, baseLeft, touched,
                 txn, committed>>

(* Mutant of JournalSyncFails: the error of the sync is dropped.           *)
JournalSyncIgnored ==
  /\ step = "journalsync"
  /\ AfterWriteBack("ok")
  /\ UNCHANGED <<ov, dirty, stored, used, salt, todo, at, fileVars,
                 clientVars>>

JournalSyncFails ==
  /\ step = "journalsync"
  /\ AfterWriteBack("error")
  /\ UNCHANGED <<ov, dirty, stored, used, salt, todo, at, fileVars,
                 clientVars>>

(* A failure that leaves the base file of the given size. *)
MayFail(size) == size <= stored \/ "growth" \in Rare

(* One chunk is written to the base file, which is not synced. *)
Apply(i) ==
  /\ step = "apply" /\ i \in todo
  /\ WriteBase(i, ov.page[i])
  /\ todo' = todo \ {i}
  /\ UNCHANGED <<mode, step, caller, memoryVars, used, salt, at, journal,
                 journalLeft, clientVars>>

ApplyFails(i, v) ==
  /\ step = "apply" /\ i \in todo
  /\ WriteBase(i, v) /\ MayFail(base'.size)
  /\ todo' = {}
  /\ AfterWriteBack("error")
  /\ UNCHANGED <<ov, dirty, stored, used, salt, at, journal, journalLeft,
                 clientVars>>

(* The base file shrinks with the overlay. *)
Shrink ==
  /\ step = "apply" /\ todo = {}
  /\ IF ov.size < stored THEN CutBase(ov.size) ELSE UNCHANGED <<base, baseLeft>>
  /\ step' = "settle"
  /\ UNCHANGED <<mode, caller, memoryVars, used, salt, todo, at, journal,
                 journalLeft, clientVars>>

ShrinkFails ==
  /\ step = "apply" /\ todo = {}
  /\ ov.size < stored /\ MayFail(base.size)
  /\ AfterWriteBack("error")
  /\ UNCHANGED <<ov, dirty, stored, used, salt, todo, at, fileVars,
                 clientVars>>

(* Mutant of Settle: the first chunk that is kept in memory gets stale.    *)
SettleStaleHead ==
  /\ step = "settle"
  /\ ov' = [DropStored(ov, dirty) EXCEPT !.head = ov.head]
  /\ stored' = ov.size
  /\ dirty' = {}
  /\ IF used > JournalLimit
     THEN rc' = "ok" /\ step' = "checkpoint" /\ UNCHANGED <<caller, mode>>
     ELSE AfterWriteBack("ok")
  /\ UNCHANGED <<used, salt, todo, at, fileVars, clientVars>>

(* The chunks are stored: drop them from memory, all but the first.        *)
Settle ==
  /\ step = "settle"
  /\ ov' = DropStored(ov, dirty)
  /\ stored' = ov.size
  /\ dirty' = {}
  /\ IF used > JournalLimit
     THEN rc' = "ok" /\ step' = "checkpoint" /\ UNCHANGED <<caller, mode>>
     ELSE AfterWriteBack("ok")
  /\ UNCHANGED <<used, salt, todo, at, fileVars, clientVars>>

(* No memory for the copy of the first chunk. *)
SettleFails ==
  /\ step = "settle"
  /\ ov.size > 0 /\ ov.page[0] # NoPage /\ MayFail(base.size)
  /\ AfterWriteBack("error")
  /\ UNCHANGED <<ov, dirty, stored, used, salt, todo, at, fileVars,
                 clientVars>>

-----------------------------------------------------------------------------
(* ovCheckpoint *)

AfterCheckpoint ==
  IF caller \in {"closing", "detaching"}
  THEN step' = "letgo" /\ UNCHANGED <<rc, caller, mode>>
  ELSE AfterWriteBack("ok")

NotNeeded == used = 0 \/ dirty # {} \/ rc # "ok"

(* Nothing to do, or syncing the base file fails: it is tried again.       *)
CheckpointSkipped ==
  /\ step = "checkpoint"
  /\ AfterCheckpoint
  /\ UNCHANGED <<ov, dirty, stored, used, salt, todo, at, fileVars,
                 clientVars>>

CheckpointSync ==
  /\ step = "checkpoint" /\ ~NotNeeded
  /\ SyncBase
  /\ step' = "clear"
  /\ UNCHANGED <<mode, caller, memoryVars, used, salt, todo, at, journal,
                 journalLeft, clientVars>>

(* The first header is cleared, and not synced. *)
Clear ==
  /\ step = "clear"
  /\ WriteJournal(1, Empty)
  /\ NewJournal
  /\ AfterCheckpoint
  /\ UNCHANGED <<ov, dirty, stored, todo, at, base, baseLeft, clientVars>>

ClearFails ==
  /\ step = "clear"
  /\ \/ "clear" \in Rare /\ WriteJournal(1, Empty)
     \/ UNCHANGED <<journal, journalLeft>>
  /\ AfterCheckpoint
  /\ UNCHANGED <<ov, dirty, stored, used, salt, todo, at, base, baseLeft,
                 clientVars>>

-----------------------------------------------------------------------------
(* sqlite3_overlay_detach_base, after its write-back: the overlay takes a  *)
(* copy of every chunk, also when the write-back failed.                   *)
CopyToMemory ==
  /\ step = "copy"
  /\ ov' = Preserve(ov, base, 0 .. ov.size - 1)
  /\ step' = "checkpoint"
  /\ caller' = "detaching"
  /\ UNCHANGED <<mode, dirty, stored, rc, used, salt, todo, at, fileVars,
                 clientVars>>

(* Reading fails part of the way: it stays on its base file.               *)
CopyFails(chunks) ==
  /\ step = "copy"
  /\ ov' = Preserve(ov, base, chunks)
  /\ step' = "idle"
  /\ caller' = "none"
  /\ UNCHANGED <<mode, dirty, stored, rc, used, salt, todo, at, fileVars,
                 clientVars>>

(* What the process knew of the overlay is gone. *)
Closed ==
  /\ mode' = "closed" /\ ov' = EmptyOverlay
  /\ used' = 0 /\ salt' = 0 /\ todo' = {} /\ at' = 0
  /\ touched' = {} /\ committed' = NoFile

(* ovCloseBase, in ovDestroyLocked, at the end of a detach, and for an     *)
(* attach that failed.                                                     *)
LetGo ==
  /\ step = "letgo"
  /\ IF caller = "closing"
     THEN Closed /\ UNCHANGED allowed
     ELSE /\ mode' = "memory" /\ ov' = NoBase(ov)
          /\ UNCHANGED <<used, salt, todo, at, committed, touched, allowed>>
  /\ step' = "idle" /\ caller' = "none"
  /\ dirty' = {} /\ rc' = "ok" /\ stored' = 0
  /\ UNCHANGED <<fileVars, txn>>

(* The last connection of a detached overlay closes. *)
CloseMemory ==
  /\ Idle /\ mode = "memory"
  /\ Closed
  /\ UNCHANGED <<step, caller, dirty, stored, rc, fileVars, txn, allowed>>

-----------------------------------------------------------------------------
(* ovOpenWritableBase and ovRecover, for a new overlay (ovCreateLocked) or *)
(* for sqlite3_overlay_attach_base.  ovRecover does not sync the journal   *)
(* before it replays it: without "cache", what an earlier process     *)
(* wrote and did not sync has reached the disk by the time it is read.     *)

OpenJournal ==
  IF "cache" \in Rare THEN UNCHANGED <<journal, journalLeft>> ELSE SyncJournal

Open ==
  /\ Idle /\ mode = "closed"
  /\ OpenJournal
  /\ step' = "replay" /\ caller' = "open" /\ at' = 1
  /\ UNCHANGED <<mode, memoryVars, used, salt, todo, base, baseLeft,
                 clientVars>>

(* Holes are filled with zero chunks first. *)
Attach ==
  /\ Idle /\ mode = "memory"
  /\ ov' = FillHoles(ov)
  /\ OpenJournal
  /\ step' = "replay" /\ caller' = "attach" /\ at' = 1
  /\ UNCHANGED <<mode, dirty, stored, rc, used, salt, todo, base, baseLeft,
                 clientVars>>

(* The base file once the chunks of a record are written to it.            *)
Extended(r) ==
  LET ends == {base.size} \union {i + 1 : i \in Held(r.page)}
  IN CHOOSE n \in ends : \A m \in ends : m <= n

(* It is cut if it is longer than the record says.                         *)
ReplayRecord ==
  LET r    == journal[at]
      size == IF Extended(r) > r.size THEN r.size ELSE Extended(r)
      data == [i \in Chunk |->
                 IF r.page[i] # NoPage THEN r.page[i] ELSE base.data[i]]
  IN /\ step = "replay" /\ Follows(at)
     /\ base' = [size |-> size, data |-> Cut(data, size)]
     /\ baseLeft' =
          [size |-> baseLeft.size \union {size}
                    \union base.size .. Extended(r),
           data |-> [i \in Chunk |-> baseLeft.data[i] \union {base'.data[i]}
                       \union IF r.page[i] = NoPage THEN {}
                              ELSE {r.page[i], Torn}]]
     /\ at' = at + 1
     /\ UNCHANGED <<mode, step, caller, memoryVars, used, salt, todo, journal,
                    journalLeft, clientVars>>

ReplayEnds ==
  /\ step = "replay" /\ ~Follows(at)
  /\ step' = IF at > 1 THEN "replaysync" ELSE "replayclear"
  /\ UNCHANGED <<mode, caller, memoryVars, used, salt, todo, at, fileVars,
                 clientVars>>

ReplaySync ==
  /\ step = "replaysync"
  /\ SyncBase
  /\ step' = "replayclear"
  /\ UNCHANGED <<mode, caller, memoryVars, used, salt, todo, at, journal,
                 journalLeft, clientVars>>

(* The journal starts over.  A new overlay reads the file; one that        *)
(* attaches replaces it by all it holds, as one write-back.                *)
ReplayClear ==
  /\ step = "replayclear"
  /\ WriteJournal(1, Empty)
  /\ NewJournal
  /\ at' = 0
  /\ stored' = base.size
  /\ IF caller = "open"
     THEN /\ mode' = "open" /\ step' = "idle" /\ caller' = "none"
          /\ ov' = Opened(base)
          /\ committed' = Content(Opened(base), base)
          /\ allowed' = {committed'}
          /\ UNCHANGED dirty
     ELSE /\ step' = "append"
          /\ dirty' = 0 .. ov.size - 1
          /\ allowed' = {base, committed}
          /\ UNCHANGED <<mode, caller, ov, committed>>
  /\ UNCHANGED <<rc, todo, base, baseLeft, touched, txn>>

(* A read, write or sync of the recovery fails: nothing is opened.  The    *)
(* writes of a record that was being replayed are as a crash may find them.*)
OpenFails ==
  /\ step \in {"replay", "replaysync", "replayclear"}
  /\ step' = "idle" /\ caller' = "none" /\ at' = 0
  /\ UNCHANGED <<mode, memoryVars, used, salt, todo, fileVars, clientVars>>

-----------------------------------------------------------------------------
(* The power goes, or the process dies: memory is lost, and of each write  *)
(* that was not synced any part may be.                                    *)
Crash ==
  /\ \E size \in baseLeft.size, data \in [Chunk -> UNION {baseLeft.data[i] : i \in Chunk}] :
       /\ \A i \in Chunk : data[i] \in baseLeft.data[i]
       /\ base' = [size |-> size, data |-> Cut(data, size)]
  /\ baseLeft' = [size |-> {base'.size},
                  data |-> [i \in Chunk |-> {base'.data[i]}]]
  /\ journal' \in [Slot -> UNION {journalLeft[k] : k \in Slot}]
  /\ \A k \in Slot : journal'[k] \in journalLeft[k]
  /\ journalLeft' = [k \in Slot |-> {journal'[k]}]
  /\ Closed
  /\ step' = "idle" /\ caller' = "none"
  /\ dirty' = {} /\ stored' = 0 /\ rc' = "ok"
  /\ UNCHANGED <<txn, allowed>>

-----------------------------------------------------------------------------
Client   == Begin \/ Commit \/ Rollback \/ Flush \/ Detach \/ Close
            \/ CloseMemory \/ Open \/ Attach
            \/ \E i \in Chunk : Write(i)
            \/ \E n \in Size \ {0} : Truncate(n)
WriteBack == NothingToStore \/ Append \/ JournalSynced \/ Shrink \/ Settle
             \/ CheckpointSync \/ Clear \/ CopyToMemory \/ LetGo
             \/ CheckpointSkipped
             \/ \E i \in Chunk : Apply(i)
Recovery == ReplayRecord \/ ReplayEnds \/ ReplaySync \/ ReplayClear
Failure  == PreserveFails \/ AppendFails \/ JournalSyncFails \/ ShrinkFails
            \/ SettleFails \/ ClearFails \/ OpenFails
            \/ \E i \in Chunk : \E v \in {base.data[i], ov.page[i], Torn} :
                 ApplyFails(i, v)
            \/ \E chunks \in SUBSET Chunk : CopyFails(chunks)

Next == Client \/ WriteBack \/ Recovery \/ Failure \/ Crash
Spec == Init /\ [][Next]_vars

-----------------------------------------------------------------------------
(* Properties *)

TypeOK ==
  /\ mode \in {"closed", "open", "memory"}
  /\ step \in {"idle", "txn", "cut", "append", "journalsync", "apply",
               "settle", "checkpoint", "clear", "copy", "letgo", "replay",
               "replaysync", "replayclear"}
  /\ caller \in {"none", "commit", "flush", "close", "closing", "detach",
                 "detaching", "attach", "open"}
  /\ ov \in Overlay
  /\ dirty \subseteq Chunk /\ stored \in Size /\ rc \in {"ok", "error"}
  /\ used \in 0 .. MaxRecords /\ salt \in Salts \union {0}
  /\ todo \subseteq Chunk /\ at \in 0 .. MaxRecords + 1
  /\ base \in File
  /\ baseLeft \in [size : SUBSET Size, data : [Chunk -> SUBSET Nat]]
  /\ journal \in [Slot -> Record \union {Empty}]
  /\ journalLeft \in [Slot -> SUBSET (Record \union {Empty})]
  /\ touched \subseteq Chunk /\ txn \in 0 .. MaxTxn
  /\ committed \in File /\ allowed \subseteq File

(* What a connection reads when no transaction is open: the overlay's      *)
(* pages over the base file, at every step of a write-back or a detach.    *)
Seen == IF step \in {"txn", "cut"} THEN committed ELSE Content(ov, base)

(* Nothing a write-back, a failure of it, a rollback, a detach or an       *)
(* attach does changes what the database reads: always the last commit.    *)
ReadsLastCommit == mode # "closed" => Seen = committed

(* A write-back that succeeded (rcWrite, which sqlite3_overlay_flush       *)
(* returns) leaves only the last commit to be found in the file, whatever  *)
(* is lost from now on.                                                    *)
FlushedIsStored == Idle /\ mode = "open" /\ rc = "ok" => allowed = {committed}

(* "Opening the base replays the journal, so after a crash the base again  *)
(* holds the last commit": when recovery is done, the file holds one of    *)
(* the commits it may be found with.                                       *)
RecoversACommit == step = "replayclear" => base \in allowed

(* The file always holds one of the commits it was given, the last one if  *)
(* that was stored.                                                        *)
Durable == INSTANCE DurableFile WITH
  status <- mode, content <- IF mode = "closed" THEN NoFile ELSE Seen,
  may <- allowed
ImplementsDurableFile == Durable!Spec

=============================================================================
