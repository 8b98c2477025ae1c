------------------------------ MODULE Borrowers ------------------------------
(***************************************************************************)
(* Snapshots (from=) of an overlay on a writable base file read that same  *)
(* file, through the same handle: src/src/overlay.c, ovCreateLocked and    *)
(* the functions that keep a snapshot's view when the file changes         *)
(* (ovPreserveLocked), goes away (ovReleaseBorrowersLocked) or is no       *)
(* longer wanted (ovUnborrow).                                             *)
(*                                                                         *)
(* The write-back is that of RedoJournal without its journal and without   *)
(* crashes, which no snapshot survives: appending works or fails.          *)
(***************************************************************************)
EXTENDS OverlayPages

CONSTANTS Fork,      \* the snapshots
          MaxTxn,    \* bound: transactions begun on the stored overlay
          Own        \* what a snapshot writes itself

ASSUME ForkAssumption == MaxTxn \in Nat /\ Own \in Nat /\ Own > MaxTxn

VARIABLES
  mode,       \* the stored overlay: "open", "memory" (detached), "closed"
  step,       \* where its running call is, "idle" between calls
  caller,     \* the call the step belongs to
  ov,         \* the stored Overlay
  dirty,      \* aiDirty
  stored,     \* szStored
  base,       \* the base file
  todo,       \* chunks this write-back has still to write
  touched,    \* chunks in SQLite's rollback journal
  txn,        \* number of the transaction: what it writes
  snap,       \* the Overlay of each snapshot
  source,     \* "closed"; "base" (bBorrowed); "memory": no base file
  \* History: the last commit, what each snapshot shall read, and whether
  \* its base was taken away before its chunks were copied.
  committed, view, cutOff

mainVars == <<ov, dirty, stored, base, todo, touched, txn, committed>>
forkVars == <<snap, source, view, cutOff>>
vars == <<mode, step, caller, ov, dirty, stored, base, todo, touched, txn,
          snap, source, committed, view, cutOff>>

Init ==
  /\ mode = "open" /\ step = "idle" /\ caller = "none"
  /\ \E n \in Size : base = [size |-> n, data |-> Cut([i \in Chunk |-> Own], n)]
  /\ ov = Opened(base) /\ stored = base.size /\ committed = base
  /\ dirty = {} /\ todo = {} /\ touched = {} /\ txn = 0
  /\ snap = [f \in Fork |-> EmptyOverlay]
  /\ source = [f \in Fork |-> "closed"]
  /\ view = [f \in Fork |-> NoFile]
  /\ cutOff = [f \in Fork |-> FALSE]

-----------------------------------------------------------------------------
(* Transactions of the stored overlay, as in RedoJournal.                  *)

Begin ==
  /\ step = "idle" /\ mode # "closed" /\ txn < MaxTxn
  /\ txn' = txn + 1 /\ step' = "txn"
  /\ UNCHANGED <<mode, caller, ov, dirty, stored, base, todo, touched,
                 committed, forkVars>>

MarkDirty(chunks) ==
  dirty' = IF mode = "open" THEN dirty \union chunks ELSE dirty

Write(i) ==
  /\ step = "txn" /\ i <= ov.size
  /\ ov' = WriteChunk(ov, i, txn)
  /\ MarkDirty({i})
  /\ touched' = touched \union {i}
  /\ UNCHANGED <<mode, step, caller, stored, base, todo, txn, committed,
                 forkVars>>

Truncate(n) ==
  /\ step = "txn" /\ n < ov.size
  /\ ov' = TruncateTo(ov, n)
  /\ touched' = touched \union {i \in Chunk : n <= i}
  /\ step' = "cut"
  /\ UNCHANGED <<mode, caller, dirty, stored, base, todo, txn, committed,
                 forkVars>>

Commit ==
  /\ step \in {"txn", "cut"}
  /\ committed' = Content(ov, base)
  /\ touched' = {}
  /\ IF mode = "open" THEN step' = "preserve" /\ caller' = "commit"
                      ELSE step' = "idle" /\ UNCHANGED caller
  /\ UNCHANGED <<mode, ov, dirty, stored, base, todo, txn, forkVars>>

Rollback ==
  /\ step \in {"txn", "cut"}
  /\ ov' = Restore(ov, committed, touched)
  /\ MarkDirty({i \in touched : i < committed.size})
  /\ touched' = {} /\ step' = "idle"
  /\ UNCHANGED <<mode, caller, stored, base, todo, txn, committed, forkVars>>

-----------------------------------------------------------------------------
(* Opening and using snapshots.                                            *)

(* Between the steps of a write-back nothing else runs. *)
CanRun == step \in {"idle", "txn", "cut"}

(* ovCreateLocked with from=: the snapshot shares the pages and the first  *)
(* chunk of its source, and the base file if that may change (bChanging).  *)
Snapshot(f) ==
  /\ step = "idle" /\ mode # "closed" /\ source[f] = "closed"
  /\ snap' = [snap EXCEPT ![f] = ov]
  /\ source' = [source EXCEPT ![f] = IF mode = "open" THEN "base" ELSE "memory"]
  /\ view' = [view EXCEPT ![f] = committed]
  /\ cutOff' = [cutOff EXCEPT ![f] = FALSE]
  /\ UNCHANGED <<mode, step, caller, mainVars>>

(* A snapshot of a snapshot. *)
SnapshotOf(f, g) ==
  /\ CanRun /\ source[f] = "closed" /\ source[g] # "closed"
  /\ snap' = [snap EXCEPT ![f] = snap[g]]
  /\ source' = [source EXCEPT ![f] = source[g]]
  /\ view' = [view EXCEPT ![f] = view[g]]
  /\ cutOff' = [cutOff EXCEPT ![f] = cutOff[g]]
  /\ UNCHANGED <<mode, step, caller, mainVars>>

(* A commit of the snapshot itself: it writes a page, or cuts its file.    *)
SnapshotWrite(f, i) ==
  /\ CanRun /\ source[f] # "closed" /\ i <= snap[f].size
  /\ snap' = [snap EXCEPT ![f] = WriteChunk(@, i, Own)]
  /\ view' = [view EXCEPT ![f] =
       [size |-> IF i + 1 > @.size THEN i + 1 ELSE @.size,
        data |-> [@.data EXCEPT ![i] = Own]]]
  /\ UNCHANGED <<mode, step, caller, mainVars, source, cutOff>>

SnapshotTruncate(f, n) ==
  /\ CanRun /\ source[f] # "closed" /\ n < snap[f].size
  /\ snap' = [snap EXCEPT ![f] = TruncateTo(@, n)]
  /\ view' = [view EXCEPT ![f] = [size |-> n, data |-> Cut(@.data, n)]]
  /\ UNCHANGED <<mode, step, caller, mainVars, source, cutOff>>

SnapshotClose(f) ==
  /\ CanRun /\ source[f] # "closed"
  /\ snap' = [snap EXCEPT ![f] = EmptyOverlay]
  /\ source' = [source EXCEPT ![f] = "closed"]
  /\ view' = [view EXCEPT ![f] = NoFile]
  /\ cutOff' = [cutOff EXCEPT ![f] = FALSE]
  /\ UNCHANGED <<mode, step, caller, mainVars>>

(* Mutant of Unborrow: the file is let go of before the chunks are copied. *)
UnborrowUncopied(f) ==
  /\ CanRun /\ source[f] = "base"
  /\ source' = [source EXCEPT ![f] = "memory"]
  /\ UNCHANGED <<mode, step, caller, mainVars, snap, view, cutOff>>

(* ovUnborrow: the snapshot is to be stored elsewhere (a commit hook, or   *)
(* sqlite3_overlay_attach_base).  It copies all it reads from the file and *)
(* lets go of it; if a copy fails it keeps the file.                       *)
Unborrow(f) ==
  /\ CanRun /\ source[f] = "base"
  /\ snap' = [snap EXCEPT ![f] = NoBase(Preserve(@, base, Chunk))]
  /\ source' = [source EXCEPT ![f] = "memory"]
  /\ UNCHANGED <<mode, step, caller, mainVars, view, cutOff>>

UnborrowFails(f, chunks) ==
  /\ CanRun /\ source[f] = "base"
  /\ snap' = [snap EXCEPT ![f] = Preserve(@, base, chunks)]
  /\ UNCHANGED <<mode, step, caller, mainVars, source, view, cutOff>>

-----------------------------------------------------------------------------
(* ovWriteBack *)

Borrower(f) == source[f] = "base"

CallWriteBack(call) ==
  /\ step = "idle" /\ mode = "open"
  /\ step' = "preserve" /\ caller' = call
  /\ UNCHANGED <<mode, mainVars, forkVars>>

(* ovWriteBack returns to its caller. *)
AfterWriteBack ==
  \/ caller \in {"commit", "flush"} /\ step' = "idle" /\ caller' = "none"
  \/ caller = "detach" /\ step' = "copy" /\ UNCHANGED caller
  \/ caller = "close" /\ step' = "release" /\ UNCHANGED caller

NothingToStore ==
  /\ step = "preserve"
  /\ dirty = {} /\ ov.size = stored
  /\ AfterWriteBack
  /\ UNCHANGED <<mode, mainVars, forkVars>>

(* Mutant of Changing: chunks that are cut off are not preserved.          *)
ChangingDirty == dirty

(* The chunks whose content in the file is about to change. *)
Changing ==
  dirty \union IF ov.size < stored THEN {i \in Chunk : ov.size <= i} ELSE {}

(* ovPreserveLocked, then ovAppendJournal. *)
PreserveAndAppend ==
  /\ step = "preserve"
  /\ ~(dirty = {} /\ ov.size = stored)
  /\ snap' = [f \in Fork |-> IF Borrower(f) THEN Preserve(snap[f], base, Changing)
                                            ELSE snap[f]]
  /\ todo' = {i \in dirty : i < ov.size /\ ov.page[i] # NoPage}
  /\ step' = "apply"
  /\ UNCHANGED <<mode, caller, ov, dirty, stored, base, touched, txn,
                 committed, source, view, cutOff>>

(* A copy, or the journal, fails: the file is not touched. *)
PreserveFails(chunks) ==
  /\ step = "preserve"
  /\ ~(dirty = {} /\ ov.size = stored)
  /\ snap' = [f \in Fork |-> IF Borrower(f) THEN Preserve(snap[f], base, chunks)
                                            ELSE snap[f]]
  /\ AfterWriteBack
  /\ UNCHANGED <<mode, mainVars, source, view, cutOff>>

WriteBase(i, v) ==
  base' = [size |-> IF i + 1 > base.size THEN i + 1 ELSE base.size,
           data |-> [base.data EXCEPT ![i] = v]]

Apply(i) ==
  /\ step = "apply" /\ i \in todo /\ ov.page[i] # NoPage
  /\ WriteBase(i, ov.page[i])
  /\ todo' = todo \ {i}
  /\ UNCHANGED <<mode, step, caller, ov, dirty, stored, touched, txn,
                 committed, forkVars>>

(* Mutant of ApplyFails: the pages are dropped although writing failed.    *)
ApplyFailsDropping ==
  /\ step = "apply"
  /\ todo' = {}
  /\ ov' = [ov EXCEPT !.page = NoPages]
  /\ AfterWriteBack
  /\ UNCHANGED <<mode, dirty, stored, base, touched, txn, committed, forkVars>>

ApplyFails ==
  /\ step = "apply"
  /\ todo' = {}
  /\ AfterWriteBack
  /\ UNCHANGED <<mode, ov, dirty, stored, base, touched, txn, committed,
                 forkVars>>

Shrink ==
  /\ step = "apply" /\ todo = {}
  /\ base' = IF ov.size < stored
             THEN [size |-> ov.size, data |-> Cut(base.data, ov.size)]
             ELSE base
  /\ step' = "settle"
  /\ UNCHANGED <<mode, caller, ov, dirty, stored, todo, touched, txn,
                 committed, forkVars>>

Settle ==
  /\ step = "settle"
  /\ ov' = DropStored(ov, dirty)
  /\ stored' = ov.size
  /\ dirty' = {}
  /\ AfterWriteBack
  /\ UNCHANGED <<mode, base, todo, touched, txn, committed, forkVars>>

SettleFails ==
  /\ step = "settle"
  /\ AfterWriteBack
  /\ UNCHANGED <<mode, mainVars, forkVars>>

-----------------------------------------------------------------------------
(* The file is given up. *)

(* sqlite3_overlay_detach_base: it and every snapshot copy all they read.  *)
Detach ==
  /\ step = "copy"
  /\ ov' = NoBase(Preserve(ov, base, 0 .. ov.size - 1))
  /\ snap' = [f \in Fork |->
       IF Borrower(f) THEN NoBase(Preserve(snap[f], base, Chunk))
                      ELSE snap[f]]
  /\ source' = [f \in Fork |-> IF Borrower(f) THEN "memory" ELSE source[f]]
  /\ mode' = "memory" /\ step' = "idle" /\ caller' = "none"
  /\ dirty' = {}
  /\ UNCHANGED <<stored, base, todo, touched, txn, committed, view, cutOff>>

(* A copy fails: everything stays as it was. *)
DetachFails(mine, theirs) ==
  /\ step = "copy"
  /\ ov' = Preserve(ov, base, mine)
  /\ snap' = [f \in Fork |-> IF Borrower(f) THEN Preserve(snap[f], base, theirs)
                                            ELSE snap[f]]
  /\ step' = "idle" /\ caller' = "none"
  /\ UNCHANGED <<mode, dirty, stored, base, todo, touched, txn, committed,
                 source, view, cutOff>>

(* ovReleaseBorrowersLocked when the last connection closes.  A snapshot   *)
(* whose copies fail loses the file all the same: lost holds those.        *)
Close(lost, chunks) ==
  /\ step = "release"
  /\ snap' = [f \in Fork |->
       IF ~Borrower(f) THEN snap[f]
       ELSE IF f \in lost THEN Preserve(snap[f], base, chunks)
       ELSE NoBase(Preserve(snap[f], base, Chunk))]
  /\ source' = [f \in Fork |-> IF Borrower(f) THEN "memory" ELSE source[f]]
  /\ cutOff' = [f \in Fork |-> cutOff[f] \/ (f \in lost /\ Borrower(f))]
  /\ mode' = "closed" /\ step' = "idle" /\ caller' = "none"
  /\ ov' = EmptyOverlay /\ dirty' = {} /\ stored' = 0
  /\ committed' = NoFile
  /\ UNCHANGED <<base, todo, touched, txn, view>>

(* The file of a closed database is removed, or another one put there.     *)
Replace ==
  /\ mode = "closed"
  /\ base' \in {NoFile, [size |-> N, data |-> [i \in Chunk |-> Own]]}
  /\ UNCHANGED <<mode, step, caller, ov, dirty, stored, todo, touched, txn,
                 committed, forkVars>>

(* The file is opened again; snapshots from before have nothing of it.     *)
Open ==
  /\ mode = "closed"
  /\ mode' = "open"
  /\ ov' = Opened(base) /\ stored' = base.size /\ committed' = base
  /\ UNCHANGED <<step, caller, dirty, base, todo, touched, txn, forkVars>>

-----------------------------------------------------------------------------
Client ==
  \/ Begin \/ Commit \/ Rollback \/ Replace \/ Open
  \/ \E i \in Chunk : Write(i)
  \/ \E n \in Size \ {0} : Truncate(n)
  \/ \E call \in {"flush", "detach", "close"} : CallWriteBack(call)
Snapshots ==
  \E f \in Fork :
    \/ Snapshot(f) \/ SnapshotClose(f) \/ Unborrow(f)
    \/ \E g \in Fork : SnapshotOf(f, g)
    \/ \E i \in Chunk : SnapshotWrite(f, i)
    \/ \E n \in Size \ {0} : SnapshotTruncate(f, n)
    \/ \E chunks \in SUBSET Chunk : UnborrowFails(f, chunks)
WriteBack ==
  \/ NothingToStore \/ PreserveAndAppend \/ ApplyFails \/ Shrink \/ Settle
  \/ SettleFails \/ Detach
  \/ \E i \in Chunk : Apply(i)
  \/ \E chunks \in SUBSET Chunk : PreserveFails(chunks)
  \/ \E mine, theirs \in SUBSET Chunk : DetachFails(mine, theirs)
  \/ \E lost \in SUBSET Fork, chunks \in SUBSET Chunk : Close(lost, chunks)

Next == Client \/ Snapshots \/ WriteBack
Spec == Init /\ [][Next]_vars

-----------------------------------------------------------------------------
(* Properties *)

TypeOK ==
  /\ mode \in {"open", "memory", "closed"}
  /\ step \in {"idle", "txn", "cut", "preserve", "apply", "settle", "copy",
               "release"}
  /\ caller \in {"none", "commit", "flush", "detach", "close"}
  /\ ov \in Overlay /\ dirty \subseteq Chunk /\ stored \in Size
  /\ base \in File /\ todo \subseteq Chunk /\ touched \subseteq Chunk
  /\ txn \in 0 .. MaxTxn
  /\ snap \in [Fork -> Overlay]
  /\ source \in [Fork -> {"closed", "base", "memory"}]
  /\ committed \in File /\ view \in [Fork -> File]
  /\ cutOff \in [Fork -> BOOLEAN]

(* ovBaseRead has nothing to read from: SQLITE_IOERR_READ. *)
ReadFails(f, i) ==
  /\ source[f] = "memory"
  /\ snap[f].page[i] = NoPage /\ i < snap[f].visible
  /\ ~(i = 0 /\ snap[f].head # NoPage)

(* "They keep their point-in-time view": at every step of a write-back, of *)
(* a detach or of closing the file they came from, and whatever happens to *)
(* that file later, a chunk of a snapshot reads as it did when it was      *)
(* taken, or as it wrote itself.                                           *)
KeepsItsView ==
  \A f \in Fork : source[f] # "closed" =>
    /\ snap[f].size = view[f].size
    /\ \A i \in 0 .. view[f].size - 1 :
         ReadFails(f, i) \/ ReadChunk(snap[f], base, i) = view[f].data[i]

(* Reads of a snapshot fail only if copying its chunks failed when its     *)
(* base was taken away ("the chunks they lack fail to read").              *)
FailsOnlyIfCopyFailed ==
  \A f \in Fork, i \in Chunk :
    i < snap[f].size /\ ReadFails(f, i) => cutOff[f]

(* The stored overlay reads its last commit, also between the steps of a   *)
(* write-back and after one that failed half way.                          *)
MainReadsLastCommit ==
  mode # "closed" /\ step \notin {"txn", "cut"} => Content(ov, base) = committed
=============================================================================
