# Verification of sqlite-wasm

TLA+ models of this repository: the copy-on-write VFS (`src/src/overlay.c`),
the storages on top of it (`src/src/opfs.ts`, `src/src/indexeddb.ts`,
`src/src/snapshots.ts`) and the objects a program holds (`src/src/Database.ts`,
`src/src/Statement.ts`), with TLC configurations and proofs for TLAPS. SQLite
itself (its B-trees, pager and SQL) is external: it is modelled as far as it
drives the VFS and answers calls.

- [The system](#the-system)
- [The modules](#the-modules)
- [The runs](#the-runs)
- [Where the code and its documentation differ](#where-the-code-and-its-documentation-differ)
- [Fairness](#fairness)
- [The proofs](#the-proofs)
- [What is only model-checked, and what is not modelled](#what-is-only-model-checked-and-what-is-not-modelled)
- [Plan](#plan)

## The system

SQLite runs as WebAssembly, single-threaded in a page or Worker, or natively
with threads. Every database is an *overlay*: a table of copy-on-write pages
over an optional base file. Where it is kept decides what happens at a commit.

| Component | State | Operations | What makes it correct |
| --- | --- | --- | --- |
| `overlay.c`: pages | `Overlay`: `szFile`, `szVisible`, `apPage`, `pHead`; pages with a reference count | `ovRead`, `ovWrite`, `ovTruncate`, `ovPageForWrite`, `sqlite3_overlay_pages`, `sqlite3_overlay_rebase` | an overlay and its forks never see each other's writes; a page is freed once, by its last user |
| `overlay.c`: locks | `nShared`, `pWriter`, `eWriter`, `OvFile.eLock` | `ovLock`, `ovUnlock`, `ovOpenMain`, `ovCreateLocked` (`from=`), `ovClose` | a reader sees one commit; a writer gets in |
| `overlay.c`: writable base | `aiDirty`, `szStored`, `iJournal`, `nSeq`, salt, `rcWrite`; the base file and its redo journal | `ovWriteBack`, `ovAppendJournal`, `ovCheckpoint`, `ovRecover`, attach, detach, flush, close | the file always holds a commit, once stored the last one; readers see the last commit whatever failed |
| `overlay.c`: borrowers | `bBorrowed`, `pBorrowed` of snapshots that read a stored file | `ovPreserveLocked`, `ovReleaseBorrowersLocked`, `ovUnborrow` | a snapshot keeps its point-in-time view |
| `indexeddb.ts` | `pending`, `scheduled`, `writing`, `size`, `closed` of `IndexedDBPersistence`; `names` | commit hook, `write`, `flush`, `close`, `store`, `delete`; `sync`, `attach`, `detach` in `Database.ts` | IndexedDB holds a commit, whole; what was flushed is in it; every call is answered |
| `opfs.ts`: `FileStorage` | the names that are active in a Worker, the two `SyncFile`s of a database, `FilePersistence.error` | `sync`, `attach`, `detach`, `close`, `flush`, `delete`, each await a step | files are open exactly while a database needs them; the file opens as the last commit that was stored, or a newer one that failed to be; a loss is reported |
| `opfs.ts`: `Files` | `ids`, `files`, `handles`: what SQLite may open, and the handles it has | `add`, `open`, `close`, `remove`, `openHandles` | a file is let go of when its last reader closes, and then |
| `snapshots.ts`: stores | a file and metadata per key, or one record; Web Locks | `get`, `write`, `remove`, `list` | a stored delta lies over the snapshot it was written over |
| `snapshots.ts`: `SnapshotStorage` | registered files and their read locks, `Base` of a database | `open`, `resolve`, `write`, `existing`, `retain` | what a database reads is not deleted; a saved snapshot reads as the database did |
| `snapshots.ts`: `Session` | the queue of saves; `timer`, `saving`, `again`, `stopped` of autosave | `save`, `#autoSave`, `close` | moving onto what was saved changes nothing; no commit is forgotten; nothing is saved after the end |
| `snapshots.ts`: `readOnlyFile` | a cache of blocks, where the previous read ended | `read`, `block` | a read returns the bytes of the file; the cache is bounded |
| `Database.ts` | `statements`, `functions`, the commit watch | `prepare`, `run`, `create_function`, `inTransaction`, `close` | nothing of SQLite is used after it is freed, nor the other way round |
| `Statement.ts` | `stmt`, `allocatedmem`, `columnNames` | `bind`, `step`, `reset`, `free`, `getAsObject` | parameters stay in memory while bound; names are those of the row |
| bridge, `jsvfs.c`, `native.ts`, loading | handles | conversions between C and JavaScript | no state of their own |

How they interact. A commit of SQLite ends in `ovFileControl`
(`COMMIT_PHASETWO`), which writes back to a base file (OPFS, node) or reports
the dirty chunks to the commit hook, from where `Database.onCommit` passes them
to `IndexedDBPersistence`. `SnapshotStorage` opens a database *on* a read-only
base (a Blob, behind a file that is registered with the bridge), forks it when
it is saved, and moves it onto the new snapshot by `sqlite3_overlay_rebase`.
Workers share nothing but the store (OPFS or IndexedDB) and Web Locks; threads
of a native build share overlays under `gMutex`.

What is hard about it: a crash between any two writes to a file and its
journal; a failed write, after which memory and disk differ until the next one;
batches that are merged while an older one is being written; snapshots that
read a file while it is replaced; Workers whose multi-step operations
interleave; an overlay that is written, cut and grown again while the snapshot
of an earlier state is stored; a commit ended by whatever statement is reset
last, while a save runs and timers are due; two lifetimes, of JavaScript's
objects and SQLite's, that refer to each other by address. `PROJECT.json` lists
the hazards, each at its line with the properties that would catch it.

## The modules

| Module | Models | Notes |
| --- | --- | --- |
| `OverlayPages` | the page table of `overlay.c`, without state | operators from records to records, which the next three share |
| `RedoJournal` | a writable base file, its redo journal and the disk | `ovMarkDirty` to `ovRecover`, attach, detach, flush, close |
| `DurableFile` | what storing a database in a file promises | abstract; `RedoJournal` implements it |
| `Borrowers` | snapshots that read a stored file | the write-back of `RedoJournal` without journal and crashes, and the snapshots |
| `Sessions` | a session: deltas, full snapshots, joins, rebase | what is *in* the snapshots |
| `Snapshots` | Workers, the stores and Web Locks | *when* they are written, opened, deleted |
| `SnapshotStore` | what a store of snapshots promises | abstract; `Snapshots` implements it |
| `OverlayLocks` | locks of connections and sharing of pages between threads | everything between two critical sections of `gMutex` is a step |
| `IdbStorage` | a database in IndexedDB | commit hook, batches, the queue, store and delete |
| `FileStorage` | databases in a file of OPFS | several Workers and databases, one name |
| `BaseFiles` | the files that databases are opened on or moved onto | handles and locks; the calls are synchronous |
| `Connection` | a `Database` and its `Statement`s, against SQLite's | one step per call |
| `AutoSave` | a session that saves by itself | over `Connection`: each of its commits is heard of |
| `ReadOnlyFile` | the cache of blocks of `readOnlyFile` | no run: proved for every size |
| `OverlayPagesProofs`, `RedoJournalProofs`, `BorrowersProofs`, `SessionsProofs` (and `Connection`, `AutoSave`), `SnapshotsProofs` (and `BaseFiles`, `ReadOnlyFile`), `OverlayLocksProofs`, `IdbStorageProofs`, `FileStorageProofs` | | lemmas, the inductive invariants, theorems |
| `MC*` | | symmetry sets and bounds for TLC |

Every page is one chunk, and its content a number: 0 is a page of zeros, other
numbers the transaction that wrote it. Only `IdbStorage` has pages smaller than
a chunk (`PerChunk`), because there a file may end inside one.

**OverlayPages.** A file is a size and a content per chunk; an overlay is its
`szFile` (`size`), `szVisible` (`visible`), page table and the copy of the first
chunk (`head`). `ReadChunk` is `ovRead`; `WriteChunk`, `TruncateTo`, `Preserve`,
`DropStored`, `FillHoles`, `Restore`, `Fill` and `Rebase` are what the functions
named in their comments do to these fields.

**RedoJournal.** `step` is where the running call is, `caller` which call it is
(`ovWriteBack` is reached from a commit, flush, detach, close and attach). One
action per write, sync or truncation, since a crash or a failure may come
between any two; calls are not interleaved, as a connection holds the write
lock. The disk: `base` and `journal` are what a read returns, `baseLeft` and
`journalLeft` what a crash may leave of each chunk, record and size: anything
written since the last sync, half of it (`Torn`), or nothing. `committed` and
`allowed` are history. The constant `Rare` names four kinds of rare behaviour
of the disk and SQLite, none of which the passing run includes; see
[below](#where-the-code-and-its-documentation-differ).

**Borrowers.** `snap[f]` is the overlay of snapshot f, `source[f]` whether it
reads the base file of the stored overlay (`bBorrowed`). Every path on which
that file changes or goes away is there: write-back, detach, close, a failure
of each, and replacing the file by another one afterwards.

**Sessions.** The database, the queue of forks that `save()` made, the snapshot
that the first of them wrote or found (`target`), and the store. `Delta`,
`AsDelta`, `Holds` and `SameLayout` are `newSnapshot`, `holds` and `sameDelta`.
`Others` is any other Worker: it stores and deletes at any time.

**Snapshots.** Per Worker a database and the call under way (`op[w].pc` is what
it awaits). `directorySnapshotStore` writes a snapshot in four steps (an empty
file, metadata, content, done) and removes it in two; `indexedDBSnapshotStore`
does each in one transaction. `Held` and `Removing` are the Web Locks.

**SnapshotStore** knows no steps: a snapshot is put, whole and over one that is
there, or deleted when nothing lies over it, and a database reads whole chains.
`Snapshots` maps the keys whose file is full to what is stored there, and the
chains of the base of a database and of the fork that is saved to what is read.
Without locks (`guarded`) it promises nothing about what is read: a `Blob` stays
readable when its record is deleted.

**OverlayLocks.** One action per critical section of `gMutex`; the copy of a
page and the write to it are outside. The pager's part: it writes with an
EXCLUSIVE lock only, and cuts the file if it got shorter, or rolls back.

**IdbStorage.** `Commit` is a whole transaction with the report of the hook;
`Merge` is how batches are merged; `StartWrite`, `Written` and `WriteFails` are
`IndexedDBPersistence.write` around its `await`; `store` is a `sync()` or
`attach()` that waits for the final write of the database before it.

**FileStorage.** A state of the database is a number; a file is the set of
states it may hold parts of, now (`mixes`) or after a loss of power
(`unsynced`), and the journal says which of these it turns into its newest one.
How it does so is `RedoJournal`; here every `await` of `store()` and `delete()`
is a step, between which other calls, Workers and crashes come. `held`, `ids`,
`files` and `active` are the `SyncFile`s, class `Files` and `activeIn`.
`WriteBack` is a whole `ovWriteBack`, of a commit, `flush()`, `detach()`,
`close()` or `attach()`. It may fail (`NotStored`) before there is a record, with
a record that recovery finds, or with that and a part of the base file written;
so the file may open as the commit that was stored last or as one that failed to
be since. `may`, a history variable, is the set of these. Whether a record that
was not synced survives is chosen when the write-back fails, not when the power
goes.

**BaseFiles.** Class `Files` with its handles, and what opens, forks, moves and
closes the files of snapshots: `openOn`, `SnapshotStorage.write`,
`sqlite3_overlay_rebase`. `on[c]` is the label and handle of the base that a
connection reads, `files.released` the labels whose callback was called, which
gives the read locks back. It justifies what `Snapshots` takes for granted: a
Worker holds the locks of a snapshot exactly while a database reads it.

**Connection.** `vdbe` is SQLite's side: statements by address, which SQLite
gives out again when they are freed. `stmt`, `statements`, `bound`, `mem` and
`names` are JavaScript's. The transaction is modelled as far as `Database` asks
for it, and as it decides which call ends a commit: outside BEGIN, the end of
the last statement that writes.

**AutoSave.** EXTENDS `Connection`, and adds the two timers, the save under way
and the run put off until it ends. A save ends as `saved`, as `mismatch` (it
resolves, but the key holds other content and nothing was stored) or as
`failed`. `skipped` collects why the last commits may stay unsaved.

**ReadOnlyFile.** `Read` decides between a range and whole blocks; `Copy` reads
a block, keeps it, drops the least recently used and copies what the read wants
of it. `ReadByAnother` is a layer that shares the blocks.

## The runs

| Run | Instance | What it shows |
| --- | --- | --- |
| `redo_journal` | 2 chunks, 2 transactions, 2 records, `OV_JOURNAL_LIMIT` of 1 record, 3 salts | if a step fails, or a crash comes between any two (without the behaviours of `Rare`, [below](#where-the-code-and-its-documentation-differ)), recovery finds a commit (`RecoversACommit`), the last one once stored (`FlushedIsStored`), readers see the last commit (`ReadsLastCommit`), and the module implements `DurableFile` |
| `borrowers` | 2 chunks, 2 snapshots, 1 transaction, symmetric snapshots | snapshots keep their view (`KeepsItsView`), and a read fails only after a copy failed |
| `sessions` | 4 chunks, 2 keys, deltas up to 2 deep, 3 writes, 3 snapshots stored, 2 moves | moving changes nothing, saves and waiting forks hold the state they were called in |
| `snapshots` | 2 Workers, 3 keys, 3 snapshots written, deltas 1 deep, 1 crash, both stores | no step of one Worker leaves another with a snapshot it cannot read, and the module implements `SnapshotStore` |
| `snapshots_answers` | the same with 2 keys, OPFS only, no symmetry | every open, save and retain ends |
| `overlay_locks` | 3 connections, 2 overlays, 2 chunks, 6 pages, 2 transactions | one commit per reader, isolated forks, counted pages and locks; writers get in |
| `idb_storage` | 3 chunks, 3 commits of at most 2 pages, 1 crash | what is stored is a whole commit; what was flushed is in it; nothing waits forever unscheduled |
| `idb_answers` | 2 chunks of 2 pages, 2 commits, the hook may fail | the same with files that end inside a chunk; flush, store and delete are answered |
| `files` | 2 Workers, 2 databases, 2 commits, 2 faults (a write-back that fails, Workers that end), symmetric | files are released on every path (`FilesAreReleased`), the file opens as the last commit that was stored or a newer one that failed to be (`OpensTheLastCommit`), what is lost on leaving is reported (`LossIsReported`) |
| `autosave` | 2 `Statement` objects, 1 address, 2 commits | nothing refers to what is gone (`NothingDangles`), rows are read under their names, a closed database is gone, no commit is forgotten (`CommitsSettle`), nothing is saved after the end |
| `base_files` | 4 connections, 5 files, symmetric | a file keeps its locks exactly while a connection reads it (`ReadersKeepTheFile`, `UnreadIsReleased`) |
| `retain_doc` | 2 Workers, 3 keys, no crash | a counterexample, see below |

Why the bounds are enough to be of interest. Two chunks let a write-back be
half done, a file be cut to a part and grow, and chunk 0, which has a copy in
memory, differ from the others; three in `IdbStorage` and four in `Sessions` let
a file grow *past* a hole after it was cut. Two records and a limit of one
record let the journal be appended to, left over from an earlier generation,
and cleared, and two transactions let one fail and the next follow. Two
snapshots in `Borrowers` let one be taken of the other. Two Workers are a
reader or writer and a deleter; three keys are a chain of two and the snapshot
over it, or a key that is used again. In `Sessions`, one session is compared
with any behaviour of others. In `overlay_locks`, three connections are a writer,
one that reads and one that wants to, or two forks that write at once and one
that is taken meanwhile; two transactions let a file be cut by the second, and
grow again when it is rolled back. Six pages are enough for two overlays of two
chunks and a copy in each of two writers, so memory never runs out there. More
threads and overlays are left to the proofs.

In `files`, two Workers and two databases let a name be deleted in one Worker
while the other stores it, or be attached and synced at once in one; two commits
make a mix, and two faults let a crash come after a recovery, or after a
write-back that failed, or two write-backs of one commit fail. In `autosave`,
two `Statement` objects and one address let an address be used again, by another
object, after it was freed; two live statements at once are left to the proofs,
which hold for any number. Two commits let one come while the save of the other
runs. In `base_files`, four connections are a database, the snapshot that is
saved, one that waits and one that reads another file; five files let it move
twice and have files of `FileStorage` between them.

Each property has a mutant of a mapped definition that violates it under the
same bounds (`PROJECT.json`, "mutants"), so that no property holds for lack of
the case it is about.

Every cfg checks deadlock but two: in `sessions`, nothing is left to do once the
bounds on writes, moves and snapshots are used up and the database is closed; in
`base_files`, once all files are registered and every connection is kept by a
statement.

## Where the code and its documentation differ

One run ends in a counterexample, on purpose. `retain_doc`: `retain` decides
from a list it read once; a snapshot that was being written then, and is the
head of its branch by now, is deleted when the database that saved it has closed
(`snapshots.ts:1942`), while `README.md:69` and `snapshots.ts:1894` (on `retain`) say that each
branch keeps its head.

Other places where a property needs an exception, each named in the model:

- `RedoJournal` takes a set `Rare` of behaviours of the disk and SQLite, empty in
  the passing run. Each of them, put into `Rare`, gives a counterexample:
  - `clear`: clearing the journal's header reports an error after it took
    effect, so later records are appended behind a header that recovery does
    not find (`overlay.c:936`).
  - `cache`: recovery writes a record it read, but never synced, to the base
    file. If the power goes during that, a part of the record is in the base
    file and the record itself is gone (`overlay.c:1064`).
  - `leaf`: a commit cut the file, its write-back failed, and the next commit
    grows the file again over a page that SQLite never writes (a freed leaf);
    the old bytes of the base file show there. SQLite does not read such a page,
    so no row is wrong, but `ReadsLastCommit` and `RecoversACommit` compare all
    pages (`overlay.c:999`; three chunks).
  - `growth`: a write-back that failed after it made the base file longer leaves
    `szStored` behind, so that the next commit, if smaller, does not cut it: the
    file holds a commit and pages past its end, which violates `RecoversACommit`
    (`overlay.c:967`; a `JournalLimit` of 0).
- `IdbStorage`, `HookFails`: the commit hook fails for want of memory, the commit
  stands, and a `flush()` meanwhile resolves although that commit is not stored;
  it goes with the next report (`overlay.c:1290`). `idb_storage`, which checks
  `FlushedMeansStored`, leaves this out; `idb_answers` has it.
- `FileStorage`, `torn`: `delete()` takes the file and then the journal
  (`opfs.ts:391`). Where it ends in between, or another Worker stores the name
  again meanwhile, the old journal is replayed onto the new file, although
  `README.md:406` says of opening that the database "always holds the last
  commit". `OpensTheLastCommit` excepts these states (`torn`, and `Overtakes`
  while the call is between the two); without the exception TLC finds it
  violated. So nothing here checks what such a file opens as.
- `FileStorage`, `may`: a commit whose write-back failed, or a database whose
  `attach()` was rejected, may be what the next open finds, since its record may
  be in the journal (`overlay.c:958`, `1822`; the comment at `overlay.c:1783`
  says so of attach). `OpensTheLastCommit` allows these states. What `Rare`
  leaves out of `RedoJournal` (`clear`, `cache`, `growth`) is left out of
  `FileStorage` too.
- `AutoSave`, `skipped`: a timer that fires in a transaction does not save;
  `README.md:183` says "the commit that ends it counts", but a transaction that
  rolls back, or only reads, ends with no commit, and what was committed before
  waits for the next (`snapshots.ts:2089`). And a save whose key holds other
  content resolves with the status `mismatch` (`snapshots.ts:1806`,
  `README.md:140`), which `#autoSave` neither reports to `onError` nor tries
  again (`snapshots.ts:2101`). `CommitsSettle` excepts both, besides a missing
  key and a failure that is reported.
- `Connection`, `failed`: the cached names of columns "cannot change until the
  statement is reset" (`Statement.ts:275`) - but a statement whose step failed
  starts over at the next step without a reset, and its names may be those of
  an older schema.
- `Connection`, `leaked`: `prepare` and `exec` bind before they list the
  statement (`Database.ts:645`). If a value does not bind, SQLite keeps the
  statement, and so the database, after `close()`; `README.md:264` says that a
  file "closes once the database and its forks are closed".
- `Connection`, `CreateFunction`: the slot of the old function is given back
  before SQLite takes the new one, and SQLite may refuse. That the old function
  is called no more then rests on the slot being the next that is given out;
  `NothingDangles` holds because of this, as its mutant shows.
- `SnapshotStorage.session` says it refuses "a database stored elsewhere"
  (`snapshots.ts:1739`). It tells by `db.persistence`, which `detach()` leaves
  set, so that a detached database is refused too. No module says so.
- `BaseFiles`, `RebaseFails`: if the database cannot move and the first save
  that waits fails to move as well, SQLite closes the file it opened for it,
  which is gone then for those that wait behind it: they stay on the snapshot
  they read. `ReadersKeepTheFile` holds with it, as do the properties of
  `Sessions`, where each move may fail.

## Fairness

Safety needs none, and `RedoJournal`, `Borrowers`, `Sessions`, `FileStorage`,
`Connection`, `ReadOnlyFile` and `BaseFiles` state none.

- `IdbStorage`: weak fairness on `StartWrite`, on the end of a write (success
  or failure), on the end of a store and on `Deleted`. These are promise
  continuations and IndexedDB requests, which the browser runs and settles; no
  success is assumed, and nothing of the program that uses the library.
- `Snapshots`: weak fairness on `Continue(w)`, the step the call of a Worker is
  at: awaits of the program and of the browser end. A Web Lock that is asked for
  is queued, and granted when the other Worker lets go of it; the only exclusive
  locks that a call waits for are the write locks of a key, one at a time. Calls
  (`Call(w)`) are never assumed.
- `OverlayLocks`: weak fairness on the end of a read and on a writer's next
  attempt to get its lock. SQLite's busy handler retries, and reads are
  statements that end. That a writer releases its lock is not assumed.
- `AutoSave`: weak fairness on `TimerFires`, `CheckFires` and `SaveEnds`: the
  browser fires timers, and a save ends, well or not. Nothing is assumed of the
  database, so a transaction may stay open.

## The proofs

`OverlayPagesProofs` states what the operators of `OverlayPages` return, and
two theorems about moving a database onto a snapshot:

- `RebaseChangesNothing`: over the file that holds what the snapshot read, the
  overlay reads what it read over its old base, for every overlay, snapshot and
  base with the same copy of the first chunk, whatever was written, cut or
  grown in either. The proof goes chunk by chunk: a chunk below both ends reads
  the snapshot's, so it may be dropped if both hold the same page, may stay
  unheld if both read the base alike, and was filled otherwise; a chunk beyond
  reads as zeros, so it was filled if the overlay could see the base there.
- `FailedRebaseChangesNothing`: a rebase that fails after it copied some of
  these chunks leaves the overlay reading what it read.

`BorrowersProofs` proves, for any number of chunks, snapshots and transactions:

- `TypeCorrect`: `Spec => []TypeOK`.
- `Invariant`: `Spec => []IInv`, the inductive invariant.
- `SnapshotsKeepTheirView`: `Spec => []KeepsItsView`.
- `ReadsFailOnlyAfterAFailedCopy`: `Spec => []FailsOnlyIfCopyFailed`.
- `MainKeepsItsCommit`: `Spec => []MainReadsLastCommit`.

`KeepsItsView` alone is not inductive: a step of a write-back replaces a chunk
of the base file, and a snapshot that reads it there keeps its view only if it
got a copy before. `IInv` says how far a call is:

- `StepInv`: which steps belong to which call, and that nothing is journaled by
  SQLite outside a transaction;
- `BaseInv`: the base file reads as zeros past its end;
- `MainInv`: the stored overlay reads its last commit, in a transaction every
  chunk that was not journaled; its file has no holes (`NoHoles`), or a chunk
  that nobody holds would read from the base once it is visible there;
- `ApplyInv`: each dirty chunk is held in memory (`DirtyHeld`) and is still to
  be written or in the base file already, which is what lets `Settle` drop it;
- `PreservedInv`: while chunks are written, every snapshot holds those that
  change;
- `SourceInv`: a snapshot reads the file only while it is open, and one that
  was cut off from it without a failed copy reads nothing of it.

`FailsOnlyIfCopyFailed` and `MainReadsLastCommit` follow from these. The proof
that a step preserves `IInv` has one lemma per group of actions, and a step per
conjunct that an action disturbs; the type part is proved first and used in all
of them. The assumptions are `NAssumption` (there is a chunk), `NoPageAssumption`
(NULL is no content) and `ForkAssumption` (what a snapshot writes itself is told
apart from what transactions write); TLC evaluates them in every run of a module
that extends `OverlayPages` or `Borrowers`.

`OverlayLocksProofs` proves every invariant of `overlay_locks`, for any number of
threads, overlays, chunks and pages: `LockCountsAreRight` (`LocksAreCounted`),
`ReadersAreStable` (`ReadersSeeOneCommit`), `ForksKeepToThemselves`
(`ForksAreIsolated`), `PageCountsAreRight` (`PagesAreCounted`) and
`TypeCorrect`. The invariant has two halves. `LockInv` is about the locks alone:
the counts (`CountInv`), that `pWriter` and `eWriter` tell who writes
(`WriterInv`), and that who writes the file has the only lock (`AloneInv`),
which needs the counts: an EXCLUSIVE lock is given when `nShared` is 1. `PageInv`
is about the pages, given `LockInv`:

- `OpInv`: the page a write goes to is counted once, so it is in one place: the
  writer's hand or its own page table (`HeldOnce`). That is why the write, which
  happens outside `gMutex`, shows in no other overlay, and why no fork may be
  taken between PENDING and the unlock: it would share that page;
- `EndInv`: past its end an overlay has no page, but for one whose write is about
  to make the file longer; or a file that was cut and grows again would read
  what it held before;
- `SettledInv`: a file reads as the last commit, or, while it is written, each of
  its chunks that is not still to be written as the writer planned it. With
  `TailInv` (files of the history are zeros past their ends) and the size that
  the pager checks, an unlock makes the plan the commit;
- `ViewInv`: what a connection with a lock read is still the last commit;
- `PagesAreCounted` itself, and `EmptyInv`, that an overlay nobody uses has no
  pages.

The assumptions are `NoneAssumption` (NULL is no connection, overlay or page),
`FiniteAssumption` (threads and overlays are finitely many, or a cardinality
would not be a number; pages need not be) and `NAssumption` (there is a chunk).
The pages that a cut lets go of (`PagesDropped`) serve `Truncate` and the last
`Close` alike.

`SnapshotsProofs` proves the properties of `snapshots`, for both kinds of store
and any number of Workers, keys, branches and layers: `ChainsStayWhole`
(`ChainsAreWhole`), `ReadersStaySafe` (`ReadersKeepTheirFiles`) and
`StoreIsAtomic` (`ImplementsSnapshotStore`); and, what no run checks, that
everything keeps its type (`TypeCorrect`). The invariant has a part per call, `CallInv`, and one
about the locks:

- `LockInv`: who deletes a snapshot is alone with it, so that nobody holds or
  reads its key, and who writes one is the only writer. `LockStep` shows that this
  holds whatever a step does that takes only locks it is given (`Locks`);
- `HeldInv`: a call holds the key that it reads or writes, and every layer it has
  found; `StepInv`: which steps have a key, and that a base names a snapshot it
  reads (`Named`), so that the parent of a delta is held;
- `WriteInv`: how far a save or a removal got. The file is empty while it is
  written, and the metadata are its own when the content appears. While a snapshot
  is deleted nothing whole lies over it: `LiesOver` is asked once, and a save that
  begins later would have to hold the key;
- `ReadInv`: with locks, all layers that are read, saved or resolved, and what a
  save has just written, stand as they were. It contains `ReadersKeepTheirFiles`.

A step that leaves the store alone keeps all this of other Workers (`QuietStep`).
One that changes it changes a key that is not whole, or that it may remove
(`Alters`): nothing lies over that (`NothingLiesOver`), nobody reads it
(`NobodyReads`), and no other call writes or deletes it (`Alone`), which gives
`StoreStep`. The assumptions are `NoneAssumption` and `LockingsAssumption`.

The refinement needs a second invariant, `LinkInv`: what a layer lies over is in
the chain as well (`Linked`) - or, while a chain is being resolved, is the
snapshot that is looked for. That this is the one the layer was written over,
and not another under its key, is `ChainsAreWhole` (`FoundIsLinked`). Only these
chains, the one of a save that is done, or the old one come to be read
(`ReadsWhole`). Of the steps that write, `Touching` shows that each either makes
a snapshot readable, or ends it, and then leaves what is read as it is, or does
neither: they are `Put`, `Delete` and `Read` of `SnapshotStore`.

`SessionsProofs` proves all invariants of `sessions`, for any number of chunks,
keys, waiting saves, moves and layers, and whatever other Workers store and
delete meanwhile: `TypeCorrect`, `DatabasesReadWhatWasWritten`
(`MovesChangeNothing`), `WaitingSavesKeepTheirState`
(`WaitingForksKeepTheirState`) and `SavesLeaveTheirState`
(`SavesHoldTheirState`). What a snapshot reads, `Load`, is recursive over the
chain of deltas. `StoreInv` says that a delta lies over an older snapshot that is
there (`Ranked`), so that the recursion ends: the function exists for all
snapshots up to a time if it does for those before (`LoadExists`, by the least
time for which it would not), and a snapshot that nothing lies over may come or
go without a change to what the others read (`OthersLoadTheSame`). The rest of
the invariant:

- `ReadersInv`: the database and each waiting fork read what they should over
  their base, and the base is a snapshot that was stored (`Past`): as long as its
  key has the snapshot of that time, it reads as the file of the base does, which
  is what a delta over it needs;
- `Sound`, of each of them: the base file is zeros past its end, the overlay's
  copy of the first chunk is that of the base, nothing is left past the overlay's
  end, and one that was cut holds the first chunk itself, since every transaction
  writes the header. Without the last, a save that finds no page to store
  (`Unchanged`) could have been cut, and would be taken for the state of its base
  (`UnchangedReads`);
- `TargetInv`: what the first save wrote or found reads as its fork does. This is
  what `RebaseChangesNothing` asks of the file that the database and the other
  forks move onto; `FailedRebaseChangesNothing` serves the moves that fail;
- `ResultsInv`: what a save left reads as it should, if it is still there.

That a delta (`DeltaReads`), a full snapshot (`FullReads`) and one that is
joined (`JoinedReads`: `holds` and `sameDelta` compare pages and parents, not
files) read as the fork are lemmas of their own. The assumptions are those of
`OverlayPages`, `NoneAssumption` (NULL is no key) and
`BoundsAssumption`: transactions write chunks and cut to sizes that exist.

Of a connection and its statements, the second part of `SessionsProofs` proves,
for any number of `Statement` objects and addresses, `NothingDangles`, `RowsHaveTheirNames` and
`ClosedIsGone`. Their invariant, `ConnInv`, adds to them the types, `NamesInv`
(names that are known are those of a statement that *has* a row: the step that
ends it, a reset or a failure drops or marks them) and `ListedInv` (while no
binding failed, each live statement of SQLite is in `Database.statements`, so
`close()` finds it). There is a lemma per group of actions; `FreedKeeps`, about
freeing any set of statements, serves `free()` and `close()`. `AutoSave` implements
`Connection` (`AutoSaveOnlyWatches`), hence `NothingDangles` under it, and nothing
is saved after the end (`NoSaveAfterTheEnd`). The assumption about
addresses is `PtrAssumption`: none of them is 0.

Of `ReadOnlyFile`, the second part of `SnapshotsProofs` proves `ReadsReturnTheFile`
and `CacheStaysBounded` for every file, block size and capacity; this is why the module has no run. The
invariant: a block that is kept is that part of the file, and while a read is
under way, its buffer holds the bytes up to the block that is next. The only
assumption is `Sizes`: a file has a size, a block has at least one byte, and a
capacity may be zero. It is the hypothesis of the two theorems.

Of `BaseFiles`, that part proves `ReadersAreHeld` (`ReadersKeepTheFile`) and
`NothingStaysHeld` (`UnreadIsReleased`), for any number of connections and files. `Good` says that the maps of class `Files` agree
(`PairInv`), that each connection reads a registered file (`OnFileInv`), and that
the count of a file is the number of those who read it (`CountInv`), the only
fact that needs cardinalities. `Opens` and `Closes` say what a handle more or
less does to it, and `After` what becomes of other labels. `UsedInv` is what
makes locks come back: only the label of the call under way is registered
without a reader. A move opens the new file before it closes the old one;
`Commute` says that this is as good as the other order, so that `Closes` and
`Opens` serve it too. The assumption is `MaxFilesAssumption`.

`FileStorageProofs` proves `NothingStaysOpen` (`FilesAreReleased`),
`LossesAreReported` and `AlwaysOpensTheLastCommit` (`OpensTheLastCommit`), for
any number of Workers, databases and commits. `OneInv` is the heart of the
first: of a Worker at most one database is stored or in a call of `store()`,
since `active` holds its Worker; so `Files.remove`, which goes by name, removes
what this database registered and nothing else (`IdsInv`). The rest says what
is open and registered in each state of a database. For the last one, `DataInv`
and `DiskInv` say what the files may be, and that a file that is open is there;
`KeptInv`, what the property alone does not tell, is about all that a loss of
power may leave: for one of the states in `may`, either the journal holds no
record, and nothing but this state can be found in the file, or it holds a record
that ends at this state and begins at everything else that can be found
(`Holds`). It excepts what the property excepts, a journal that `delete()` left
behind. Each outcome of a write-back keeps it (`WriteBackHolds`): one that failed
before its record leaves the file as it was, and with the record the file holds
the state of that (`RecordHolds`, `HalfWrittenHolds`), because a record covers
every state that the file mixes (`Reaches`).

`IdbStorageProofs` proves the four invariants of `idb_storage`, for chunks of any
number of pages, files of any number of chunks, and any number of commits,
failed writes, failed reports and crashes: `TypeCorrect`, `AlwaysACommit`
(`StoredIsACommit`), `FlushKeepsItsPromise` (`FlushedMeansStored`) and
`NothingIsLeftBehind` (`QuietMeansStored`). Let `Base` be what is stored once the
write under way is done, and `Total` once all that is queued is. Batches that
are merged do what they would one after the other (`OverMerge`, `ThenMerge`), so
a write that fails, and is put back in front of what came meanwhile, changes
neither. The invariant:

- `StoreInv`: what is stored, `Base` and, unless the queue is done for good,
  `Total` are each one commit with nothing beyond its end (`Exact`);
- `LinkInv`: the committed file differs from `Total`, cut where the next report
  will cut it (`Cut`), only in dirty chunks. This is what makes a report whole
  after others failed, after a rollback and after a cut in the middle of a chunk:
  the chunk that a file ends in counts as dirty (`CutFurther`), and a dirty chunk
  past the end need not be reported, for it is cut or was past the end of `Total`
  as well (`ReportIsTheFile`);
- `QueueInv`: a write is under way exactly while its batch is not empty, and
  while it runs, what is pending is queued;
- `OrderInv` and `FlushInv`: what is stored, written and pending is of ever later
  commits, and a `flush()` waits for a write of all that was reported before.

The assumptions are `NAssumption`, `PerChunkAssumption` and `HookFailsAssumption`:
there is a chunk, it has a page, and the hook may fail or not. The induction-free
facts about `\div` are at the front; `LargestPage` needs that `Nat` is well-founded.

`RedoJournalProofs` is the longest. It proves all invariants of its run, for
files of any number of chunks, journals of any length and any number of
transactions, and the refinement of `DurableFile`. The invariant has three
levels, each of which keeps the ones below:

- `ReadInv` is about memory: where a call is (`Basics`, with the types), that the
  file reads as zeros past its end, that there are no holes, that what is dirty
  is held, that the chunks a write-back is done with are in the base file, and
  that outside a transaction, and in one at every chunk it did not touch, the
  overlay reads its last commit. It gives `TypeCorrect` and
  `AlwaysReadsLastCommit`;
- `StoreInv` adds when the base file and its journal hold the last commit and
  nothing else: what is clean is stored, and no error means no older commit may
  be found. It gives `AlwaysFlushedIsStored`;
- `DiskInv` is about the disk, and about *every* state a crash may leave: the
  records since the last checkpoint are certain and no slot behind them carries
  their salt (`Generation`); the base file is written only where the last record,
  synced, covers it (`Staged`); a chunk that needs no write-back is found again
  from these records (`WriteAhead`); the journal is cleared only over a synced
  base file (`Clearing`); and recovery, at any of its steps, can be begun again
  from what is left and comes to the same file (`Recovering`). It gives `AlwaysRecoversACommit` and, with `allowed`, what
  `DurableFile` calls the states that may be found, `ImplementsDurable`.

`TypeCorrect` needs only `BoundsAssumption` and those of `OverlayPages`. The
others are stated without the rare behaviours that refute them (see above):
`AlwaysReadsLastCommit` and `AlwaysFlushedIsStored` assume that `leaf` is not in
`Rare`, and nothing else of it; what is on the disk assumes that `Rare` is empty,
as in the run.

## What is only model-checked, and what is not modelled

Only model-checked: all liveness (`CallsEnd`, `WritersGetIn`, `FlushSettles`,
`NameSettles`, `CommitsSettle`), which is beyond the prover. Every invariant and
safety property of a passing run is stated by a theorem, the refinements of
`DurableFile` and `SnapshotStore` among them.

Not modelled:

- Memory mapping of a base file (`ovFetch`): a mapping of a read-only base never
  changes, a writable base is never mapped.
- Running out of memory in `overlay.c`, but where it decides what a snapshot
  reads (`Borrowers`), whether a detach succeeds, or whether the hook reports.
- Files that end inside a chunk in `OverlayLocks`: `ovTruncate` writes zeros to
  the last page then, as any write does. They are in the sequential modules.
- The checksum of a journal record: a torn record is `Empty`, so that a torn
  record passes for a whole one is not considered; nor that a random salt of 32
  bits is one that is left in the journal.
- `memorySnapshotStore` (the transactions of `indexedDBSnapshotStore` without
  failures), several branches of one session, `Session.fork`.
- `openOverlay` beyond `openOn`, the file of node (`file.ts`) and its check that
  the file did not change in place: one comparison per read.
- What SQL returns, aggregates and collations, export and import of whole
  databases: the code passes them on to SQLite. A function that calls back into
  its database while a statement runs is SQLite's matter too.
- The bindings (`native.ts`, `sqlite3-bridge.c`, `jsvfs.c`) and loading of the
  module: sequential conversions.

## Plan

Done, in this order: `OverlayPages`, `RedoJournal` with `DurableFile`,
`Borrowers` and its proofs, `IdbStorage`, `Snapshots`, `Sessions`,
`OverlayLocks`, the theorem on rebase; then `FileStorage`, `Connection`,
`AutoSave`, `ReadOnlyFile` and `BaseFiles`, each with its proofs,
`OverlayLocksProofs`, and the proofs of `RedoJournal`, `IdbStorage`,
`OpensTheLastCommit`, `Snapshots` (with `SnapshotStore`) and `Sessions`.

Next:

1. Several branches of one session, and `Session.fork`: a fork shares the files
   its source reads, and saves under keys of its own.
2. That the storages implement one abstract file: `IdbStorage` and `FileStorage`
   as refinements of `DurableFile`, as `RedoJournal` is one.
