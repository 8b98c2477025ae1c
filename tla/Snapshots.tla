------------------------------ MODULE Snapshots ------------------------------
(***************************************************************************)
(* Snapshots shared by several Workers (src/src/snapshots.ts): every       *)
(* Worker has a database that reads a snapshot, saves new ones - in full,  *)
(* or as a delta over the one it reads - and calls retain, which deletes.  *)
(* The Workers share nothing but the store and Web Locks.                  *)
(*                                                                         *)
(* With locking the store is directorySnapshotStore (OPFS): a snapshot is  *)
(* two files, and a read lock on its key keeps retain from deleting it.    *)
(* Without, it is indexedDBSnapshotStore: each of its operations is one    *)
(* transaction, and a Blob stays readable when its record is deleted.      *)
(*                                                                         *)
(* A snapshot is its key and the time it was created at: what is in its    *)
(* pages is the matter of module Sessions.                                 *)
(***************************************************************************)
EXTENDS Integers, FiniteSets

CONSTANTS Worker, Key, Branch,
          None,        \* no key
          Lockings,    \* the kinds of store: with locks, without, or both
          MaxDepth,    \* snapshots a delta may lie over
          MaxTime,     \* bound: snapshots written
          MaxCrashes   \* bound: Workers that end without notice

ASSUME NoneAssumption == None \notin Key
ASSUME LockingsAssumption == Lockings \subseteq BOOLEAN

(* A snapshot file: absent, empty (being written, or writing it failed), or  *)
(* full, with the time it was created at; and the metadata next to it.     *)
(* In IndexedDB they are one record, which is never empty.                 *)
File == [state : {"absent", "empty", "full"}, at : Nat]
Meta == [at : Nat, branch : Branch \union {None}, parent : Key \union {None},
         parentAt : Nat]
NoFile == [state |-> "absent", at |-> 0]
Empty  == [state |-> "empty", at |-> 0]
NoMeta == [at |-> 0, branch |-> None, parent |-> None, parentAt |-> 0]

(* class Base: the snapshots a database reads, the top one first named.     *)
Base == [key : Key \union {None}, at : Nat, branch : Branch \union {None},
         chain : SUBSET (Key \X Nat)]
NoBase == [key |-> None, at |-> 0, branch |-> None, chain |-> {}]
Keys(base) == {layer[1] : layer \in base.chain}

VARIABLES
  main, meta, \* the store: the file, and the metadata, of each key
  db,         \* per Worker: [open, branch, base]
  op,         \* per Worker: the call under way, and what it awaits
  clock,      \* the last time given out
  crashes,    \* Workers that ended
  locking     \* the kind of store, from the start

vars == <<main, meta, db, op, clock, crashes, locking>>
storeVars == <<main, meta>>

Idle == [pc |-> "idle", key |-> None, at |-> 0, delta |-> FALSE,
         from |-> NoBase, held |-> {}, chain |-> {}, top |-> NoBase,
         plan |-> {}, retry |-> FALSE]
Closed == [open |-> FALSE, branch |-> None, base |-> NoBase]

Init ==
  /\ main = [k \in Key |-> NoFile] /\ meta = [k \in Key |-> NoMeta]
  /\ db = [w \in Worker |-> Closed] /\ op = [w \in Worker |-> Idle]
  /\ clock = 0 /\ crashes = 0 /\ locking \in Lockings

(***************************************************************************)
(* Web Locks                                                               *)
(***************************************************************************)
(* Read locks: those of the call under way, and those of files.add, held    *)
(* while the database, or a fork that is saved, reads its base.            *)
Held(w) == op[w].held \union Keys(op[w].from) \union Keys(db[w].base)
Removing(w, k) == op[w].pc \in {"check", "removeMain", "removeMeta"} /\ op[w].key = k

CanHold(k) == locking => \A w \in Worker : ~Removing(w, k)
(* {mode: 'exclusive', ifAvailable: true} *)
Unread(k) == CanHold(k) /\ \A w \in Worker : k \notin Held(w)
(* The write lock of a key, held while the store writes it. *)
CanWrite(k) ==
  \A w \in Worker : ~(op[w].pc \in {"meta", "content", "abort", "abortMeta"}
                      /\ op[w].key = k)

(***************************************************************************)
(* resolve: from a snapshot down to the one that lies over none            *)
(***************************************************************************)
Step(w, new) == op' = [op EXCEPT ![w] = new]
Done(w) == Step(w, Idle)

(* SnapshotStorage.open, of any snapshot: the head, a chosen one or a key. *)
Open(w, k) ==
  /\ ~db[w].open /\ op[w] = Idle
  /\ Step(w, [Idle EXCEPT !.pc = "openHold", !.key = k])
  /\ UNCHANGED <<storeVars, db, clock, crashes>>

Resolving == {"openHold", "joinHold"}
Got(pc) == IF pc = "openHold" THEN "openGet" ELSE "joinGet"

Hold(w) ==
  /\ op[w].pc \in Resolving /\ CanHold(op[w].key)
  /\ Step(w, [op[w] EXCEPT !.pc = Got(@), !.held = @ \union {op[w].key}])
  /\ UNCHANGED <<storeVars, db, clock, crashes>>

(* store.get finds the snapshot the one above was written over.  `at' is the *)
(* time it should have, 0 for the first.                                   *)
Readable(w) ==
  LET k == op[w].key IN
    main[k].state = "full" /\ op[w].at \in {0, main[k].at}

Layer(w) == <<op[w].key, main[op[w].key].at>>
(* What baseOf makes of the layers, once the lowest is found. *)
Resolved(w) ==
  LET k == op[w].key
      top == IF op[w].at = 0
             THEN [key |-> k, at |-> main[k].at, branch |-> meta[k].branch,
                   chain |-> {}]
             ELSE op[w].top
  IN  [top EXCEPT !.chain = op[w].chain \union {Layer(w)}]

GetLayer(w) ==
  /\ op[w].pc \in {"openGet", "joinGet"} /\ Readable(w)
  /\ meta[op[w].key].parent # None
  /\ Step(w, [op[w] EXCEPT
       !.pc = IF @ = "openGet" THEN "openHold" ELSE "joinHold",
       !.key = meta[op[w].key].parent, !.at = meta[op[w].key].parentAt,
       !.chain = @ \union {Layer(w)}, !.top = Resolved(w)])
  /\ UNCHANGED <<storeVars, db, clock, crashes>>

(* Opened: the locks pass to the registered file. *)
GetLast(w) ==
  /\ op[w].pc = "openGet" /\ Readable(w) /\ meta[op[w].key].parent = None
  /\ \E b \in Branch :
       db' = [db EXCEPT ![w] = [open |-> TRUE, branch |-> b, base |-> Resolved(w)]]
  /\ Done(w)
  /\ UNCHANGED <<storeVars, clock, crashes>>

GetMissing(w) ==
  /\ op[w].pc \in {"openGet", "joinGet"} /\ ~Readable(w)
  /\ Done(w)
  /\ UNCHANGED <<storeVars, db, clock, crashes>>

(* Nothing to open, or nothing that opens: an empty database. *)
OpenEmpty(w, b) ==
  /\ ~db[w].open /\ op[w] = Idle
  /\ db' = [db EXCEPT ![w] = [open |-> TRUE, branch |-> b, base |-> NoBase]]
  /\ UNCHANGED <<storeVars, op, clock, crashes>>

Close(w) ==
  /\ db[w].open
  /\ db' = [db EXCEPT ![w] = Closed]
  /\ UNCHANGED <<storeVars, op, clock, crashes>>

(***************************************************************************)
(* Session.save: SnapshotStorage.write and the store's write               *)
(***************************************************************************)
(* newSnapshot: a delta only over a snapshot of the same branch, and while   *)
(* few lie below; whether it is small enough is up to the content.         *)
MayDelta(w) ==
  /\ db[w].base # NoBase /\ db[w].base.branch = db[w].branch
  /\ Cardinality(db[w].base.chain) <= MaxDepth

Save(w, k) ==
  /\ db[w].open /\ op[w] = Idle /\ clock < MaxTime
  /\ \E delta \in IF MayDelta(w) THEN BOOLEAN ELSE {FALSE} :
       Step(w, [Idle EXCEPT !.pc = "saveHold", !.key = k, !.from = db[w].base,
                            !.delta = delta,
                            !.top = [NoBase EXCEPT !.branch = db[w].branch]])
  /\ UNCHANGED <<storeVars, db, clock, crashes>>

SaveHold(w) ==
  /\ op[w].pc = "saveHold" /\ CanHold(op[w].key)
  /\ Step(w, [op[w] EXCEPT !.pc = "write", !.held = {op[w].key}])
  /\ UNCHANGED <<storeVars, db, clock, crashes>>

Exists(w) == main[op[w].key].state = "full"

(* The metadata store.write gives the snapshot, created at time t. *)
NewMeta(w, t) ==
  [at |-> t, branch |-> op[w].top.branch,
   parent   |-> IF op[w].delta THEN op[w].from.key ELSE None,
   parentAt |-> IF op[w].delta THEN op[w].from.at ELSE 0]

ParentThere(w) ==
  op[w].delta => main[op[w].from.key] = [state |-> "full", at |-> op[w].from.at]

(* The directory store, under the write lock: an empty file appears first. *)
WriteCreate(w) ==
  /\ locking /\ op[w].pc = "write" /\ CanWrite(op[w].key) /\ ~Exists(w)
  /\ main' = [main EXCEPT ![op[w].key] = Empty]
  /\ clock' = clock + 1
  /\ Step(w, [op[w] EXCEPT !.pc = "meta", !.at = clock + 1])
  /\ UNCHANGED <<meta, db, crashes>>

WriteMeta(w) ==
  /\ op[w].pc = "meta"
  /\ meta' = [meta EXCEPT ![op[w].key] = NewMeta(w, op[w].at)]
  /\ Step(w, [op[w] EXCEPT !.pc = "content"])
  /\ UNCHANGED <<main, db, clock, crashes>>

(* The writer closes, which shows the content at once. *)
WriteContent(w) ==
  /\ op[w].pc = "content" /\ ParentThere(w)
  /\ main' = [main EXCEPT ![op[w].key] = [state |-> "full", at |-> op[w].at]]
  /\ Step(w, [op[w] EXCEPT !.pc = "move"])
  /\ UNCHANGED <<meta, db, clock, crashes>>

(* Any step may fail, and so does a delta whose parent is missing, which is *)
(* then written in full.                                                   *)
WriteFails(w) ==
  /\ op[w].pc \in {"meta", "content"}
  /\ Step(w, [op[w] EXCEPT !.pc = "abort",
              !.retry = op[w].pc = "content" /\ ~ParentThere(w)])
  /\ UNCHANGED <<storeVars, db, clock, crashes>>

WriteAbort(w) ==
  /\ op[w].pc = "abort"
  /\ main' = [main EXCEPT ![op[w].key] = NoFile]
  /\ Step(w, [op[w] EXCEPT !.pc = "abortMeta"])
  /\ UNCHANGED <<meta, db, clock, crashes>>

WriteAbortMeta(w) ==
  /\ op[w].pc = "abortMeta"
  /\ meta' = [meta EXCEPT ![op[w].key] = NoMeta]
  /\ IF op[w].retry
     THEN Step(w, [op[w] EXCEPT !.pc = "write", !.at = 0, !.delta = FALSE,
                                !.retry = FALSE])
     ELSE Done(w)
  /\ UNCHANGED <<main, db, clock, crashes>>

(* Mutant of WriteRecord: whether the parent is there is not asked. *)
WriteRecordUnasked(w) ==
  /\ ~locking /\ op[w].pc = "write" /\ ~Exists(w)
  /\ clock' = clock + 1
  /\ main' = [main EXCEPT ![op[w].key] = [state |-> "full", at |-> clock']]
  /\ meta' = [meta EXCEPT ![op[w].key] = NewMeta(w, clock')]
  /\ Step(w, [op[w] EXCEPT !.pc = "move", !.at = clock'])
  /\ UNCHANGED <<db, crashes>>

(* The IndexedDB store, in one transaction. *)
WriteRecord(w) ==
  /\ ~locking /\ op[w].pc = "write" /\ ~Exists(w)
  /\ IF ParentThere(w)
     THEN /\ clock' = clock + 1
          /\ main' = [main EXCEPT ![op[w].key] = [state |-> "full", at |-> clock']]
          /\ meta' = [meta EXCEPT ![op[w].key] = NewMeta(w, clock')]
          /\ Step(w, [op[w] EXCEPT !.pc = "move", !.at = clock'])
     ELSE /\ Step(w, [op[w] EXCEPT !.delta = FALSE])
          /\ UNCHANGED <<storeVars, clock>>
  /\ UNCHANGED <<db, crashes>>

(* Mutant of Below: a database on a delta reads, and holds, that alone. *)
BelowAlone(w) == {}

Below(w) == IF op[w].delta THEN op[w].from.chain ELSE {}
Move(w, base) ==
  /\ db' = IF db[w].open /\ db[w].base = op[w].from
           THEN [db EXCEPT ![w].base = base] ELSE db
  /\ Done(w)

(* The database moves onto what it wrote, holding what that lies over; the *)
(* locks of its old base go with the fork that was saved.                  *)
MoveWritten(w) ==
  /\ op[w].pc = "move"
  /\ Move(w, [key |-> op[w].key, at |-> op[w].at, branch |-> op[w].top.branch,
              chain |-> Below(w) \union {<<op[w].key, op[w].at>>}])
  /\ UNCHANGED <<storeVars, clock, crashes>>

(* existing: the key was written already.  The database joins it if it holds *)
(* the same, which is up to its content.                                   *)
WriteFound(w) ==
  /\ op[w].pc = "write" /\ Exists(w) /\ (locking => CanWrite(op[w].key))
  /\ IF op[w].from.key = op[w].key THEN Done(w)
     ELSE Step(w, [op[w] EXCEPT !.pc = "joinHold", !.at = 0])
  /\ UNCHANGED <<storeVars, db, clock, crashes>>

MoveJoined(w) ==
  /\ op[w].pc = "joinGet" /\ Readable(w) /\ meta[op[w].key].parent = None
  /\ \/ Move(w, Resolved(w))
     \/ UNCHANGED db /\ Done(w)
  /\ UNCHANGED <<storeVars, clock, crashes>>

(***************************************************************************)
(* retain                                                                  *)
(***************************************************************************)
Listed == {k \in Key : main[k].state # "absent"}
Full   == {k \in Key : main[k].state = "full"}
Newest(k) == \A j \in Full : meta[j].branch = meta[k].branch => meta[j].at <= meta[k].at

(* The newest of each branch, and what those lie over. *)
Heads == {k \in Full : Newest(k)}
HoldsParents(keys) == \A k \in keys : meta[k].parent \in Listed => meta[k].parent \in keys
Kept == {k \in Listed : \A keys \in SUBSET Listed :
           Heads \subseteq keys /\ HoldsParents(keys) => k \in keys}

(* retain, with one snapshot per branch.  It reads the list once.           *)
Retain(w) ==
  /\ op[w] = Idle
  /\ Listed # Kept
  /\ Step(w, [Idle EXCEPT !.pc = "retain", !.plan = Listed \ Kept])
  /\ UNCHANGED <<storeVars, db, clock, crashes>>

(* Mutant of RetainNext: the read lock is not asked for. *)
RetainNextUnlocked(w) ==
  /\ op[w].pc = "retain"
  /\ IF op[w].plan = {} THEN Done(w)
     ELSE \E k \in op[w].plan :
            Step(w, [op[w] EXCEPT !.plan = @ \ {k}, !.key = k, !.pc = "check"])
  /\ UNCHANGED <<storeVars, db, clock, crashes>>

(* Mutant of RetainNext: waits until nobody reads the snapshot. *)
RetainNextWaiting(w) ==
  /\ op[w].pc = "retain"
  /\ IF op[w].plan = {} THEN Done(w)
     ELSE \E k \in op[w].plan :
            /\ locking => Unread(k)
            /\ Step(w, [op[w] EXCEPT !.plan = @ \ {k}, !.key = k, !.pc = "check"])
  /\ UNCHANGED <<storeVars, db, clock, crashes>>

(* The next snapshot to delete, unless somebody reads or writes it.  The     *)
(* order is by times that come from the clocks of several Workers.         *)
RetainNext(w) ==
  /\ op[w].pc = "retain"
  /\ IF op[w].plan = {} THEN Done(w)
     ELSE \E k \in op[w].plan :
            Step(w, [op[w] EXCEPT !.plan = @ \ {k}, !.key = k,
                     !.pc = IF locking /\ ~Unread(k) THEN @ ELSE "check"])
  /\ UNCHANGED <<storeVars, db, clock, crashes>>

LiesOver(k) == \E j \in Listed : meta[j].parent = k

(* Mutant of RemoveCheck: what lies over the snapshot is not asked. *)
RemoveUnchecked(w) ==
  /\ op[w].pc = "check"
  /\ Step(w, [op[w] EXCEPT !.pc = IF locking THEN "removeMain" ELSE "retain"])
  /\ IF locking THEN UNCHANGED storeVars
     ELSE /\ main' = [main EXCEPT ![op[w].key] = NoFile]
          /\ meta' = [meta EXCEPT ![op[w].key] = NoMeta]
  /\ UNCHANGED <<db, clock, crashes>>

(* store.remove: not while a snapshot lies over it.  The IndexedDB store     *)
(* deletes it in the same transaction.                                     *)
RemoveCheck(w) ==
  /\ op[w].pc = "check"
  /\ Step(w, [op[w] EXCEPT !.pc = IF locking /\ ~LiesOver(op[w].key)
                                  THEN "removeMain" ELSE "retain"])
  /\ IF locking \/ LiesOver(op[w].key) THEN UNCHANGED storeVars
     ELSE /\ main' = [main EXCEPT ![op[w].key] = NoFile]
          /\ meta' = [meta EXCEPT ![op[w].key] = NoMeta]
  /\ UNCHANGED <<db, clock, crashes>>

RemoveMain(w) ==
  /\ op[w].pc = "removeMain"
  /\ main' = [main EXCEPT ![op[w].key] = NoFile]
  /\ Step(w, [op[w] EXCEPT !.pc = "removeMeta"])
  /\ UNCHANGED <<meta, db, clock, crashes>>

RemoveMeta(w) ==
  /\ op[w].pc = "removeMeta"
  /\ meta' = [meta EXCEPT ![op[w].key] = NoMeta]
  /\ Step(w, [op[w] EXCEPT !.pc = "retain"])
  /\ UNCHANGED <<main, db, clock, crashes>>

(* The Worker ends: its locks are released, its files stay as they are. *)
Crash(w) ==
  /\ crashes < MaxCrashes /\ crashes' = crashes + 1
  /\ db' = [db EXCEPT ![w] = Closed] /\ Done(w)
  /\ UNCHANGED <<storeVars, clock>>

Continue(w) ==
  /\ UNCHANGED locking
  /\ \/ Hold(w) \/ GetLayer(w) \/ GetLast(w) \/ GetMissing(w)
     \/ SaveHold(w) \/ WriteCreate(w) \/ WriteMeta(w) \/ WriteContent(w)
     \/ WriteFails(w) \/ WriteAbort(w) \/ WriteAbortMeta(w) \/ WriteRecord(w)
     \/ MoveWritten(w) \/ WriteFound(w) \/ MoveJoined(w)
     \/ RetainNext(w) \/ RemoveCheck(w) \/ RemoveMain(w) \/ RemoveMeta(w)

(* What the program that uses it calls, and the end of a Worker. *)
Call(w) ==
  /\ UNCHANGED locking
  /\ \/ \E k \in Key : Open(w, k) \/ Save(w, k)
     \/ \E b \in Branch : OpenEmpty(w, b)
     \/ Close(w) \/ Retain(w) \/ Crash(w)

Next == \E w \in Worker : Call(w) \/ Continue(w)

Spec == Init /\ [][Next]_vars /\ \A w \in Worker : WF_vars(Continue(w))

(***************************************************************************)
(* Properties                                                              *)
(***************************************************************************)
TypeOK ==
  /\ main \in [Key -> File] /\ meta \in [Key -> Meta]
  /\ clock \in Nat /\ crashes \in Nat /\ locking \in BOOLEAN
  /\ \A w \in Worker :
       /\ db[w].open \in BOOLEAN /\ db[w].branch \in Branch \union {None}
       /\ db[w].base \in Base /\ op[w].from \in Base /\ op[w].top \in Base
       /\ op[w].key \in Key \union {None} /\ op[w].at \in Nat
       /\ op[w].held \in SUBSET Key /\ op[w].plan \in SUBSET Key

(* The file of a snapshot and its metadata belong together, and what it lies *)
(* over is there, whole, and the one it was written over: a save, a retain *)
(* or a Worker that ends between any two steps of another leaves no        *)
(* snapshot that cannot be read (store.write and store.remove).            *)
ChainsAreWhole == \A k \in Full :
  /\ meta[k].at = main[k].at
  /\ meta[k].parent # None =>
       main[meta[k].parent] = [state |-> "full", at |-> meta[k].parentAt]

(* With locks, everything a database reads stays in the store until it is  *)
(* closed: "snapshots a database reads are kept too" (retain).             *)
ReadersKeepTheirFiles == locking =>
  \A w \in Worker : \A layer \in db[w].base.chain \union op[w].from.chain :
    main[layer[1]] = [state |-> "full", at |-> layer[2]]

(* "each branch keeps its newest perBranch" (retain): a snapshot goes only   *)
(* while its branch has a newer one.                                       *)
BranchesKeepTheirHead ==
  [][\A k \in Full : main'[k].state = "absent" => ~Newest(k)]_vars

(* The steps in which a store writes, deletes and resolves, and the locks    *)
(* they take, are as good as whole snapshots that come and go at once, and *)
(* whole chains of them that are read (store.write and store.remove,        *)
(* SnapshotStorage.resolve and write): what can be read is there.          *)
Atomic == INSTANCE SnapshotStore WITH
  stored <- [k \in Full |-> [at |-> main[k].at, parent |-> meta[k].parent,
                             parentAt |-> meta[k].parentAt]],
  reads <- [w \in Worker |-> {db[w].base.chain, op[w].from.chain}],
  guarded <- locking
ImplementsSnapshotStore == Atomic!Spec

(* Every open, save and retain ends, whatever locks the others hold. *)
CallsEnd == \A w \in Worker : op[w].pc # "idle" ~> op[w].pc = "idle"

=============================================================================
