------------------------------ MODULE Sessions ------------------------------
(***************************************************************************)
(* A session on a snapshot storage (class Session and SnapshotStorage.write *)
(* in src/src/snapshots.ts): the database reads a snapshot and holds what  *)
(* changed since.  save() forks it, and the forks wait in a queue to be    *)
(* stored, as a delta or in full; then the database, which was written to  *)
(* meanwhile, and the forks that still wait move onto the new snapshot     *)
(* (sqlite3_overlay_rebase in src/src/overlay.c).                          *)
(*                                                                         *)
(* Other Workers add snapshots to the store and delete them at any time,   *)
(* as they can with IndexedDB (module Snapshots has the steps of these     *)
(* calls, and the locks that forbid some of it with OPFS).  Bases stay     *)
(* readable.  There is one branch.                                         *)
(***************************************************************************)
EXTENDS OverlayPages, Sequences, FiniteSets

CONSTANTS Key, None,
          MaxDepth,   \* maxDepth: deltas that may lie on a full snapshot
          MaxWrites,  \* bound: chunks written
          MaxMoves,   \* bound: saves that move the database
          MaxStored,  \* bound: snapshots stored
          Written,    \* bound: chunks that transactions write, with the header
          Cuts        \* bound: sizes they cut the file to

ASSUME NoneAssumption == None \notin Key
ASSUME MaxDepthAssumption == MaxDepth \in Nat
ASSUME BoundsAssumption ==
  MaxWrites \in Nat /\ Written \subseteq Chunk /\ Cuts \subseteq Size

(* class Base, with what its layers hold as one file (layerContent).  `label' *)
(* is the name its file is registered under; every move has a new one.     *)
Base == [key : Key \union {None}, at : Nat, label : Nat, depth : Nat,
         bytes : Nat, file : File]
Baseless == [key |-> None, at |-> 0, label |-> 0, depth |-> 0, bytes |-> 0,
           file |-> NoFile]

(* A stored snapshot.  For a delta, `page' has its pages; it lies over the  *)
(* snapshot `parent' of time `parentAt', of which `visible' chunks show.   *)
Snapshot == [at : Nat, size : Size, visible : Size, page : [Chunk -> Page],
             parent : Key \union {None}, parentAt : Nat, depth : Nat, bytes : Nat]
NoSnapshot == [at |-> 0, size |-> 0, visible |-> 0, page |-> NoPages,
               parent |-> None, parentAt |-> 0, depth |-> 0, bytes |-> 0]

(* Mutant of Layered: a page that was cut off shows again when it grows. *)
LayeredUncut(s, below) ==
  [size |-> s.size,
   data |-> [i \in Chunk |-> IF i >= s.size THEN 0
                             ELSE IF s.page[i] # NoPage THEN s.page[i]
                             ELSE below.data[i]]]

(* runs: what a snapshot reads, over what lies below. *)
Layered(s, below) ==
  [size |-> s.size,
   data |-> [i \in Chunk |-> IF i >= s.size THEN 0
                             ELSE IF s.page[i] # NoPage THEN s.page[i]
                             ELSE IF i < s.visible THEN below.data[i] ELSE 0]]

VARIABLES
  db,      \* the database: its overlay, and its base
  isOpen,  \* it was not closed
  view,    \* history: the file it was last written to be
  queue,   \* saves: the fork, its base, the key, and what it should hold
  target,  \* the base the first save of the queue has written or found
  stored,  \* the store
  results, \* history: what each save that succeeded should have stored
  clock,   \* snapshots written, by anybody
  writes,  \* chunks written
  labels   \* labels given out

vars == <<db, isOpen, view, queue, target, stored, results, clock, writes, labels>>
dbVars == <<db, isOpen, view, writes>>

(* The file a snapshot reads from the store. *)
Load[k \in Key] ==
  Layered(stored[k], IF stored[k].parent = None THEN NoFile
                     ELSE Load[stored[k].parent])

(* A new database, or one opened on a snapshot of N chunks. *)
Fresh ==
  /\ db = [ov |-> EmptyOverlay, base |-> Baseless] /\ view = NoFile
  /\ stored = [k \in Key |-> NoSnapshot] /\ clock = 0

OpenedOn(k) ==
  LET file == [size |-> N, data |-> [i \in Chunk |-> MaxWrites + 2]]
      s    == [NoSnapshot EXCEPT !.at = 1, !.size = N, !.page = file.data]
  IN  /\ db = [ov |-> Opened(file),
               base |-> [Baseless EXCEPT !.key = k, !.at = 1, !.file = file]]
      /\ view = file
      /\ stored = [j \in Key |-> IF j = k THEN s ELSE NoSnapshot] /\ clock = 1

Init ==
  /\ Fresh \/ \E k \in Key : OpenedOn(k)
  /\ isOpen = TRUE /\ queue = <<>> /\ target = Baseless
  /\ results = {} /\ writes = 0 /\ labels = 0

There(k) == stored[k] # NoSnapshot

(***************************************************************************)
(* The database                                                            *)
(***************************************************************************)
(* A transaction writes a page, which may be the next but one or further     *)
(* past the end, and the header with its change counter.                   *)
Write(i) ==
  /\ isOpen /\ writes < MaxWrites /\ writes' = writes + 1
  /\ db' = [db EXCEPT !.ov = WriteChunk(WriteChunk(@, 0, writes'), i, writes')]
  /\ view' = [size |-> IF i < view.size THEN view.size ELSE i + 1,
              data |-> [view.data EXCEPT ![i] = writes', ![0] = writes']]
  /\ UNCHANGED <<isOpen, queue, target, stored, results, clock, labels>>

(* One that frees the last pages (VACUUM) writes the header too. *)
Shrink(n) ==
  /\ isOpen /\ writes < MaxWrites /\ writes' = writes + 1
  /\ 0 < n /\ n < view.size
  /\ db' = [db EXCEPT !.ov = TruncateTo(WriteChunk(@, 0, writes'), n)]
  /\ view' = [size |-> n, data |-> Cut([view.data EXCEPT ![0] = writes'], n)]
  /\ UNCHANGED <<isOpen, queue, target, stored, results, clock, labels>>

Close ==                      \* nothing reads what it held
  /\ isOpen /\ isOpen' = FALSE /\ db' = [ov |-> EmptyOverlay, base |-> Baseless]
  /\ UNCHANGED <<view, queue, target, stored, results, clock, writes, labels>>

(* Session.save: the fork shares every page. *)
Save(k) ==
  /\ isOpen /\ clock + Len(queue) < MaxStored /\ labels + Len(queue) < MaxMoves
  /\ queue' = Append(queue, [ov |-> db.ov, base |-> db.base, key |-> k, view |-> view])
  /\ UNCHANGED <<dbVars, target, stored, results, clock, labels>>

(***************************************************************************)
(* SnapshotStorage.write, of the first save in the queue                   *)
(***************************************************************************)
Saving == queue # <<>> /\ target = Baseless
First == queue[1]
Pages == {i \in Chunk : i < First.ov.size /\ First.ov.page[i] # NoPage}
Shown == IF First.ov.visible < First.ov.size THEN First.ov.visible ELSE First.ov.size

(* newSnapshot: a delta is small, and so are those it lies on. *)
Delta ==
  /\ First.base # Baseless /\ Shown > 0
  /\ First.base.depth + 1 <= MaxDepth
  /\ Cardinality(Pages) * 2 <= First.ov.size
  /\ First.base.bytes + Cardinality(Pages) <= First.ov.size

AsDelta ==
  [at |-> clock + 1, size |-> First.ov.size, visible |-> Shown,
   page |-> [i \in Chunk |-> IF i \in Pages THEN First.ov.page[i] ELSE NoPage],
   parent |-> First.base.key, parentAt |-> First.base.at,
   depth |-> First.base.depth + 1, bytes |-> First.base.bytes + Cardinality(Pages)]

(* In full: composed of the base and the pages. *)
InFull(file) ==
  [NoSnapshot EXCEPT !.at = clock + 1, !.size = file.size,
                     !.page = [i \in Chunk |-> IF i < file.size THEN file.data[i]
                                                                ELSE NoPage]]

(* The delta would lie over the snapshot the fork reads, not over another    *)
(* one stored under its key.                                               *)
ParentThere == There(First.base.key) /\ stored[First.base.key].at = First.base.at

NewBase(s, k, file) ==
  [key |-> k, at |-> s.at, label |-> labels + 1, depth |-> s.depth,
   bytes |-> s.bytes, file |-> file]

Put(k, s) == stored' = [stored EXCEPT ![k] = s] /\ clock' = clock + 1

Store ==
  /\ Saving /\ ~There(First.key)
  /\ LET s == IF Delta /\ ParentThere THEN AsDelta
              ELSE InFull(Content(First.ov, First.base.file))
     IN  /\ Put(First.key, s)
         /\ target' = NewBase(s, First.key, Layered(s, First.base.file))
  /\ UNCHANGED <<dbVars, queue, results, labels>>

StoreFails ==
  /\ Saving /\ queue' = Tail(queue)
  /\ UNCHANGED <<dbVars, target, stored, results, clock, labels>>

(* existing, for the key the fork reads already.  That nothing changed shows *)
(* in the pages only because every transaction writes the header.          *)
Unchanged ==
  /\ Saving /\ There(First.key) /\ First.base.key = First.key
  /\ queue' = Tail(queue)
  /\ results' = IF Pages = {} /\ First.ov.size = First.base.file.size
                THEN results \union {[key |-> First.key, at |-> First.base.at,
                                      view |-> First.view]}
                ELSE results
  /\ UNCHANGED <<dbVars, target, stored, clock, labels>>

(* sameDelta: a delta over the base of the fork, of the same layout. *)
SameLayout(s) ==
  /\ s.parent # None /\ First.base # Baseless /\ s.parent = First.base.key
  /\ stored[s.parent].at = First.base.at
  /\ stored[s.parent].size = First.base.file.size
  /\ s.visible = Shown /\ s.size = First.ov.size
  /\ {i \in Chunk : s.page[i] # NoPage} = Pages

(* Mutant of Holds: compares the pages of any delta of the same layout. *)
HoldsSamePages(k) ==
  IF stored[k].parent # None /\ stored[k].visible = Shown /\ stored[k].size = First.ov.size
     /\ {i \in Chunk : stored[k].page[i] # NoPage} = Pages
  THEN \A i \in Pages : stored[k].page[i] = First.ov.page[i]
  ELSE Load[k] = Content(First.ov, First.base.file)

(* Only the pages are compared if nothing else can differ. *)
Holds(k) ==
  IF SameLayout(stored[k])
  THEN \A i \in Pages : stored[k].page[i] = First.ov.page[i]
  ELSE Load[k].size > 0 /\ Load[k] = Content(First.ov, First.base.file)

Join ==
  /\ Saving /\ There(First.key) /\ First.base.key # First.key
  /\ IF Holds(First.key)
     THEN target' = NewBase(stored[First.key], First.key, Load[First.key])
          /\ UNCHANGED queue
     ELSE queue' = Tail(queue) /\ UNCHANGED target       \* a mismatch
  /\ UNCHANGED <<dbVars, stored, results, clock, labels>>

(* Mutant of Moved: the pages that were saved are dropped, also those that   *)
(* were written again since.                                               *)
MovedDropping(x) ==
  [x EXCEPT !.ov.page = [i \in Chunk |-> IF First.ov.page[i] # NoPage THEN NoPage ELSE @[i]],
            !.ov.visible = target.file.size,
            !.ov.head = NoPage, !.base = target]

(* Database.rebase, of the database or a later fork. *)
Moved(x) ==
  [x EXCEPT !.ov = Rebase(x.ov, x.base.file, First.ov, target.file), !.base = target]

(* Moving it fails, when it had copied what differs up to chunk n. *)
NotMoved(x, n) == [x EXCEPT !.ov = RebaseFails(@, x.base.file, First.ov, n)]

(* It reads the same base as the fork that was stored. *)
MovesAlong(x) == x.base = First.base

(* The database moves unless it was closed, and the later forks but those    *)
(* whose move fails, which are not `movable'.                              *)
Move(movable, n) ==
  /\ target # Baseless
  /\ db' = IF isOpen /\ MovesAlong(db) THEN Moved(db) ELSE db
  /\ queue' = [j \in 1 .. Len(queue) - 1 |->
       IF ~MovesAlong(queue[j + 1]) THEN queue[j + 1]
       ELSE IF j \in movable THEN Moved(queue[j + 1])
       ELSE NotMoved(queue[j + 1], n)]
  /\ results' = results \union {[key |-> First.key, at |-> target.at, view |-> First.view]}
  /\ target' = Baseless /\ labels' = labels + 1
  /\ UNCHANGED <<isOpen, view, stored, clock, writes>>

(* Moving the database fails: the snapshot is stored, but no fork moves. *)
MoveFails(n) ==
  /\ target # Baseless /\ isOpen /\ MovesAlong(db)
  /\ db' = NotMoved(db, n)
  /\ queue' = Tail(queue) /\ target' = Baseless /\ labels' = labels + 1
  /\ UNCHANGED <<isOpen, view, stored, results, clock, writes>>

(***************************************************************************)
(* Other Workers                                                           *)
(***************************************************************************)
(* One stores the same database, or one with another chunk in it. *)
OthersSave(k, file) ==
  /\ ~There(k) /\ file.size > 0 /\ clock < MaxStored
  /\ Put(k, InFull(file))
  /\ UNCHANGED <<dbVars, queue, target, results, labels>>

(* One stores a delta of one chunk over a snapshot. *)
OthersSaveDelta(k, p, i, x) ==
  /\ ~There(k) /\ There(p) /\ i < stored[p].size /\ clock < MaxStored
  /\ stored[p].depth < MaxDepth
  /\ Put(k, [at |-> clock + 1, size |-> stored[p].size, visible |-> stored[p].size,
             page |-> [NoPages EXCEPT ![i] = x], parent |-> p,
             parentAt |-> stored[p].at, depth |-> stored[p].depth + 1,
             bytes |-> stored[p].bytes + 1])
  /\ UNCHANGED <<dbVars, queue, target, results, labels>>

(* retain: nothing may lie over what is deleted. *)
Remove(k) ==
  /\ There(k) /\ \A j \in Key : stored[j].parent # k
  /\ stored' = [stored EXCEPT ![k] = NoSnapshot]
  /\ results' = {r \in results : r.key # k}
  /\ UNCHANGED <<dbVars, queue, target, clock, labels>>

Session ==
  \/ \E i \in Written : Write(i)
  \/ \E n \in Cuts : Shrink(n)
  \/ Close \/ \E k \in Key : Save(k)
  \/ Store \/ StoreFails \/ Unchanged \/ Join
  \/ \E n \in Size :
       \/ \E movable \in SUBSET (1 .. Len(queue) - 1) : Move(movable, n)
       \/ MoveFails(n)

Others ==
  \E k \in Key :
    \/ \E i \in Written : \E x \in {view.data[i], MaxWrites + 1} :
         \/ OthersSave(k, [view EXCEPT !.data[i] = x])
         \/ \E p \in Key : OthersSaveDelta(k, p, i, x)
    \/ Remove(k)

Next == Session \/ Others

Spec == Init /\ [][Next]_vars

(***************************************************************************)
(* Properties                                                              *)
(***************************************************************************)
Fork == [ov : Overlay, base : Base, key : Key, view : File]

TypeOK ==
  /\ db \in [ov : Overlay, base : Base] /\ isOpen \in BOOLEAN /\ view \in File
  /\ queue \in Seq(Fork) /\ target \in Base
  /\ stored \in [Key -> Snapshot]
  /\ clock \in Nat /\ writes \in Nat /\ labels \in Nat

(* The database reads what was written to it, wherever its base is: moving  *)
(* it onto a snapshot of an earlier state, while it was written, cut and   *)
(* grown since, changes nothing it reads (sqlite3_overlay_rebase).         *)
MovesChangeNothing == isOpen => Content(db.ov, db.base.file) = view

(* So do the saves that wait, which move too: each stores the state of the  *)
(* database when save() was called.                                        *)
WaitingForksKeepTheirState ==
  \A j \in 1 .. Len(queue) : Content(queue[j].ov, queue[j].base.file) = queue[j].view

(* A save that succeeds, whether it wrote a delta, in full or joined what    *)
(* another Worker had stored, leaves a snapshot that reads as the database *)
(* did when save() was called (newSnapshot, runs, existing, sameDelta).    *)
SavesHoldTheirState == \A r \in results :
  stored[r.key].at = r.at => Load[r.key] = r.view
=============================================================================
