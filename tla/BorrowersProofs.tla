--------------------------- MODULE BorrowersProofs ---------------------------
(***************************************************************************)
(* The inductive invariant of Borrowers, and the proof that snapshots keep *)
(* their view for any number of chunks, snapshots and transactions.        *)
(***************************************************************************)
EXTENDS Borrowers, OverlayPagesProofs

(* Which steps a call goes through, and what the overlay is then. *)
StepInv ==
  /\ step \in {"preserve", "apply", "settle", "copy", "release"} =>
       mode = "open" /\ caller \in {"commit", "flush", "detach", "close"}
  /\ mode = "closed" => step = "idle"
  /\ step \notin {"txn", "cut"} => touched = {}
  /\ mode = "memory" => ov.visible = 0

(* The base file reads as zero past its end. *)
BaseInv == \A i \in Chunk : base.size <= i => base.data[i] = 0

(* The file of the stored overlay has no hole, and a page of each chunk    *)
(* that was written since the last write-back.                             *)
NoHoles == \A i \in Chunk : i < ov.size => ov.page[i] # NoPage \/ i < ov.visible
DirtyHeld == \A i \in dirty : i < ov.size => ov.page[i] # NoPage

(* Outside a transaction the overlay reads its last commit; in one, every  *)
(* chunk that SQLite has not journaled still does.                         *)
MainInv ==
  mode # "closed" =>
    /\ NoHoles
    /\ \A i \in Chunk : committed.size <= i => committed.data[i] = 0
    /\ step \notin {"txn", "cut"} => ov.size = committed.size
    /\ \A i \in Chunk : i < committed.size /\ i \notin touched =>
         i < ov.size /\ ReadChunk(ov, base, i) = committed.data[i]

(* How far a write-back got. *)
ApplyInv ==
  /\ mode = "open" => DirtyHeld
  /\ mode # "open" => dirty = {}
  /\ step = "apply" => todo \subseteq dirty
  /\ step \in {"apply", "settle"} =>
       \A i \in dirty : i < ov.size =>
         (step = "apply" /\ i \in todo) \/ base.data[i] = ov.page[i]
  /\ step = "apply" => \A i \in todo : i < ov.size

(* A snapshot holds what is about to change in the file. *)
PreservedInv ==
  step = "apply" =>
    \A f \in Fork, i \in Chunk :
      Borrower(f) /\ i \in Changing /\ i < snap[f].visible =>
        snap[f].page[i] # NoPage

(* The file is there as long as a snapshot reads it, and only a snapshot   *)
(* whose copies failed lacks a part of it later.                           *)
SourceInv ==
  \A f \in Fork :
    /\ source[f] = "base" => mode = "open"
    /\ source[f] = "memory" /\ ~cutOff[f] => snap[f].visible = 0

IInv == /\ TypeOK /\ StepInv /\ BaseInv /\ MainInv /\ ApplyInv
        /\ PreservedInv /\ SourceInv /\ KeepsItsView

-----------------------------------------------------------------------------
(* Types *)

LEMMA TypeInit == Init => TypeOK
<1> SUFFICES ASSUME Init PROVE TypeOK
  OBVIOUS
<1>1. PICK n \in Size : base = [size |-> n, data |-> Cut([i \in Chunk |-> Own], n)]
  BY DEF Init
<1>2. base \in File
  BY <1>1, ForkAssumption, CutType DEF File
<1>3. QED
  BY <1>2, OpenedType, EmptyType, ForkAssumption DEF Init, TypeOK, File

(* The transactions of the stored overlay keep their types. *)
LEMMA TypeClient ==
  ASSUME TypeOK, Client
  PROVE  TypeOK'
<1> USE DEF TypeOK, forkVars, mainVars
<1>1. CASE Begin
  BY <1>1, ForkAssumption DEF Begin
<1>2. CASE Commit
  BY <1>2, ContentType DEF Commit
<1>3. CASE Rollback
  BY <1>3, RestoreType DEF Rollback, MarkDirty
<1>4. CASE Replace
  <2>1. [size |-> N, data |-> [i \in Chunk |-> Own]] \in File
    BY NAssumption, ForkAssumption DEF File, Size
  <2>2. QED
    BY <1>4, <2>1, EmptyType DEF Replace
<1>5. CASE Open
  BY <1>5, OpenedType DEF Open, File
<1>6. ASSUME NEW i \in Chunk, Write(i) PROVE TypeOK'
  <2>1. txn \in Nat
    BY ForkAssumption
  <2>2. QED
    BY <1>6, <2>1, WriteChunkType DEF Write, MarkDirty
<1>7. ASSUME NEW n \in Size \ {0}, Truncate(n) PROVE TypeOK'
  BY <1>7, TruncateToType DEF Truncate
<1>8. ASSUME NEW call \in {"flush", "detach", "close"}, CallWriteBack(call)
      PROVE  TypeOK'
  BY <1>8 DEF CallWriteBack
<1>9. QED
  BY <1>1, <1>2, <1>3, <1>4, <1>5, <1>6, <1>7, <1>8 DEF Client

(* So do the snapshots. *)
LEMMA TypeSnapshots ==
  ASSUME TypeOK, Snapshots
  PROVE  TypeOK'
<1> USE DEF TypeOK, mainVars
<1> PICK f \in Fork :
      \/ Snapshot(f) \/ SnapshotClose(f) \/ Unborrow(f)
      \/ \E g \in Fork : SnapshotOf(f, g)
      \/ \E i \in Chunk : SnapshotWrite(f, i)
      \/ \E n \in Size \ {0} : SnapshotTruncate(f, n)
      \/ \E chunks \in SUBSET Chunk : UnborrowFails(f, chunks)
  BY DEF Snapshots
<1>1. CASE Snapshot(f)
  BY <1>1 DEF Snapshot
<1>2. CASE SnapshotClose(f)
  BY <1>2, EmptyType DEF SnapshotClose
<1>3. CASE Unborrow(f)
  BY <1>3, PreserveType, NoBaseType DEF Unborrow
<1>4. ASSUME NEW g \in Fork, SnapshotOf(f, g) PROVE TypeOK'
  BY <1>4 DEF SnapshotOf
<1>5. ASSUME NEW i \in Chunk, SnapshotWrite(f, i) PROVE TypeOK'
  <2>1. WriteChunk(snap[f], i, Own) \in Overlay
    BY WriteChunkType, ForkAssumption
  <2>2. (IF i + 1 > view[f].size THEN i + 1 ELSE view[f].size) \in Size
    BY NAssumption DEF File, Size, Chunk
  <2>3. [view[f].data EXCEPT ![i] = Own] \in [Chunk -> Nat]
    BY ForkAssumption DEF File
  <2>4. QED
    BY <1>5, <2>1, <2>2, <2>3 DEF SnapshotWrite, File
<1>6. ASSUME NEW n \in Size \ {0}, SnapshotTruncate(f, n) PROVE TypeOK'
  <2>1. TruncateTo(snap[f], n) \in Overlay
    BY TruncateToType
  <2>2. Cut(view[f].data, n) \in [Chunk -> Nat]
    BY CutType DEF File
  <2>3. QED
    BY <1>6, <2>1, <2>2 DEF SnapshotTruncate, File
<1>7. ASSUME NEW chunks \in SUBSET Chunk, UnborrowFails(f, chunks) PROVE TypeOK'
  BY <1>7, PreserveType DEF UnborrowFails
<1>8. QED
  BY <1>1, <1>2, <1>3, <1>4, <1>5, <1>6, <1>7

(* And the steps of a write-back. *)
LEMMA TypeWriteBack ==
  ASSUME TypeOK, WriteBack
  PROVE  TypeOK'
<1> USE DEF TypeOK, mainVars, forkVars
<1>0. ASSUME AfterWriteBack
      PROVE  /\ step' \in {"idle", "copy", "release", step}
             /\ caller' \in {"none", caller}
  BY <1>0 DEF AfterWriteBack
<1>1. CASE NothingToStore
  BY <1>0, <1>1 DEF NothingToStore
<1>2. CASE PreserveAndAppend
  BY <1>2, PreserveType DEF PreserveAndAppend
<1>3. CASE ApplyFails
  BY <1>0, <1>3 DEF ApplyFails
<1>4. CASE Shrink
  BY <1>4, CutType DEF Shrink, Overlay, File
<1>5. CASE Settle
  BY <1>0, <1>5, DropStoredType DEF Settle, Overlay
<1>6. CASE SettleFails
  BY <1>0, <1>6 DEF SettleFails
<1>7. CASE Detach
  BY <1>7, PreserveType, NoBaseType DEF Detach
<1>8. ASSUME NEW i \in Chunk, Apply(i) PROVE TypeOK'
  <2>1. base'.size \in Size /\ base' = [size |-> base'.size, data |-> base'.data]
    BY <1>8, NAssumption DEF Apply, WriteBase, File, Size, Chunk
  <2>2. ov.page[i] \in Nat
    BY <1>8 DEF Apply, Overlay, Page
  <2>3. [base.data EXCEPT ![i] = ov.page[i]] \in [Chunk -> Nat]
    BY <2>2 DEF File
  <2>4. base' \in File
    BY <1>8, <2>1, <2>3 DEF Apply, WriteBase, File
  <2>5. QED
    BY <1>8, <2>4 DEF Apply
<1>9. ASSUME NEW chunks \in SUBSET Chunk, PreserveFails(chunks) PROVE TypeOK'
  BY <1>0, <1>9, PreserveType DEF PreserveFails
<1>10. ASSUME NEW mine \in SUBSET Chunk, NEW theirs \in SUBSET Chunk,
              DetachFails(mine, theirs)
       PROVE  TypeOK'
  BY <1>10, PreserveType DEF DetachFails
<1>11. ASSUME NEW lost \in SUBSET Fork, NEW chunks \in SUBSET Chunk,
              Close(lost, chunks)
       PROVE  TypeOK'
  <2>1. 0 \in Size
    BY NAssumption DEF Size
  <2>2. QED
    BY <1>11, <2>1, PreserveType, NoBaseType, EmptyType DEF Close
<1>12. QED
  BY <1>1, <1>2, <1>3, <1>4, <1>5, <1>6, <1>7, <1>8, <1>9, <1>10, <1>11
  DEF WriteBack

(* Every variable keeps its type, whatever the bounds. *)
THEOREM TypeCorrect == Spec => []TypeOK
<1>1. TypeOK /\ [Next]_vars => TypeOK'
  BY TypeClient, TypeSnapshots, TypeWriteBack
  DEF Next, vars, TypeOK
<1>2. QED
  BY TypeInit, <1>1, PTL DEF Spec

-----------------------------------------------------------------------------
(* Initially, and in steps that change nothing. *)

LEMMA InvInit == Init => IInv
<1> SUFFICES ASSUME Init PROVE IInv
  OBVIOUS
<1>1. TypeOK
  BY TypeInit
<1>2. PICK n \in Size : base = [size |-> n, data |-> Cut([i \in Chunk |-> Own], n)]
  BY DEF Init
<1>3. BaseInv
  BY <1>2 DEF BaseInv, Cut, Chunk, Size
<1>4. /\ ov = Opened(base) /\ committed = base /\ mode = "open"
      /\ dirty = {} /\ touched = {} /\ step = "idle"
  BY DEF Init
<1>5. MainInv
  <2>1. /\ ov.size = base.size /\ ov.visible = base.size
        /\ ov.page = NoPages
        /\ ov.head = IF base.size > 0 THEN base.data[0] ELSE NoPage
    BY <1>4 DEF Opened
  <2>2. \A i \in Chunk : i < base.size => ReadChunk(ov, base, i) = base.data[i]
    BY <2>1, <1>1
    DEF ReadChunk, FillChunk, BaseRead, FileRead, NoPages, TypeOK, File, Size, Chunk
  <2>3. QED
    BY <1>1, <1>3, <1>4, <2>1, <2>2, NAssumption
    DEF MainInv, NoHoles, BaseInv, TypeOK, File, Size, Chunk
<1>6. ApplyInv /\ StepInv /\ PreservedInv
  BY <1>4, <1>1 DEF ApplyInv, DirtyHeld, StepInv, PreservedInv
<1>7. SourceInv /\ KeepsItsView
  BY DEF Init, SourceInv, KeepsItsView, EmptyOverlay
<1>8. QED
  BY <1>1, <1>3, <1>5, <1>6, <1>7 DEF IInv

LEMMA InvStutter ==
  ASSUME IInv, UNCHANGED vars
  PROVE  IInv'
BY DEF IInv, vars, TypeOK, StepInv, BaseInv, MainInv, NoHoles, ApplyInv,
       DirtyHeld, PreservedInv, Borrower, Changing, SourceInv, KeepsItsView,
       ReadFails

-----------------------------------------------------------------------------
(* The transactions of the stored overlay, and the calls on its file.      *)

(* The snapshots, and the file they read, are left alone. *)
LEMMA ForksKeepTheirView ==
  ASSUME TypeOK, KeepsItsView, SourceInv, UNCHANGED forkVars,
         UNCHANGED base \/ mode # "open", mode = "open" => mode' = "open"
  PROVE  KeepsItsView' /\ SourceInv'
<1>1. SourceInv'
  BY DEF SourceInv, forkVars
<1>2. \A f \in Fork, i \in Chunk :
        /\ ReadFails(f, i)' <=> ReadFails(f, i)
        /\ ~ReadFails(f, i) /\ source[f] # "closed"
             => ReadChunk(snap[f], base, i)' = ReadChunk(snap[f], base, i)
  <2> TAKE f \in Fork, i \in Chunk
  <2>1. ReadFails(f, i)' <=> ReadFails(f, i)
    BY DEF forkVars, ReadFails
  <2>2. CASE source[f] = "base"
    BY <2>1, <2>2 DEF SourceInv, forkVars
  <2>3. CASE source[f] # "base"
    BY <2>1, <2>3
    DEF TypeOK, forkVars, ReadFails, ReadChunk, FillChunk, BaseRead
  <2>4. QED
    BY <2>2, <2>3
<1>3. \A f \in Fork : 0 .. view[f].size - 1 \subseteq Chunk
  BY NAssumption DEF TypeOK, File, Size, Chunk
<1>4. QED
  BY <1>1, <1>2, <1>3 DEF KeepsItsView, forkVars

LEMMA InvClient ==
  ASSUME IInv, Client, TypeOK'
  PROVE  IInv'
<1> USE DEF mainVars
<1>0. TypeOK /\ StepInv /\ BaseInv /\ MainInv /\ ApplyInv /\ PreservedInv
      /\ SourceInv /\ KeepsItsView
  BY DEF IInv
<1>1. CASE Begin
  <2>1. StepInv' /\ BaseInv' /\ MainInv' /\ ApplyInv' /\ PreservedInv'
    BY <1>0, <1>1
    DEF Begin, StepInv, BaseInv, MainInv, NoHoles, ApplyInv, DirtyHeld, PreservedInv
  <2>2. QED
    BY <1>0, <1>1, <2>1, ForksKeepTheirView DEF IInv, Begin
<1>2. CASE Commit
  <2>1. StepInv' /\ BaseInv' /\ ApplyInv' /\ PreservedInv'
    BY <1>0, <1>2 DEF Commit, StepInv, BaseInv, ApplyInv, DirtyHeld, PreservedInv
  <2>2. /\ committed'.size = ov.size
        /\ \A i \in Chunk : committed'.data[i]
             = IF i < ov.size THEN ReadChunk(ov, base, i) ELSE 0
    BY <1>2 DEF Commit, Content
  <2>3. MainInv'
    BY <1>0, <1>2, <2>2 DEF Commit, MainInv, NoHoles, TypeOK, Overlay, Size, Chunk
  <2>4. QED
    BY <1>0, <1>2, <2>1, <2>3, ForksKeepTheirView DEF IInv, Commit
<1>3. CASE Rollback
  <2>1. /\ ov'.size = committed.size
        /\ ov'.visible = IF committed.size < ov.visible THEN committed.size
                                                         ELSE ov.visible
        /\ ov'.head = ov.head
        /\ \A j \in Chunk : ov'.page[j] =
             IF committed.size <= j THEN NoPage
             ELSE IF j \in touched THEN committed.data[j] ELSE ov.page[j]
    BY <1>3 DEF Rollback, Restore
  <2>2. mode # "closed"
    BY <1>0, <1>3 DEF Rollback, StepInv
  <2>3. \A j \in Chunk : committed.data[j] # NoPage
    BY <1>0, NoPageAssumption DEF TypeOK, File
  <2>4. MainInv'
    <3>1. NoHoles'
      BY <1>0, <2>1, <2>2, <2>3
      DEF MainInv, NoHoles, TypeOK, Overlay, File, Size, Chunk
    <3>2. ASSUME NEW j \in Chunk, j < committed.size
          PROVE  ReadChunk(ov, base, j)' = committed.data[j]
      <4>1. ~(committed.size <= j)
        BY <1>0, <3>2 DEF TypeOK, File, Size, Chunk
      <4>2. CASE j \in touched
        BY <2>1, <2>3, <4>1, <4>2 DEF ReadChunk
      <4>3. CASE j \notin touched
        <5>1. /\ ov'.page[j] = ov.page[j] /\ ov'.head = ov.head
              /\ j < ov'.visible <=> j < ov.visible
          BY <1>0, <2>1, <3>2, <4>1, <4>3 DEF TypeOK, Overlay, File, Size, Chunk
        <5>2. ReadChunk(ov, base, j)' = ReadChunk(ov, base, j)
          BY <1>3, <5>1 DEF Rollback, ReadChunk, FillChunk, BaseRead
        <5>3. QED
          BY <1>0, <2>2, <3>2, <4>3, <5>2 DEF MainInv
      <4>4. QED
        BY <4>2, <4>3
    <3>3. QED
      BY <1>0, <1>3, <2>1, <2>2, <3>1, <3>2 DEF MainInv, Rollback
  <2>5. ApplyInv'
    BY <1>0, <1>3, <2>1, <2>2, <2>3
    DEF ApplyInv, DirtyHeld, MainInv, Rollback, MarkDirty, TypeOK, File, Overlay,
        Size, Chunk
  <2>6. StepInv' /\ BaseInv' /\ PreservedInv'
    BY <1>0, <1>3, <2>1
    DEF Rollback, StepInv, BaseInv, PreservedInv, TypeOK, Overlay, File, Size
  <2>7. QED
    BY <1>0, <1>3, <2>4, <2>5, <2>6, ForksKeepTheirView DEF IInv, Rollback
<1>4. CASE Replace
  <2>1. BaseInv'
    BY <1>4, NAssumption DEF Replace, BaseInv, NoFile, Chunk
  <2>2. StepInv' /\ MainInv' /\ ApplyInv' /\ PreservedInv'
    BY <1>0, <1>4 DEF Replace, StepInv, MainInv, ApplyInv, PreservedInv
  <2>3. QED
    BY <1>0, <1>4, <2>1, <2>2, ForksKeepTheirView DEF IInv, Replace
<1>5. CASE Open
  <2>1. /\ ov'.size = base.size /\ ov'.visible = base.size
        /\ ov'.page = NoPages
        /\ ov'.head = IF base.size > 0 THEN base.data[0] ELSE NoPage
    BY <1>5 DEF Open, Opened
  <2>2. \A i \in Chunk : i < base.size => ReadChunk(ov, base, i)' = base.data[i]
    BY <1>0, <1>5, <2>1
    DEF Open, ReadChunk, FillChunk, BaseRead, FileRead, NoPages, TypeOK, File,
        Size, Chunk
  <2>3. MainInv'
    BY <1>0, <1>5, <2>1, <2>2
    DEF Open, MainInv, NoHoles, BaseInv, TypeOK, File, Size, Chunk
  <2>4. StepInv' /\ BaseInv' /\ ApplyInv' /\ PreservedInv'
    BY <1>0, <1>5 DEF Open, StepInv, BaseInv, ApplyInv, DirtyHeld, PreservedInv
  <2>5. QED
    BY <1>0, <1>5, <2>3, <2>4, ForksKeepTheirView DEF IInv, Open
<1>6. ASSUME NEW i \in Chunk, Write(i) PROVE IInv'
  <2>1. txn \in Nat /\ ov \in Overlay /\ mode # "closed"
    BY <1>0, <1>6, ForkAssumption DEF TypeOK, StepInv, Write
  <2>2. /\ ov'.size = IF i + 1 > ov.size THEN i + 1 ELSE ov.size
        /\ ov'.visible = ov.visible
        /\ ov'.head = ov.head
        /\ \A j \in Chunk : ov'.page[j] = IF j = i THEN txn ELSE ov.page[j]
    BY <1>6, <2>1, WriteChunkFields DEF Write
  <2>3. MainInv'
    <3>1. /\ mode' = mode /\ step' = step /\ base' = base /\ committed' = committed
          /\ touched' = touched \union {i} /\ step = "txn" /\ i <= ov.size
      BY <1>6 DEF Write
    <3>2. i \in 0 .. N - 1 /\ ov.size \in 0 .. N
      BY <2>1 DEF Chunk, Overlay, Size
    <3>3. ASSUME NEW j \in Chunk, j < ov'.size, j # i
          PROVE  j < ov.size
      BY <2>2, <3>1, <3>2, <3>3, NAssumption DEF Chunk
    <3>4. ASSUME NEW j \in Chunk, j < ov.size
          PROVE  j < ov'.size
      BY <2>2, <3>2, <3>4 DEF Chunk
    <3>5. NoHoles'
      BY <1>0, <2>1, <2>2, <3>3, NoPageAssumption DEF MainInv, NoHoles
    <3>6. ASSUME NEW j \in Chunk, j # i
          PROVE  ReadChunk(ov, base, j)' = ReadChunk(ov, base, j)
      BY <2>2, <3>1, <3>6 DEF ReadChunk, FillChunk, BaseRead
    <3>7. ASSUME NEW j \in Chunk, j < committed.size, j \notin touched'
          PROVE  j < ov'.size /\ ReadChunk(ov, base, j)' = committed.data[j]
      BY <1>0, <2>1, <3>1, <3>4, <3>6, <3>7 DEF MainInv
    <3> QED
      BY <1>0, <2>1, <3>1, <3>5, <3>7 DEF MainInv
  <2>4. ApplyInv'
    BY <1>0, <1>6, <2>1, <2>2, NoPageAssumption
    DEF Write, ApplyInv, DirtyHeld, MarkDirty, TypeOK, Overlay, Size, Chunk
  <2>5. StepInv' /\ BaseInv' /\ PreservedInv'
    BY <1>0, <1>6, <2>2 DEF Write, StepInv, BaseInv, PreservedInv
  <2>6. QED
    BY <1>0, <1>6, <2>3, <2>4, <2>5, ForksKeepTheirView DEF IInv, Write
<1>7. ASSUME NEW n \in Size \ {0}, Truncate(n) PROVE IInv'
  <2>1. ov \in Overlay /\ mode # "closed"
    BY <1>0, <1>7 DEF TypeOK, StepInv, Truncate
  <2>2. /\ ov'.size = n
        /\ ov'.visible = IF n < ov.visible THEN n ELSE ov.visible
        /\ ov'.head = ov.head
        /\ \A j \in Chunk : ov'.page[j] = IF j < n THEN ov.page[j] ELSE NoPage
    BY <1>7, <2>1, TruncateToFields DEF Truncate
  <2>3. MainInv'
    BY <1>0, <1>7, <2>1, <2>2
    DEF Truncate, MainInv, NoHoles, ReadChunk, FillChunk, BaseRead, TypeOK,
        Overlay, File, Size, Chunk
  <2>4. ApplyInv'
    BY <1>0, <1>7, <2>1, <2>2
    DEF Truncate, ApplyInv, DirtyHeld, TypeOK, Overlay, Size, Chunk
  <2>5. StepInv' /\ BaseInv' /\ PreservedInv'
    BY <1>0, <1>7, <2>1, <2>2
    DEF Truncate, StepInv, BaseInv, PreservedInv, Overlay, Size
  <2>6. QED
    BY <1>0, <1>7, <2>3, <2>4, <2>5, ForksKeepTheirView DEF IInv, Truncate
<1>8. ASSUME NEW call \in {"flush", "detach", "close"}, CallWriteBack(call)
      PROVE  IInv'
  <2>1. StepInv' /\ BaseInv' /\ MainInv' /\ ApplyInv' /\ PreservedInv'
    BY <1>0, <1>8
    DEF CallWriteBack, StepInv, BaseInv, MainInv, NoHoles, ApplyInv, DirtyHeld,
        PreservedInv
  <2>2. QED
    BY <1>0, <1>8, <2>1, ForksKeepTheirView DEF IInv, CallWriteBack
<1>9. QED
  BY <1>1, <1>2, <1>3, <1>4, <1>5, <1>6, <1>7, <1>8 DEF Client

-----------------------------------------------------------------------------
(* Opening and using snapshots.                                            *)

(* What SourceInv and KeepsItsView say of one snapshot. *)
Keeps(f) ==
  /\ source[f] = "base" => mode = "open"
  /\ source[f] = "memory" /\ ~cutOff[f] => snap[f].visible = 0
  /\ source[f] # "closed" =>
       /\ snap[f].size = view[f].size
       /\ \A i \in 0 .. view[f].size - 1 :
            ReadFails(f, i) \/ ReadChunk(snap[f], base, i) = view[f].data[i]

LEMMA EachKeeps == SourceInv /\ KeepsItsView <=> \A f \in Fork : Keeps(f)
BY DEF SourceInv, KeepsItsView, Keeps

(* A call on one snapshot changes nothing else, so it is enough that this  *)
(* one keeps its view.                                                     *)
LEMMA OneForkChanges ==
  ASSUME IInv, TypeOK', NEW f \in Fork, CanRun,
         UNCHANGED <<mode, step, caller, mainVars>>,
         \A g \in Fork \ {f} :
           UNCHANGED <<snap[g], source[g], view[g], cutOff[g]>>,
         Keeps(f)'
  PROVE  IInv'
<1>0. TypeOK /\ StepInv /\ BaseInv /\ MainInv /\ ApplyInv /\ PreservedInv
      /\ SourceInv /\ KeepsItsView
  BY DEF IInv
<1>1. StepInv' /\ BaseInv' /\ MainInv' /\ ApplyInv' /\ PreservedInv'
  BY <1>0 DEF CanRun, mainVars, StepInv, BaseInv, MainInv, NoHoles, ApplyInv,
              DirtyHeld, PreservedInv
<1>2. ASSUME NEW g \in Fork \ {f}
      PROVE  Keeps(g)'
  <2>1. Keeps(g)
    BY <1>0, EachKeeps
  <2>2. snap'[g] = snap[g] /\ source'[g] = source[g] /\ view'[g] = view[g]
        /\ cutOff'[g] = cutOff[g] /\ base' = base /\ mode' = mode
    BY DEF mainVars
  <2>3. QED
    BY <2>1, <2>2 DEF Keeps, ReadFails
<1>3. (SourceInv /\ KeepsItsView)'
  <2>1. \A g \in Fork : Keeps(g)'
    BY <1>2
  <2>2. QED
    BY <2>1 DEF SourceInv, KeepsItsView, Keeps
<1>4. QED
  BY <1>1, <1>3 DEF IInv

LEMMA InvSnapshots ==
  ASSUME IInv, Snapshots, TypeOK'
  PROVE  IInv'
<1>0. TypeOK /\ StepInv /\ MainInv /\ SourceInv /\ KeepsItsView
  BY DEF IInv
<1> USE DEF CanRun
<1> PICK f \in Fork :
      \/ Snapshot(f) \/ SnapshotClose(f) \/ Unborrow(f)
      \/ \E g \in Fork : SnapshotOf(f, g)
      \/ \E i \in Chunk : SnapshotWrite(f, i)
      \/ \E n \in Size \ {0} : SnapshotTruncate(f, n)
      \/ \E chunks \in SUBSET Chunk : UnborrowFails(f, chunks)
  BY DEF Snapshots
<1>k. \A g \in Fork : Keeps(g)
  BY <1>0, EachKeeps
<1>1. CASE Snapshot(f)
  <2>1. Keeps(f)'
    <3>1. /\ snap'[f] = ov /\ view'[f] = committed /\ base' = base
          /\ source'[f] = IF mode = "open" THEN "base" ELSE "memory"
          /\ mode' = mode
      BY <1>0, <1>1 DEF Snapshot, TypeOK, mainVars
    <3>2. /\ mode # "closed" /\ touched = {}
          /\ mode = "memory" => ov.visible = 0
          /\ ov.size = committed.size
      BY <1>0, <1>1 DEF Snapshot, StepInv, MainInv
    <3>3. \A i \in 0 .. committed.size - 1 :
            i \in Chunk /\ ReadChunk(ov, base, i) = committed.data[i]
      <4>1. committed \in File
        BY <1>0 DEF TypeOK
      <4>2. QED
        BY <1>0, <3>2, <4>1, Indices DEF MainInv
    <3>4. mode # "open" => mode = "memory"
      BY <1>0, <3>2 DEF TypeOK
    <3>5. QED
      BY <3>1, <3>2, <3>3, <3>4 DEF Keeps, ReadFails
  <2>2. QED
    BY <1>1, <2>1, OneForkChanges, <1>0 DEF Snapshot, TypeOK
<1>2. CASE SnapshotClose(f)
  <2>1. Keeps(f)'
    BY <1>0, <1>2 DEF SnapshotClose, Keeps, TypeOK
  <2>2. QED
    BY <1>2, <2>1, OneForkChanges, <1>0 DEF SnapshotClose, TypeOK
<1>3. CASE Unborrow(f)
  <2>1. Keeps(f)'
    <3>1. /\ snap'[f] = NoBase(Preserve(snap[f], base, Chunk))
          /\ source'[f] = "memory" /\ view'[f] = view[f] /\ base' = base
          /\ source[f] = "base"
      BY <1>0, <1>3 DEF Unborrow, TypeOK, mainVars
    <3>2. snap[f] \in Overlay /\ base \in File /\ view[f] \in File
      BY <1>0 DEF TypeOK
    <3>3. /\ snap'[f].size = snap[f].size
          /\ snap'[f].visible = 0
      BY <3>1, <3>2, PreserveType, PreserveFields, NoBaseFields
    <3>4. \A i \in Chunk : ReadChunk(snap[f], base, i)' = ReadChunk(snap[f], base, i)
      BY <3>1, <3>2, DetachedReads
    <3>5. \A i \in 0 .. view[f].size - 1 :
            i \in Chunk /\ ReadChunk(snap[f], base, i) = view[f].data[i]
      BY <1>k, <3>1, <3>2, Indices DEF Keeps, ReadFails
    <3>6. QED
      BY <1>k, <3>1, <3>3, <3>4, <3>5 DEF Keeps, ReadFails
  <2>2. QED
    BY <1>3, <2>1, OneForkChanges, <1>0 DEF Unborrow, TypeOK
<1>4. ASSUME NEW g \in Fork, SnapshotOf(f, g) PROVE IInv'
  <2>1. Keeps(f)'
    <3>1. /\ snap'[f] = snap[g] /\ source'[f] = source[g] /\ view'[f] = view[g]
          /\ cutOff'[f] = cutOff[g] /\ base' = base /\ mode' = mode
      BY <1>0, <1>4 DEF SnapshotOf, TypeOK, mainVars
    <3>2. Keeps(g)
      BY <1>k
    <3>3. QED
      BY <3>1, <3>2 DEF Keeps, ReadFails
  <2>2. QED
    BY <1>4, <2>1, OneForkChanges, <1>0 DEF SnapshotOf, TypeOK
<1>5. ASSUME NEW i \in Chunk, SnapshotWrite(f, i) PROVE IInv'
  <2>1. Keeps(f)'
    <3>1. /\ snap'[f] = WriteChunk(snap[f], i, Own)
          /\ view'[f] = [size |-> IF i + 1 > view[f].size THEN i + 1
                                                          ELSE view[f].size,
                         data |-> [view[f].data EXCEPT ![i] = Own]]
          /\ source' = source /\ cutOff' = cutOff /\ base' = base
          /\ mode' = mode /\ i <= snap[f].size /\ source[f] # "closed"
      BY <1>0, <1>5 DEF SnapshotWrite, TypeOK, mainVars
    <3>2. snap[f] \in Overlay /\ base \in File /\ view[f] \in File /\ Own \in Nat
      BY <1>0, ForkAssumption DEF TypeOK
    <3>3. /\ snap'[f].size = IF i + 1 > snap[f].size THEN i + 1 ELSE snap[f].size
          /\ snap'[f].visible = snap[f].visible
          /\ snap'[f].head = snap[f].head
          /\ \A j \in Chunk : snap'[f].page[j] = IF j = i THEN Own
                                                 ELSE snap[f].page[j]
      BY <3>1, <3>2, WriteChunkFields
    <3>4. /\ view'[f].size = IF i + 1 > view[f].size THEN i + 1 ELSE view[f].size
          /\ \A j \in Chunk : view'[f].data[j] = IF j = i THEN Own
                                                 ELSE view[f].data[j]
      BY <3>1, <3>2 DEF File
    <3>5. /\ source[f] = "base" => mode = "open"
          /\ source[f] = "memory" /\ ~cutOff[f] => snap[f].visible = 0
          /\ snap[f].size = view[f].size
          /\ \A j \in 0 .. view[f].size - 1 :
               ReadFails(f, j) \/ ReadChunk(snap[f], base, j) = view[f].data[j]
      BY <1>k, <3>1 DEF Keeps
    <3>6. ASSUME NEW j \in 0 .. view'[f].size - 1
          PROVE  (ReadFails(f, j) \/ ReadChunk(snap[f], base, j) = view[f].data[j])'
      <4>1. j \in Chunk /\ (j # i => j \in 0 .. view[f].size - 1)
        <5>1. i \in 0 .. N - 1 /\ view[f].size \in 0 .. N /\ i <= view[f].size
          BY <3>1, <3>2, <3>5 DEF File, Size, Chunk
        <5>2. CASE i + 1 > view[f].size
          <6>1. j \in 0 .. i
            BY <3>4, <3>6, <5>1, <5>2, NAssumption
          <6> QED
            BY <5>1, <5>2, <6>1, NAssumption DEF Chunk
        <5>3. CASE ~(i + 1 > view[f].size)
          <6>1. j \in 0 .. view[f].size - 1
            BY <3>4, <3>6, <5>3
          <6> QED
            BY <5>1, <6>1, NAssumption DEF Chunk
        <5> QED
          BY <5>2, <5>3
      <4>2. CASE j = i
        BY <3>2, <3>3, <3>4, <4>1, <4>2, NoPageAssumption DEF ReadChunk
      <4>3. CASE j # i
        BY <3>1, <3>3, <3>4, <3>5, <4>1, <4>3
        DEF ReadFails, ReadChunk, FillChunk, BaseRead
      <4>4. QED
        BY <4>2, <4>3
    <3>7. snap'[f].size = view'[f].size
      BY <3>3, <3>4, <3>5
    <3>8. QED
      BY <3>1, <3>3, <3>5, <3>6, <3>7 DEF Keeps
  <2>2. QED
    BY <1>5, <2>1, OneForkChanges, <1>0 DEF SnapshotWrite, TypeOK
<1>6. ASSUME NEW n \in Size \ {0}, SnapshotTruncate(f, n) PROVE IInv'
  <2>1. Keeps(f)'
    <3>1. /\ snap'[f] = TruncateTo(snap[f], n)
          /\ view'[f] = [size |-> n, data |-> Cut(view[f].data, n)]
          /\ source' = source /\ cutOff' = cutOff /\ base' = base
          /\ mode' = mode /\ n < snap[f].size /\ source[f] # "closed"
      BY <1>0, <1>6 DEF SnapshotTruncate, TypeOK, mainVars
    <3>2. snap[f] \in Overlay /\ base \in File /\ view[f] \in File
      BY <1>0 DEF TypeOK
    <3>3. /\ snap'[f].size = n
          /\ snap'[f].visible = IF n < snap[f].visible THEN n ELSE snap[f].visible
          /\ snap'[f].head = snap[f].head
          /\ \A j \in Chunk : j < n => snap'[f].page[j] = snap[f].page[j]
      BY <3>1, <3>2, TruncateToFields
    <3>4. /\ view'[f].size = n
          /\ \A j \in Chunk : j < n => view'[f].data[j] = view[f].data[j]
      BY <3>1, <3>2 DEF Cut
    <3>5. /\ source[f] = "base" => mode = "open"
          /\ source[f] = "memory" /\ ~cutOff[f] => snap[f].visible = 0
          /\ snap[f].size = view[f].size
          /\ \A j \in 0 .. view[f].size - 1 :
               ReadFails(f, j) \/ ReadChunk(snap[f], base, j) = view[f].data[j]
      BY <1>k, <3>1 DEF Keeps
    <3>6. ASSUME NEW j \in 0 .. n - 1
          PROVE  (ReadFails(f, j) \/ ReadChunk(snap[f], base, j) = view[f].data[j])'
      <4>1. j \in Chunk /\ j < n /\ j \in 0 .. view[f].size - 1
        BY <3>1, <3>2, <3>5, <3>6, NAssumption DEF File, Overlay, Size, Chunk
      <4>2. j < snap'[f].visible <=> j < snap[f].visible
        <5>1. snap[f].visible \in Int /\ n \in Int /\ j \in Int
          BY <3>2, <4>1 DEF Overlay, Size, Chunk
        <5> HIDE DEF Chunk
        <5> QED
          BY <3>3, <4>1, <5>1
      <4>3. QED
        BY <3>1, <3>3, <3>4, <3>5, <4>1, <4>2
        DEF ReadFails, ReadChunk, FillChunk, BaseRead
    <3>7. snap[f].visible = 0 => snap'[f].visible = 0
      BY <3>2, <3>3 DEF Overlay, Size
    <3>8. QED
      BY <3>1, <3>3, <3>4, <3>5, <3>6, <3>7 DEF Keeps
  <2>2. QED
    BY <1>6, <2>1, OneForkChanges, <1>0 DEF SnapshotTruncate, TypeOK
<1>7. ASSUME NEW chunks \in SUBSET Chunk, UnborrowFails(f, chunks) PROVE IInv'
  <2>1. Keeps(f)'
    <3>1. /\ snap'[f] = Preserve(snap[f], base, chunks)
          /\ source' = source /\ view' = view /\ base' = base /\ mode' = mode
          /\ source[f] = "base"
      BY <1>0, <1>7 DEF UnborrowFails, TypeOK, mainVars
    <3>2. snap[f] \in Overlay /\ base \in File /\ view[f] \in File
      BY <1>0 DEF TypeOK
    <3>3. /\ snap'[f].size = snap[f].size
          /\ \A i \in Chunk :
               ReadChunk(snap[f], base, i)' = ReadChunk(snap[f], base, i)
      BY <3>1, <3>2, PreserveFields, PreserveReads
    <3>4. \A i \in 0 .. view[f].size - 1 :
            i \in Chunk /\ ReadChunk(snap[f], base, i) = view[f].data[i]
      BY <1>k, <3>1, <3>2, Indices DEF Keeps, ReadFails
    <3>5. QED
      BY <1>k, <3>1, <3>3, <3>4 DEF Keeps, ReadFails
  <2>2. QED
    BY <1>7, <2>1, OneForkChanges, <1>0 DEF UnborrowFails, TypeOK
<1>8. QED
  BY <1>1, <1>2, <1>3, <1>4, <1>5, <1>6, <1>7

-----------------------------------------------------------------------------
(* The steps of a write-back.                                              *)

LEMMA AfterSteps ==
  ASSUME StepInv, AfterWriteBack,
         step \in {"preserve", "apply", "settle"}, UNCHANGED <<mode, touched>>,
         mode = "memory" => ov'.visible = 0
  PROVE  StepInv' /\ step' \in {"idle", "copy", "release"}
BY DEF StepInv, AfterWriteBack

(* Snapshots that copy chunks keep their view. *)
LEMMA ForksPreserve ==
  ASSUME TypeOK, SourceInv, KeepsItsView, NEW chunks,
         snap' = [f \in Fork |-> IF Borrower(f) THEN Preserve(snap[f], base, chunks)
                                                ELSE snap[f]],
         UNCHANGED <<mode, base, source, view, cutOff>>
  PROVE  KeepsItsView' /\ SourceInv'
<1>1. ASSUME NEW f \in Fork
      PROVE  Keeps(f)'
  <2>1. Keeps(f)
    BY EachKeeps
  <2>2. snap[f] \in Overlay /\ base \in File
    BY DEF TypeOK
  <2>3. CASE Borrower(f)
    <3>1. /\ snap'[f].size = snap[f].size /\ source[f] = "base"
          /\ \A i \in Chunk :
               ReadChunk(snap[f], base, i)' = ReadChunk(snap[f], base, i)
      BY <2>2, <2>3, PreserveFields, PreserveReads DEF Borrower
    <3>2. view[f] \in File
      BY DEF TypeOK
    <3>3. \A i \in 0 .. view[f].size - 1 :
            i \in Chunk /\ ReadChunk(snap[f], base, i) = view[f].data[i]
      BY <2>1, <3>1, <3>2, Indices DEF Keeps, ReadFails
    <3>4. QED
      BY <2>1, <3>1, <3>3 DEF Keeps, ReadFails
  <2>4. CASE ~Borrower(f)
    BY <2>1, <2>4 DEF Keeps, ReadFails
  <2>5. QED
    BY <2>3, <2>4
<1>2. QED
  BY <1>1 DEF SourceInv, KeepsItsView, Keeps

(* Snapshots keep their view when the file changes where they hold a copy. *)
LEMMA ForksWhenBaseChanges ==
  ASSUME TypeOK, SourceInv, KeepsItsView, TypeOK', BaseInv, BaseInv',
         UNCHANGED <<mode, forkVars>>,
         \A f \in Fork, i \in Chunk :
           Borrower(f) /\ i < snap[f].visible /\ base'.data[i] # base.data[i]
             => snap[f].page[i] # NoPage
  PROVE  KeepsItsView' /\ SourceInv'
<1>1. \A i \in Chunk : /\ FileRead(base, i) = base.data[i]
                       /\ FileRead(base', i) = base'.data[i]
  BY FileReadIsData DEF TypeOK, BaseInv
<1>2. ASSUME NEW f \in Fork
      PROVE  Keeps(f)'
  <2>1. Keeps(f)
    BY EachKeeps
  <2>2. view[f] \in File
    BY DEF TypeOK
  <2>3. /\ snap'[f] = snap[f] /\ source'[f] = source[f] /\ view'[f] = view[f]
        /\ cutOff'[f] = cutOff[f] /\ mode' = mode
    BY DEF forkVars
  <2>4. ASSUME NEW i \in 0 .. view[f].size - 1, source[f] # "closed"
        PROVE  \/ ReadFails(f, i)'
               \/ ReadChunk(snap[f], base, i)' = view[f].data[i]
    <3>1. i \in Chunk
      BY <2>2, Indices
    <3>2. CASE source[f] = "base"
      BY <1>1, <2>1, <2>3, <2>4, <3>1, <3>2
      DEF Keeps, Borrower, ReadFails, ReadChunk, FillChunk, BaseRead
    <3>3. CASE source[f] = "memory"
      BY <2>1, <2>3, <2>4, <3>3
      DEF Keeps, ReadFails, ReadChunk, FillChunk, BaseRead
    <3>4. QED
      BY <2>4, <3>2, <3>3 DEF TypeOK
  <2>5. QED
    BY <2>1, <2>3, <2>4 DEF Keeps
<1>3. QED
  BY <1>2 DEF SourceInv, KeepsItsView, Keeps

(* What a write-back leaves alone when it only goes on, or gives up. *)
LEMMA SameOverlay ==
  ASSUME IInv, UNCHANGED <<mode, ov, dirty, base, touched, committed>>,
         step \in {"preserve", "apply", "settle", "copy"},
         step' \in {"idle", "copy", "release"}
  PROVE  BaseInv' /\ MainInv' /\ ApplyInv' /\ PreservedInv'
<1>1. BaseInv /\ MainInv /\ ApplyInv
  BY DEF IInv
<1>2. QED
  BY <1>1 DEF BaseInv, MainInv, NoHoles, ApplyInv, DirtyHeld, PreservedInv

LEMMA InvWriteBack ==
  ASSUME IInv, WriteBack, TypeOK'
  PROVE  IInv'
<1>0. TypeOK /\ StepInv /\ BaseInv /\ MainInv /\ ApplyInv /\ PreservedInv
      /\ SourceInv /\ KeepsItsView
  BY DEF IInv
<1> USE DEF mainVars
<1>1. CASE NothingToStore
  <2>1. StepInv' /\ step' \in {"idle", "copy", "release"}
    BY <1>0, <1>1, AfterSteps DEF NothingToStore, StepInv
  <2>2. QED
    BY <1>0, <1>1, <2>1, SameOverlay, ForksKeepTheirView DEF NothingToStore, IInv
<1>2. CASE PreserveAndAppend
  <2>1. /\ UNCHANGED <<mode, caller, ov, dirty, stored, base, touched, committed,
                       source, view, cutOff>>
        /\ step = "preserve" /\ step' = "apply"
        /\ todo' = {i \in dirty : i < ov.size /\ ov.page[i] # NoPage}
        /\ snap' = [f \in Fork |-> IF Borrower(f)
                                   THEN Preserve(snap[f], base, Changing)
                                   ELSE snap[f]]
    BY <1>2 DEF PreserveAndAppend
  <2>2. StepInv' /\ BaseInv' /\ MainInv'
    BY <1>0, <2>1 DEF StepInv, BaseInv, MainInv, NoHoles
  <2>3. ApplyInv'
    BY <1>0, <2>1 DEF ApplyInv, DirtyHeld, StepInv
  <2>4. PreservedInv'
    <3>1. ASSUME NEW f \in Fork, NEW i \in Chunk, Borrower(f), i \in Changing,
                 i < snap'[f].visible
          PROVE  snap'[f].page[i] # NoPage
      <4>1. snap[f] \in Overlay /\ base \in File
        BY <1>0 DEF TypeOK
      <4>2. /\ snap'[f].visible = snap[f].visible
            /\ snap'[f].page[i] = IF i < snap[f].visible /\ snap[f].page[i] = NoPage
                                  THEN BaseRead(snap[f], base, i)
                                  ELSE snap[f].page[i]
        BY <2>1, <3>1, <4>1, PreserveFields
      <4>3. BaseRead(snap[f], base, i) # NoPage
        BY <4>1, BaseReadType, NoPageAssumption
      <4>4. QED
        BY <3>1, <4>2, <4>3
    <3>2. \A f \in Fork : Borrower(f)' <=> Borrower(f)
      BY <2>1 DEF Borrower
    <3>3. Changing' = Changing
      BY <2>1 DEF Changing
    <3>4. QED
      BY <3>1, <3>2, <3>3 DEF PreservedInv
  <2>5. QED
    BY <1>0, <2>1, <2>2, <2>3, <2>4, ForksPreserve DEF IInv
<1>3. CASE ApplyFails
  <2>1. StepInv' /\ step' \in {"idle", "copy", "release"}
    BY <1>0, <1>3, AfterSteps DEF ApplyFails, StepInv
  <2>2. QED
    BY <1>0, <1>3, <2>1, SameOverlay, ForksKeepTheirView DEF ApplyFails, IInv
<1>4. CASE Shrink
  <2>1. /\ UNCHANGED <<mode, caller, ov, dirty, stored, todo, touched, committed,
                       forkVars>>
        /\ step = "apply" /\ todo = {} /\ step' = "settle" /\ mode = "open"
        /\ base' = IF ov.size < stored
                   THEN [size |-> ov.size, data |-> Cut(base.data, ov.size)]
                   ELSE base
    BY <1>0, <1>4 DEF Shrink, StepInv
  <2>2. \A i \in Chunk : base'.data[i] = IF ov.size < stored /\ ~(i < ov.size)
                                         THEN 0 ELSE base.data[i]
    BY <2>1 DEF Cut
  <2>3. BaseInv'
    BY <1>0, <2>1, <2>2 DEF BaseInv, TypeOK, Overlay, Size, Chunk
  <2>4. \A i \in Chunk : /\ FileRead(base, i) = base.data[i]
                         /\ FileRead(base', i) = base'.data[i]
    BY <1>0, <2>3, FileReadIsData DEF TypeOK, BaseInv
  <2>5. MainInv'
    <3>1. \A i \in Chunk : i < ov.size =>
            ReadChunk(ov, base, i)' = ReadChunk(ov, base, i)
      BY <2>1, <2>2, <2>4 DEF ReadChunk, FillChunk, BaseRead
    <3>2. QED
      BY <1>0, <2>1, <3>1 DEF MainInv, NoHoles
  <2>6. ApplyInv' /\ StepInv' /\ PreservedInv'
    BY <1>0, <2>1, <2>2 DEF ApplyInv, DirtyHeld, StepInv, PreservedInv, TypeOK
  <2>7. \A f \in Fork, i \in Chunk :
          Borrower(f) /\ i < snap[f].visible /\ base'.data[i] # base.data[i]
            => snap[f].page[i] # NoPage
    BY <1>0, <2>1, <2>2 DEF PreservedInv, Changing, TypeOK, Overlay, Size, Chunk
  <2>8. QED
    BY <1>0, <2>1, <2>3, <2>5, <2>6, <2>7, ForksWhenBaseChanges DEF IInv
<1>5. CASE Settle
  <2>1. /\ UNCHANGED <<mode, base, todo, touched, committed, forkVars>>
        /\ step = "settle" /\ mode = "open" /\ dirty' = {}
        /\ ov'.size = ov.size /\ ov'.visible = ov.size
        /\ \A i \in Chunk : ov'.page[i] = IF i \in dirty THEN NoPage ELSE ov.page[i]
        /\ ov'.head = IF 0 < ov.size /\ ov.page[0] # NoPage THEN ov.page[0]
                                                            ELSE ov.head
    BY <1>0, <1>5 DEF Settle, StepInv, DropStored
  <2>2. StepInv' /\ step' \in {"idle", "copy", "release"}
    BY <1>0, <1>5, <2>1, AfterSteps DEF Settle
  <2>3. \A i \in Chunk : FileRead(base, i) = base.data[i]
    BY <1>0, FileReadIsData DEF TypeOK, BaseInv
  <2>4. ASSUME NEW i \in Chunk, i < ov.size
        PROVE  ReadChunk(ov, base, i)' = ReadChunk(ov, base, i)
    <3>1. i \in dirty => ov.page[i] # NoPage /\ base.data[i] = ov.page[i]
      BY <1>0, <2>1, <2>4 DEF ApplyInv, DirtyHeld
    <3>2. ov.page[i] # NoPage \/ i < ov.visible
      BY <1>0, <2>1, <2>4 DEF MainInv, NoHoles
    <3>3. CASE i \in dirty
      BY <2>1, <2>3, <2>4, <3>1, <3>3 DEF ReadChunk, FillChunk, BaseRead
    <3>4. CASE i \notin dirty
      BY <2>1, <2>3, <2>4, <3>2, <3>4 DEF ReadChunk, FillChunk, BaseRead
    <3>5. QED
      BY <3>3, <3>4
  <2>5. MainInv'
    BY <1>0, <2>1, <2>2, <2>4 DEF MainInv, NoHoles
  <2>6. BaseInv' /\ ApplyInv' /\ PreservedInv'
    BY <1>0, <2>1, <2>2 DEF BaseInv, ApplyInv, DirtyHeld, PreservedInv
  <2>7. QED
    BY <1>0, <2>1, <2>2, <2>5, <2>6, ForksKeepTheirView DEF IInv
<1>6. CASE SettleFails
  <2>1. StepInv' /\ step' \in {"idle", "copy", "release"}
    BY <1>0, <1>6, AfterSteps DEF SettleFails, StepInv
  <2>2. QED
    BY <1>0, <1>6, <2>1, SameOverlay, ForksKeepTheirView DEF SettleFails, IInv
<1>7. CASE Detach
  <2>1. /\ UNCHANGED <<base, todo, touched, committed, view, cutOff>>
        /\ step = "copy" /\ mode = "open" /\ mode' = "memory" /\ step' = "idle"
        /\ ov' = NoBase(Preserve(ov, base, 0 .. ov.size - 1))
        /\ dirty' = {}
        /\ \A f \in Fork :
             /\ source'[f] = IF Borrower(f) THEN "memory" ELSE source[f]
             /\ snap'[f] = IF Borrower(f) THEN NoBase(Preserve(snap[f], base, Chunk))
                           ELSE snap[f]
    BY <1>0, <1>7 DEF Detach, StepInv
  <2>2. ov \in Overlay /\ base \in File
    BY <1>0 DEF TypeOK
  <2>3. ov'.size = ov.size /\ ov'.visible = 0
    BY <2>1, <2>2, PreserveType, PreserveFields, NoBaseFields
  <2>4. ASSUME NEW i \in Chunk, i < ov.size
        PROVE  /\ ov'.page[i] # NoPage
               /\ ReadChunk(ov, base, i)' = ReadChunk(ov, base, i)
    <3>1. i \in 0 .. ov.size - 1
      BY <2>2, <2>4 DEF Overlay, Size, Chunk
    <3>2. ov'.page[i] = IF i < ov.visible /\ ov.page[i] = NoPage
                        THEN BaseRead(ov, base, i) ELSE ov.page[i]
      <4> DEFINE chunks == 0 .. ov.size - 1
      <4>1. /\ Preserve(ov, base, chunks) \in Overlay
            /\ Preserve(ov, base, chunks).page[i]
                 = IF i \in chunks /\ i < ov.visible /\ ov.page[i] = NoPage
                   THEN BaseRead(ov, base, i) ELSE ov.page[i]
        BY <2>2, PreserveType, PreserveFields
      <4>2. i \in chunks /\ ov' = NoBase(Preserve(ov, base, chunks))
        BY <2>1, <3>1
      <4> HIDE DEF chunks
      <4>3. QED
        BY <4>1, <4>2, NoBaseFields
    <3>3. BaseRead(ov, base, i) # NoPage
      BY <2>2, BaseReadType, NoPageAssumption
    <3>4. ov.page[i] # NoPage \/ i < ov.visible
      BY <1>0, <2>1, <2>4 DEF MainInv, NoHoles
    <3>5. ReadChunk(NoBase(Preserve(ov, base, 0 .. ov.size - 1)), base, i)
            = ReadChunk(ov, base, i)
      <4> DEFINE chunks == 0 .. ov.size - 1
      <4>1. i \in Chunk \cap chunks
        BY <3>1
      <4> HIDE DEF chunks
      <4>2. ReadChunk(NoBase(Preserve(ov, base, chunks)), base, i)
              = ReadChunk(ov, base, i)
        BY <2>2, <4>1, DetachedReads
      <4>3. QED
        BY <4>2 DEF chunks
    <3>6. QED
      BY <2>1, <3>2, <3>3, <3>4, <3>5
  <2>5. MainInv'
    BY <1>0, <2>1, <2>3, <2>4 DEF MainInv, NoHoles
  <2>6. StepInv' /\ BaseInv' /\ ApplyInv' /\ PreservedInv'
    BY <1>0, <2>1, <2>3 DEF StepInv, BaseInv, ApplyInv, PreservedInv
  <2>7. ASSUME NEW f \in Fork
        PROVE  Keeps(f)'
    <3>1. Keeps(f)
      BY <1>0, EachKeeps
    <3>2. snap[f] \in Overlay /\ view[f] \in File
      BY <1>0 DEF TypeOK
    <3>3. CASE Borrower(f)
      <4>1. /\ snap'[f].size = snap[f].size /\ snap'[f].visible = 0
            /\ source[f] = "base" /\ source'[f] = "memory"
        BY <2>1, <2>2, <3>2, <3>3, PreserveType, PreserveFields, NoBaseFields
        DEF Borrower
      <4>2. \A i \in Chunk :
              ReadChunk(snap[f], base, i)' = ReadChunk(snap[f], base, i)
        BY <2>1, <2>2, <3>2, <3>3, DetachedReads
      <4>3. \A i \in 0 .. view[f].size - 1 :
              i \in Chunk /\ ReadChunk(snap[f], base, i) = view[f].data[i]
        BY <3>1, <3>2, <4>1, Indices DEF Keeps, ReadFails
      <4>4. QED
        BY <2>1, <3>1, <4>1, <4>2, <4>3 DEF Keeps, ReadFails
    <3>4. CASE ~Borrower(f)
      BY <2>1, <3>1, <3>4 DEF Keeps, ReadFails, Borrower
    <3>5. QED
      BY <3>3, <3>4
  <2>8. QED
    BY <2>5, <2>6, <2>7 DEF IInv, SourceInv, KeepsItsView, Keeps
<1>8. ASSUME NEW i \in Chunk, Apply(i) PROVE IInv'
  <2>1. /\ UNCHANGED <<mode, caller, ov, dirty, stored, touched, committed, forkVars>>
        /\ step = "apply" /\ step' = "apply" /\ mode = "open"
        /\ i \in todo /\ todo' = todo \ {i} /\ ov.page[i] # NoPage
        /\ base'.size = IF i + 1 > base.size THEN i + 1 ELSE base.size
        /\ \A j \in Chunk : base'.data[j] = IF j = i THEN ov.page[i]
                                            ELSE base.data[j]
    BY <1>0, <1>8 DEF Apply, StepInv, WriteBase, TypeOK, File
  <2>2. BaseInv'
    <3>1. base.size \in Nat
      BY <1>0, NAssumption DEF TypeOK, File, Size
    <3>2. \A j \in Chunk : base'.size <= j => j # i /\ base.size <= j
      BY <2>1, <3>1, NAssumption DEF Chunk
    <3>3. QED
      BY <1>0, <2>1, <3>2 DEF BaseInv
  <2>3. \A j \in Chunk : /\ FileRead(base, j) = base.data[j]
                         /\ FileRead(base', j) = base'.data[j]
    BY <1>0, <2>2, FileReadIsData DEF TypeOK, BaseInv
  <2>4. MainInv'
    <3>1. \A j \in Chunk : ReadChunk(ov, base, j)' = ReadChunk(ov, base, j)
      BY <2>1, <2>3 DEF ReadChunk, FillChunk, BaseRead
    <3>2. QED
      BY <1>0, <2>1, <3>1 DEF MainInv, NoHoles
  <2>5. ApplyInv' /\ StepInv' /\ PreservedInv'
    BY <1>0, <2>1
    DEF ApplyInv, DirtyHeld, StepInv, PreservedInv, TypeOK, Changing, Borrower,
        forkVars
  <2>6. \A f \in Fork, j \in Chunk :
          Borrower(f) /\ j < snap[f].visible /\ base'.data[j] # base.data[j]
            => snap[f].page[j] # NoPage
    BY <1>0, <2>1 DEF PreservedInv, Changing, ApplyInv
  <2>7. QED
    BY <1>0, <2>1, <2>2, <2>4, <2>5, <2>6, ForksWhenBaseChanges DEF IInv
<1>9. ASSUME NEW chunks \in SUBSET Chunk, PreserveFails(chunks) PROVE IInv'
  <2>1. StepInv' /\ step' \in {"idle", "copy", "release"}
    BY <1>0, <1>9, AfterSteps DEF PreserveFails, StepInv
  <2>2. QED
    BY <1>0, <1>9, <2>1, SameOverlay, ForksPreserve DEF PreserveFails, IInv
<1>10. ASSUME NEW mine \in SUBSET Chunk, NEW theirs \in SUBSET Chunk,
              DetachFails(mine, theirs)
       PROVE  IInv'
  <2>1. /\ UNCHANGED <<mode, dirty, base, touched, committed, source, view, cutOff>>
        /\ step = "copy" /\ step' = "idle" /\ mode = "open"
        /\ ov' = Preserve(ov, base, mine)
        /\ snap' = [f \in Fork |-> IF Borrower(f) THEN Preserve(snap[f], base, theirs)
                                                  ELSE snap[f]]
    BY <1>0, <1>10 DEF DetachFails, StepInv
  <2>2. ov \in Overlay /\ base \in File
    BY <1>0 DEF TypeOK
  <2>3. /\ ov'.size = ov.size /\ ov'.visible = ov.visible
        /\ \A i \in Chunk : /\ ov.page[i] # NoPage => ov'.page[i] # NoPage
                            /\ ReadChunk(ov, base, i)' = ReadChunk(ov, base, i)
    BY <2>1, <2>2, PreserveFields, PreserveReads
  <2>4. StepInv' /\ BaseInv' /\ MainInv' /\ PreservedInv'
    BY <1>0, <2>1, <2>3 DEF StepInv, BaseInv, MainInv, NoHoles, PreservedInv
  <2>5. ApplyInv'
    BY <1>0, <2>1, <2>3 DEF ApplyInv, DirtyHeld, TypeOK
  <2>6. QED
    BY <1>0, <2>1, <2>4, <2>5, ForksPreserve DEF IInv
<1>11. ASSUME NEW lost \in SUBSET Fork, NEW chunks \in SUBSET Chunk,
              Close(lost, chunks)
       PROVE  IInv'
  <2>1. /\ base' = base /\ touched' = touched /\ mode' = "closed"
        /\ step = "release" /\ step' = "idle" /\ dirty' = {}
        /\ \A f \in Fork :
             /\ source'[f] = IF Borrower(f) THEN "memory" ELSE source[f]
             /\ cutOff'[f] = (cutOff[f] \/ (f \in lost /\ Borrower(f)))
             /\ view'[f] = view[f]
             /\ snap'[f] = IF ~Borrower(f) THEN snap[f]
                           ELSE IF f \in lost THEN Preserve(snap[f], base, chunks)
                           ELSE NoBase(Preserve(snap[f], base, Chunk))
    BY <1>0, <1>11 DEF Close
  <2>2. StepInv' /\ BaseInv' /\ MainInv' /\ ApplyInv' /\ PreservedInv'
    BY <1>0, <2>1 DEF StepInv, BaseInv, MainInv, ApplyInv, PreservedInv
  <2>3. ASSUME NEW f \in Fork
        PROVE  Keeps(f)'
    <3>1. Keeps(f)
      BY <1>0, EachKeeps
    <3>2. snap[f] \in Overlay /\ view[f] \in File /\ base \in File
      BY <1>0 DEF TypeOK
    <3>3. CASE Borrower(f)
      <4>1. /\ snap'[f].size = snap[f].size
            /\ f \notin lost => snap'[f].visible = 0
            /\ source[f] = "base" /\ source'[f] = "memory"
        BY <2>1, <3>2, <3>3, PreserveType, PreserveFields, NoBaseFields
        DEF Borrower
      <4>2. \A i \in Chunk :
              ReadChunk(snap[f], base, i)' = ReadChunk(snap[f], base, i)
        BY <2>1, <3>2, <3>3, DetachedReads, PreserveReads
      <4>3. \A i \in 0 .. view[f].size - 1 :
              i \in Chunk /\ ReadChunk(snap[f], base, i) = view[f].data[i]
        BY <3>1, <3>2, <4>1, Indices DEF Keeps, ReadFails
      <4>4. QED
        BY <2>1, <3>1, <3>3, <4>1, <4>2, <4>3 DEF Keeps, ReadFails
    <3>4. CASE ~Borrower(f)
      BY <2>1, <3>1, <3>4 DEF Keeps, ReadFails, Borrower
    <3>5. QED
      BY <3>3, <3>4
  <2>4. QED
    BY <2>2, <2>3 DEF IInv, SourceInv, KeepsItsView, Keeps
<1>12. QED
  BY <1>1, <1>2, <1>3, <1>4, <1>5, <1>6, <1>7, <1>8, <1>9, <1>10, <1>11
  DEF WriteBack

-----------------------------------------------------------------------------
(* Theorems *)

(* The invariant is inductive. *)
THEOREM Invariant == Spec => []IInv
<1>1. IInv /\ [Next]_vars => IInv'
  <2> SUFFICES ASSUME IInv, [Next]_vars PROVE IInv'
    OBVIOUS
  <2>1. TypeOK
    BY DEF IInv
  <2>2. CASE Client
    BY <2>1, <2>2, TypeClient, InvClient
  <2>3. CASE Snapshots
    BY <2>1, <2>3, TypeSnapshots, InvSnapshots
  <2>4. CASE WriteBack
    BY <2>1, <2>4, TypeWriteBack, InvWriteBack
  <2>5. CASE UNCHANGED vars
    BY <2>5, InvStutter
  <2>6. QED
    BY <2>2, <2>3, <2>4, <2>5 DEF Next
<1>2. QED
  BY InvInit, <1>1, PTL DEF Spec

(* A snapshot reads what it read when it was taken, or wrote itself, for   *)
(* any number of chunks, snapshots and transactions, at every step of a    *)
(* write-back, of detaching or closing the file, and whatever failed       *)
(* (ovPreserveLocked, ovReleaseBorrowersLocked, ovUnborrow).               *)
THEOREM SnapshotsKeepTheirView == Spec => []KeepsItsView
<1>1. IInv => KeepsItsView
  BY DEF IInv
<1>2. QED
  BY Invariant, <1>1, PTL

(* A read of a snapshot fails only if a copy failed when its file went.    *)
THEOREM ReadsFailOnlyAfterAFailedCopy == Spec => []FailsOnlyIfCopyFailed
<1>1. IInv => FailsOnlyIfCopyFailed
  <2> SUFFICES ASSUME IInv, NEW f \in Fork, NEW i \in Chunk, ReadFails(f, i)
               PROVE  cutOff[f]
    BY DEF FailsOnlyIfCopyFailed
  <2>1. source[f] = "memory" /\ i < snap[f].visible
    BY DEF ReadFails
  <2>2. snap[f].visible # 0
    BY <2>1 DEF Chunk
  <2>3. QED
    BY <2>1, <2>2 DEF IInv, SourceInv, TypeOK
<1>2. QED
  BY Invariant, <1>1, PTL

(* The stored overlay reads its last commit outside transactions, however  *)
(* far a write-back got (ovWriteBack).                                     *)
THEOREM MainKeepsItsCommit == Spec => []MainReadsLastCommit
<1>1. IInv => MainReadsLastCommit
  <2> SUFFICES ASSUME IInv, mode # "closed", step \notin {"txn", "cut"}
               PROVE  Content(ov, base) = committed
    BY DEF MainReadsLastCommit
  <2>1. TypeOK /\ MainInv /\ touched = {} /\ committed \in File
    BY DEF IInv, StepInv, TypeOK
  <2>2. ov.size = committed.size
    BY <2>1 DEF MainInv
  <2>3. ASSUME NEW i \in Chunk
        PROVE  (IF i < ov.size THEN ReadChunk(ov, base, i) ELSE 0) = committed.data[i]
    <3>1. i < ov.size \/ committed.size <= i
      BY <2>1, <2>2, NAssumption DEF File, Size, Chunk
    <3>2. QED
      BY <2>1, <2>2, <3>1, NAssumption DEF MainInv, File, Size, Chunk
  <2>4. committed = [size |-> committed.size,
                     data |-> [i \in Chunk |-> committed.data[i]]]
    BY <2>1 DEF File
  <2>5. QED
    BY <2>2, <2>3, <2>4 DEF Content
<1>2. QED
  BY Invariant, <1>1, PTL
=============================================================================
