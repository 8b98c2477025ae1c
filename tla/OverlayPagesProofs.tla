------------------------- MODULE OverlayPagesProofs -------------------------
(***************************************************************************)
(* What the operators of OverlayPages return: lemmas for the proofs about  *)
(* the modules that are built from them.                                   *)
(***************************************************************************)
EXTENDS OverlayPages, TLAPS

(* The page table operations keep an overlay an overlay. *)
LEMMA WriteChunkType ==
  ASSUME NEW ov \in Overlay, NEW i \in Chunk, NEW v \in Nat
  PROVE  WriteChunk(ov, i, v) \in Overlay
<1>1. [ov.page EXCEPT ![i] = v] \in [Chunk -> Page]
  BY DEF Overlay, Page
<1>2. (IF i + 1 > ov.size THEN i + 1 ELSE ov.size) \in Size
  BY NAssumption DEF Overlay, Chunk, Size
<1>3. QED
  BY <1>1, <1>2 DEF WriteChunk, Overlay

LEMMA TruncateToType ==
  ASSUME NEW ov \in Overlay, NEW n \in Size
  PROVE  TruncateTo(ov, n) \in Overlay
BY NAssumption DEF TruncateTo, Overlay, Chunk, Size, Page

LEMMA DropStoredType ==
  ASSUME NEW ov \in Overlay, NEW chunks
  PROVE  DropStored(ov, chunks) \in Overlay
BY NAssumption DEF DropStored, Overlay, Page, Chunk, Size

LEMMA RestoreType ==
  ASSUME NEW ov \in Overlay, NEW file \in File, NEW chunks
  PROVE  Restore(ov, file, chunks) \in Overlay
BY NAssumption DEF Restore, Overlay, File, Page, Chunk, Size

LEMMA NoBaseType ==
  ASSUME NEW ov \in Overlay
  PROVE  NoBase(ov) \in Overlay
BY NAssumption DEF NoBase, Overlay, Size

(* Cutting what a file holds leaves something a file can hold. *)
LEMMA CutType ==
  ASSUME NEW data \in [Chunk -> Nat], NEW n \in Size
  PROVE  Cut(data, n) \in [Chunk -> Nat]
BY DEF Cut

(* Reading gives the content of a chunk. *)
LEMMA BaseReadType ==
  ASSUME NEW ov \in Overlay, NEW base \in File, NEW i \in Chunk
  PROVE  BaseRead(ov, base, i) \in Nat
BY DEF BaseRead, FileRead, Overlay, File, Page

LEMMA ReadChunkType ==
  ASSUME NEW ov \in Overlay, NEW base \in File, NEW i \in Chunk
  PROVE  ReadChunk(ov, base, i) \in Nat
BY BaseReadType DEF ReadChunk, FillChunk, Overlay, Page

LEMMA ContentType ==
  ASSUME NEW ov \in Overlay, NEW base \in File
  PROVE  Content(ov, base) \in File
BY ReadChunkType DEF Content, File, Overlay

LEMMA PreserveType ==
  ASSUME NEW ov \in Overlay, NEW base \in File, NEW chunks
  PROVE  Preserve(ov, base, chunks) \in Overlay
BY BaseReadType DEF Preserve, Overlay, Page

LEMMA OpenedType ==
  ASSUME NEW base \in File
  PROVE  Opened(base) \in Overlay
BY NAssumption DEF Opened, Overlay, File, Page, NoPages, Chunk, Size

LEMMA EmptyType == EmptyOverlay \in Overlay /\ NoFile \in File
BY NAssumption DEF EmptyOverlay, NoFile, Overlay, File, Page, NoPages, Size

-----------------------------------------------------------------------------
(* What each operation leaves in the fields of an overlay. *)
LEMMA WriteChunkFields ==
  ASSUME NEW ov \in Overlay, NEW i \in Chunk, NEW v \in Nat
  PROVE  /\ WriteChunk(ov, i, v).size = IF i + 1 > ov.size THEN i + 1 ELSE ov.size
         /\ WriteChunk(ov, i, v).visible = ov.visible
         /\ WriteChunk(ov, i, v).head = ov.head
         /\ \A j \in Chunk : WriteChunk(ov, i, v).page[j]
                            = IF j = i THEN v ELSE ov.page[j]
BY DEF WriteChunk, Overlay

LEMMA TruncateToFields ==
  ASSUME NEW ov \in Overlay, NEW n \in Size
  PROVE  /\ TruncateTo(ov, n).size = n
         /\ TruncateTo(ov, n).visible = IF n < ov.visible THEN n ELSE ov.visible
         /\ TruncateTo(ov, n).head = ov.head
         /\ \A j \in Chunk : TruncateTo(ov, n).page[j]
                            = IF j < n THEN ov.page[j] ELSE NoPage
BY DEF TruncateTo, Overlay

LEMMA NoBaseFields ==
  ASSUME NEW ov \in Overlay
  PROVE  /\ NoBase(ov).size = ov.size /\ NoBase(ov).visible = 0
         /\ NoBase(ov).head = ov.head /\ NoBase(ov).page = ov.page
BY DEF NoBase, Overlay

LEMMA PreserveFields ==
  ASSUME NEW ov \in Overlay, NEW base \in File, NEW chunks
  PROVE  /\ Preserve(ov, base, chunks).size = ov.size
         /\ Preserve(ov, base, chunks).visible = ov.visible
         /\ Preserve(ov, base, chunks).head = ov.head
         /\ \A j \in Chunk : Preserve(ov, base, chunks).page[j]
              = IF j \in chunks /\ j < ov.visible /\ ov.page[j] = NoPage
                THEN BaseRead(ov, base, j) ELSE ov.page[j]
BY DEF Preserve, Overlay

LEMMA DropStoredFields ==
  ASSUME NEW ov \in Overlay, NEW chunks
  PROVE  /\ DropStored(ov, chunks).size = ov.size
         /\ DropStored(ov, chunks).visible = ov.size
         /\ DropStored(ov, chunks).head = IF 0 < ov.size /\ ov.page[0] # NoPage
                                         THEN ov.page[0] ELSE ov.head
         /\ \A j \in Chunk : DropStored(ov, chunks).page[j]
                            = IF j \in chunks THEN NoPage ELSE ov.page[j]
BY DEF DropStored

LEMMA RestoreFields ==
  ASSUME NEW ov \in Overlay, NEW file \in File, NEW chunks
  PROVE  /\ Restore(ov, file, chunks).size = file.size
         /\ Restore(ov, file, chunks).visible
              = IF file.size < ov.visible THEN file.size ELSE ov.visible
         /\ Restore(ov, file, chunks).head = ov.head
         /\ \A j \in Chunk : Restore(ov, file, chunks).page[j]
              = IF file.size <= j THEN NoPage
                ELSE IF j \in chunks THEN file.data[j] ELSE ov.page[j]
BY DEF Restore

LEMMA OpenedFields ==
  ASSUME NEW base \in File
  PROVE  /\ Opened(base).size = base.size /\ Opened(base).visible = base.size
         /\ Opened(base).head = IF base.size > 0 THEN base.data[0] ELSE NoPage
         /\ \A j \in Chunk : Opened(base).page[j] = NoPage
BY DEF Opened, NoPages

LEMMA ContentFields ==
  ASSUME NEW ov \in Overlay, NEW base \in File
  PROVE  /\ Content(ov, base).size = ov.size
         /\ \A j \in Chunk : Content(ov, base).data[j]
              = IF j < ov.size THEN ReadChunk(ov, base, j) ELSE 0
BY DEF Content

(* Files are the same if they have the same size and chunks.               *)
LEMMA SameFile ==
  ASSUME NEW f \in File, NEW g \in File, f.size = g.size,
         \A i \in Chunk : f.data[i] = g.data[i]
  PROVE  f = g
<1>1. f.data = g.data
  BY DEF File
<1> QED
  BY <1>1 DEF File

(* A copy of what an overlay reads from its base changes nothing it reads. *)
LEMMA PreserveReads ==
  ASSUME NEW ov \in Overlay, NEW base \in File, NEW chunks, NEW i \in Chunk
  PROVE  ReadChunk(Preserve(ov, base, chunks), base, i) = ReadChunk(ov, base, i)
BY BaseReadType, NoPageAssumption
DEF ReadChunk, FillChunk, Preserve, Overlay, Page, BaseRead

(* With a copy of every chunk, the base file is not needed any more. *)
LEMMA DetachedReads ==
  ASSUME NEW ov \in Overlay, NEW base \in File, NEW other \in File,
         NEW chunks, NEW i \in Chunk \cap chunks
  PROVE  ReadChunk(NoBase(Preserve(ov, base, chunks)), other, i)
           = ReadChunk(ov, base, i)
<1> DEFINE copy == Preserve(ov, base, chunks)
<1>1. copy \in Overlay
  BY PreserveType
<1>2. /\ NoBase(copy).page[i] = copy.page[i]
      /\ NoBase(copy).visible = 0
  BY <1>1, NoBaseFields
<1>3. copy.page[i] = IF i < ov.visible /\ ov.page[i] = NoPage
                     THEN BaseRead(ov, base, i) ELSE ov.page[i]
  BY PreserveFields
<1>4. BaseRead(ov, base, i) # NoPage
  BY BaseReadType, NoPageAssumption
<1> HIDE DEF copy
<1>5. QED
  BY <1>2, <1>3, <1>4 DEF ReadChunk, FillChunk, Chunk, copy

(* The chunks of a file. *)
LEMMA Indices ==
  ASSUME NEW file \in File, NEW i \in 0 .. file.size - 1
  PROVE  i \in Chunk /\ i < file.size
<1>1. file.size \in 0 .. N
  BY DEF File, Size
<1>2. QED
  BY <1>1, NAssumption DEF Chunk

(* A file that reads as zero past its end. *)
LEMMA FileReadIsData ==
  ASSUME NEW base \in File, \A i \in Chunk : base.size <= i => base.data[i] = 0
  PROVE  \A i \in Chunk : FileRead(base, i) = base.data[i]
BY NAssumption DEF FileRead, File, Size, Chunk

-----------------------------------------------------------------------------
(* Moving an overlay onto the file its snapshot was stored in.             *)
LEMMA FillFields ==
  ASSUME NEW ov \in Overlay, NEW base \in File, NEW chunks
  PROVE  /\ Fill(ov, base, chunks).size = ov.size
         /\ Fill(ov, base, chunks).visible = ov.visible
         /\ Fill(ov, base, chunks).head = ov.head
         /\ \A i \in Chunk : Fill(ov, base, chunks).page[i]
              = IF i \in chunks /\ ov.page[i] = NoPage
                THEN FillChunk(ov, base, i) ELSE ov.page[i]
BY DEF Fill, Overlay

LEMMA FillChunkType ==
  ASSUME NEW ov \in Overlay, NEW base \in File, NEW i \in Chunk
  PROVE  FillChunk(ov, base, i) \in Nat
BY BaseReadType DEF FillChunk

(* What ovPageForWrite leaves in the page table, it read from below. *)
LEMMA FillReads ==
  ASSUME NEW ov \in Overlay, NEW base \in File, NEW chunks, NEW i \in Chunk
  PROVE  ReadChunk(Fill(ov, base, chunks), base, i) = ReadChunk(ov, base, i)
<1> DEFINE full == Fill(ov, base, chunks)
<1>1. /\ full.visible = ov.visible /\ full.head = ov.head
      /\ full.page[i] = IF i \in chunks /\ ov.page[i] = NoPage
                        THEN FillChunk(ov, base, i) ELSE ov.page[i]
  BY FillFields
<1>2. FillChunk(ov, base, i) # NoPage
  BY FillChunkType, NoPageAssumption
<1> HIDE DEF full
<1>3. FillChunk(full, base, i) = FillChunk(ov, base, i)
  BY <1>1 DEF FillChunk, BaseRead
<1>4. QED
  BY <1>1, <1>2, <1>3 DEF ReadChunk, full

(* A rebase that fails on the way leaves the overlay reading what it read,  *)
(* still over its old base: the chunks it copied are what it would read.   *)
THEOREM FailedRebaseChangesNothing ==
  ASSUME NEW ov \in Overlay, NEW snap, NEW base \in File, NEW n
  PROVE  Content(RebaseFails(ov, base, snap, n), base) = Content(ov, base)
<1> DEFINE copied == {i \in Differing(ov, snap, Least(snap.size, ov.size)) : i < n}
<1>1. Fill(ov, base, copied).size = ov.size
  BY FillFields
<1>2. \A i \in Chunk : ReadChunk(Fill(ov, base, copied), base, i) = ReadChunk(ov, base, i)
  BY FillReads
<1>3. RebaseFails(ov, base, snap, n) = Fill(ov, base, copied)
  BY DEF RebaseFails
<1> HIDE DEF copied
<1>4. QED
  BY <1>1, <1>2, <1>3 DEF Content

(* A rebase changes nothing a reader sees: over the file that holds what    *)
(* the snapshot read, the overlay reads what it read over its old base,    *)
(* whatever was written to it and to the snapshot since.  Only the copy of *)
(* the first chunk of the old base must be the same in both.               *)
THEOREM RebaseChangesNothing ==
  ASSUME NEW ov \in Overlay, NEW snap \in Overlay, NEW base \in File,
         ov.head = snap.head
  PROVE  LET new == Content(snap, base)
         IN  Content(Rebase(ov, base, snap, new), new) = Content(ov, base)
<1> DEFINE new   == Content(snap, base)
           least == Least(snap.size, ov.size)
           diff  == Differing(ov, snap, least)
           full  == Fill(ov, base, diff)
           after == Rebase(ov, base, snap, new)
<1>1. /\ ov.size \in 0 .. N /\ snap.size \in 0 .. N
      /\ ov.visible \in 0 .. N /\ snap.visible \in 0 .. N
  BY DEF Overlay, Size
<1>2. /\ least \in 0 .. N /\ least <= ov.size /\ least <= snap.size
      /\ least = ov.size \/ least = snap.size
  BY <1>1, NAssumption DEF Least
<1>3. new.size = snap.size
  BY DEF Content
<1>4. \A i \in Chunk : i < least => new.data[i] = ReadChunk(snap, base, i)
  BY <1>1, <1>2, NAssumption DEF Content, Chunk
<1>5. /\ after.size = ov.size /\ after.visible = least
      /\ after.head = IF new.size > 0 THEN new.data[0] ELSE NoPage
  BY DEF Rebase
<1>6. \A i \in Chunk : after.page[i]
        = IF i < least /\ ov.page[i] # NoPage /\ ov.page[i] = snap.page[i]
          THEN NoPage ELSE full.page[i]
  BY DEF Rebase
<1>7. \A i \in Chunk : full.page[i] = IF i \in diff /\ ov.page[i] = NoPage
                                      THEN FillChunk(ov, base, i) ELSE ov.page[i]
  BY FillFields
<1>8. \A i \in Chunk : i \in diff <=>
        i < ov.size /\ IF least <= i THEN i < ov.visible
          ELSE snap.page[i] # NoPage \/ (i < snap.visible) # (i < ov.visible)
  BY DEF Differing
<1>9. \A i \in Chunk : FillChunk(ov, base, i) # NoPage
  BY FillChunkType, NoPageAssumption
<1>10. ASSUME NEW i \in Chunk, i < least
       PROVE  FillChunk(after, new, i) = ReadChunk(snap, base, i)
  <2>1. i < new.size
    BY <1>1, <1>2, <1>3, <1>10, NAssumption DEF Chunk
  <2>2. BaseRead(after, new, i) = new.data[i]
    <3> HIDE DEF new, after
    <3>1. CASE i = 0
      BY <2>1, <3>1, <1>5 DEF BaseRead, FileRead
    <3>2. CASE i # 0
      BY <2>1, <3>2 DEF BaseRead, FileRead
    <3>3. QED
      BY <3>1, <3>2
  <2>3. FillChunk(after, new, i) = BaseRead(after, new, i)
    <3> HIDE DEF new, after, least
    <3>1. QED
      BY <1>5, <1>10 DEF FillChunk
  <2>4. QED
    BY <2>2, <2>3, <1>4, <1>10
<1> HIDE DEF new, least, diff, full, after
<1>11. ASSUME NEW i \in Chunk, i < ov.size
       PROVE  ReadChunk(after, new, i) = ReadChunk(ov, base, i)
  <2>0. i \in 0 .. N - 1
    BY DEF Chunk
  <2>1. CASE least <= i
    <3>1. after.page[i] = full.page[i]
      BY <1>2, <1>6, <2>0, <2>1, NAssumption
    <3>2. FillChunk(after, new, i) = 0
      BY <1>2, <1>5, <2>0, <2>1, NAssumption DEF FillChunk
    <3>3. i \in diff <=> i < ov.visible
      BY <1>8, <1>11, <2>1
    <3>4. i < ov.visible \/ FillChunk(ov, base, i) = 0
      BY DEF FillChunk
    <3>5. QED
      BY <3>1, <3>2, <3>3, <3>4, <1>7, <1>9 DEF ReadChunk
  <2>2. CASE ~(least <= i)
    <3>1. i < least
      BY <1>2, <2>0, <2>2, NAssumption
    <3>2. FillChunk(after, new, i) = ReadChunk(snap, base, i)
      BY <1>10, <3>1
    <3>3. CASE ov.page[i] # NoPage
      BY <1>6, <1>7, <3>1, <3>2, <3>3 DEF ReadChunk
    <3>4. CASE ov.page[i] = NoPage
      <4>1. after.page[i] = full.page[i]
        BY <1>6, <3>4
      <4>2. CASE i \in diff
        BY <1>7, <1>9, <3>4, <4>1, <4>2 DEF ReadChunk
      <4>3. CASE i \notin diff
        <5>1. snap.page[i] = NoPage /\ ((i < snap.visible) <=> (i < ov.visible))
          BY <1>8, <1>11, <2>2, <4>3
        <5>2. FillChunk(snap, base, i) = FillChunk(ov, base, i)
          BY <5>1 DEF FillChunk, BaseRead
        <5>3. QED
          BY <1>7, <3>2, <3>4, <4>1, <4>3, <5>1, <5>2 DEF ReadChunk
      <4>4. QED
        BY <4>2, <4>3
    <3>5. QED
      BY <3>3, <3>4
  <2>3. QED
    BY <2>1, <2>2
<1>12. Content(after, new) = Content(ov, base)
  BY <1>5, <1>11 DEF Content
<1>13. QED
  BY <1>12 DEF after, new
=============================================================================
