---------------------------- MODULE OverlayPages ----------------------------
(***************************************************************************)
(* The copy-on-write page table of src/src/overlay.c, without state: an    *)
(* overlay is a record that its operations map to a new record.            *)
(*                                                                         *)
(* A file is a sequence of chunks, numbered from 0.  The chunk is the page *)
(* size of the database (ovUsePageSize), so a page is exactly one chunk    *)
(* and sizes are counted in chunks.  What a chunk holds is a number; 0 is  *)
(* a chunk of zeros, every other number is some content.                   *)
(***************************************************************************)
EXTENDS Integers

CONSTANTS N,         \* chunks a file may grow to
          NoPage     \* a page table entry (or pHead) that is NULL

ASSUME NAssumption == N \in Nat \ {0}
ASSUME NoPageAssumption == NoPage \notin Nat

Chunk == 0 .. N - 1
Size  == 0 .. N
Page  == Nat \union {NoPage}

(* What a file holds: its size, and each chunk (0 from its end on). *)
File == [size : Size, data : [Chunk -> Nat]]
NoFile == [size |-> 0, data |-> [i \in Chunk |-> 0]]
Cut(data, n) == [i \in Chunk |-> IF i < n THEN data[i] ELSE 0]

(* struct Overlay: szFile, szVisible, apPage and pHead (with nHead).  Only  *)
(* the chunks below visible are read from the base file.                   *)
Overlay == [size : Size, visible : Size, page : [Chunk -> Page], head : Page]

NoPages == [i \in Chunk |-> NoPage]
EmptyOverlay ==
  [size |-> 0, visible |-> 0, page |-> NoPages, head |-> NoPage]

(***************************************************************************)
(* Reading                                                                 *)
(***************************************************************************)
FileRead(base, i) == IF i < base.size THEN base.data[i] ELSE 0

(* ovBaseRead: the first chunk is kept in memory. *)
BaseRead(ov, base, i) ==
  IF i = 0 /\ ov.head # NoPage THEN ov.head ELSE FileRead(base, i)

(* ovFillChunk: what the lower layer holds for a chunk. *)
FillChunk(ov, base, i) == IF i < ov.visible THEN BaseRead(ov, base, i) ELSE 0

(* ovRead, for a chunk below the end of the file. *)
ReadChunk(ov, base, i) ==
  IF ov.page[i] # NoPage THEN ov.page[i] ELSE FillChunk(ov, base, i)

(* The file a connection sees. *)
Content(ov, base) ==
  [size |-> ov.size,
   data |-> [i \in Chunk |-> IF i < ov.size THEN ReadChunk(ov, base, i) ELSE 0]]

(***************************************************************************)
(* Writing                                                                 *)
(***************************************************************************)
(* Mutant of WriteChunk: the file grows by a chunk more than was written. *)
WriteChunkTooLong(ov, i, v) ==
  [ov EXCEPT !.page[i] = v, !.size = IF i + 1 >= @ THEN i + 2 ELSE @]

(* ovWrite of one whole page: the file grows to hold it. *)
WriteChunk(ov, i, v) ==
  [ov EXCEPT !.page[i] = v, !.size = IF i + 1 > @ THEN i + 1 ELSE @]

(* ovTruncate: pages past the end go, and the base is not read past it. *)
TruncateTo(ov, n) ==
  [ov EXCEPT !.size    = n,
             !.visible = IF n < @ THEN n ELSE @,
             !.page    = [i \in Chunk |-> IF i < n THEN @[i] ELSE NoPage]]

(* ovPreserveChunk for every chunk of a set: the overlay gets a copy of     *)
(* the chunks of the set that it reads from its base.                      *)
Preserve(ov, base, chunks) ==
  [ov EXCEPT !.page = [i \in Chunk |->
     IF i \in chunks /\ i < ov.visible /\ @[i] = NoPage
     THEN BaseRead(ov, base, i)
     ELSE @[i]]]

(* The base file is closed, or was never this overlay's.                   *)
NoBase(ov) == [ov EXCEPT !.visible = 0]

(* ovWriteBack, when the chunks are stored: the base file holds the whole  *)
(* file now, so they are dropped from memory, all but a copy of the first. *)
DropStored(ov, chunks) ==
  [size    |-> ov.size,
   visible |-> ov.size,
   page    |-> [i \in Chunk |-> IF i \in chunks THEN NoPage ELSE ov.page[i]],
   head    |-> IF 0 < ov.size /\ ov.page[0] # NoPage THEN ov.page[0]
                                                     ELSE ov.head]

(* SQLite's rollback: the file gets its size back, if it grew, and then the *)
(* content of the chunks that were journaled, by ordinary writes.          *)
Restore(ov, file, chunks) ==
  [size    |-> file.size,
   visible |-> IF file.size < ov.visible THEN file.size ELSE ov.visible,
   page    |-> [i \in Chunk |->
                  IF file.size <= i THEN NoPage
                  ELSE IF i \in chunks THEN file.data[i] ELSE ov.page[i]],
   head    |-> ov.head]

(* sqlite3_overlay_attach_base: chunks that are missing read as zero, also  *)
(* once there is a base file.                                              *)
FillHoles(ov) ==
  [ov EXCEPT !.visible = 0,
             !.page = [i \in Chunk |->
               IF i < ov.size /\ @[i] = NoPage THEN 0 ELSE @[i]]]

(* Mutant of Differing: that only the snapshot reads its base is forgotten. *)
DifferingHeld(ov, snap, least) ==
  {i \in Chunk : i < ov.size /\
     IF least <= i THEN i < ov.visible ELSE snap.page[i] # NoPage}

(* sqlite3_overlay_rebase: the chunks the overlay does not hold, and that    *)
(* would read differently from a base that holds what `snap' reads.        *)
Differing(ov, snap, least) ==
  {i \in Chunk : i < ov.size /\
     IF least <= i THEN i < ov.visible
     ELSE snap.page[i] # NoPage \/ (i < snap.visible) # (i < ov.visible)}

(* ovPageForWrite for every chunk of a set that the overlay does not hold. *)
Fill(ov, base, chunks) ==
  [ov EXCEPT !.page = [i \in Chunk |->
     IF i \in chunks /\ @[i] = NoPage THEN FillChunk(ov, base, i) ELSE @[i]]]

Least(m, n) == IF m < n THEN m ELSE n

(* The overlay moves from `base' onto a base that holds what `snap', a       *)
(* snapshot of it over `base', reads.  What it shares with the snapshot is *)
(* dropped from memory.                                                    *)
Rebase(ov, base, snap, new) ==
  LET least == Least(snap.size, ov.size)
      full  == Fill(ov, base, Differing(ov, snap, least))
  IN  [size    |-> ov.size,
       visible |-> least,
       page    |-> [i \in Chunk |->
                      IF i < least /\ ov.page[i] # NoPage /\ ov.page[i] = snap.page[i]
                      THEN NoPage ELSE full.page[i]],
       head    |-> IF new.size > 0 THEN new.data[0] ELSE NoPage]

(* It fails after the chunks that differ were filled up to chunk n. *)
RebaseFails(ov, base, snap, n) ==
  Fill(ov, base, {i \in Differing(ov, snap, Least(snap.size, ov.size)) : i < n})

(* ovReadHead, for a file that was just opened. *)
Opened(base) ==
  [size    |-> base.size,
   visible |-> base.size,
   page    |-> NoPages,
   head    |-> IF base.size > 0 THEN base.data[0] ELSE NoPage]

=============================================================================
