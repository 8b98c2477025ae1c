--------------------------- MODULE SessionsProofs ---------------------------
(***************************************************************************)
(* What a session saves is what it held when save() was called, for        *)
(* databases of any number of chunks, any number of keys, saves that wait, *)
(* deltas on deltas and other Workers that store and delete meanwhile.     *)
(*                                                                         *)
(* The second part is about the database of a session: its statements, and  *)
(* when it is saved by itself (Connection, AutoSave).                      *)
(***************************************************************************)
EXTENDS Sessions, AutoSave, OverlayPagesProofs, SequenceTheorems, FiniteSetTheorems,
        WellFoundedInduction

(***************************************************************************)
(* What the store holds                                                    *)
(***************************************************************************)
(* A delta lies over an older snapshot, that is there. *)
Ranked(st) ==
  \A k \in Key : st[k].parent # None =>
     /\ st[k].parent \in Key /\ st[st[k].parent] # NoSnapshot
     /\ st[st[k].parent].at < st[k].at

(* What each snapshot reads, if those below it read as `f' says. *)
Over(st, f) ==
  [k \in Key |-> Layered(st[k], IF st[k].parent = None THEN NoFile ELSE f[st[k].parent])]

LoadOf(st) == CHOOSE f : f = Over(st, f)

LEMMA LoadIs == Load = LoadOf(stored) /\ Load' = LoadOf(stored')
<1>1. Load = LoadOf(stored)
  BY Zenon DEF Load, LoadOf, Over
<1>2. Load' = LoadOf(stored')
  BY Zenon DEF Load, LoadOf, Over
<1> QED
  BY <1>1, <1>2

LEMMA LayeredType ==
  ASSUME NEW s \in Snapshot, NEW f \in File
  PROVE  Layered(s, f) \in File
BY DEF Layered, Snapshot, File, Page

LEMMA NoFileType == NoFile \in File
BY EmptyType

(* Of any snapshots, one is the oldest. *)
LEMMA Oldest ==
  ASSUME NEW st \in [Key -> Snapshot], NEW S \in SUBSET Key, S # {}
  PROVE  \E k \in S : \A j \in S : ~(st[j].at < st[k].at)
<1> DEFINE T == {st[k].at : k \in S}
           R == OpToRel(<, Nat)
<1>1. \A k \in S : st[k].at \in Nat
  BY DEF Snapshot
<1>2. T \subseteq Nat /\ T # {}
  BY <1>1
<1>3. \A x, y \in Nat : <<y, x>> \in R <=> y < x
  BY DEF OpToRel
<1>4. PICK x \in T : \A y \in T : ~ (<<y, x>> \in R)
  <2> HIDE DEF T, R
  <2>1. IsWellFoundedOn(OpToRel(<, Nat), Nat)
    BY NatLessThanWellFounded
  <2> QED
    BY <2>1, <1>2, WFMin, Zenon DEF R
<1>5. PICK k \in S : x = st[k].at
  OBVIOUS
<1>6. \A j \in S : ~(st[j].at < st[k].at)
  BY <1>1, <1>3, <1>4, <1>5
<1> QED
  BY <1>6

(* The recursion of Load ends: a snapshot is younger than what it lies over. *)
LEMMA LoadExists ==
  ASSUME NEW st \in [Key -> Snapshot], Ranked(st),
         NEW last \in Nat, \A k \in Key : st[k].at <= last
  PROVE  \E f \in [Key -> File] : f = Over(st, f)
<1> DEFINE Upto(n, f) == \A k \in Key : st[k].at < n => f[k] = Over(st, f)[k]
           Missing == {n \in Nat : ~\E f \in [Key -> File] : Upto(n, f)}
<1>1. \A k \in Key : st[k].at \in Nat /\ st[k] \in Snapshot
  BY DEF Snapshot
<1>2. ASSUME NEW f \in [Key -> File] PROVE Over(st, f) \in [Key -> File]
  <2>1. \A k \in Key : st[k].parent # None => f[st[k].parent] \in File
    BY DEF Ranked
  <2>2. \A k \in Key :
          Layered(st[k], IF st[k].parent = None THEN NoFile ELSE f[st[k].parent]) \in File
    BY <1>1, <2>1, LayeredType, NoFileType
  <2> QED
    BY <2>2 DEF Over
<1>3. \E f \in [Key -> File] : Upto(0, f)
  <2>1. [k \in Key |-> NoFile] \in [Key -> File]
    BY NoFileType
  <2>2. Upto(0, [k \in Key |-> NoFile])
    BY <1>1
  <2> HIDE DEF Upto
  <2> QED
    BY <2>1, <2>2
<1>4. ASSUME NEW n \in Nat, NEW f \in [Key -> File], Upto(n, f)
      PROVE  Upto(n + 1, Over(st, f))
  <2> DEFINE g == Over(st, f)
  <2> SUFFICES ASSUME NEW k \in Key, st[k].at < n + 1 PROVE g[k] = Over(st, g)[k]
    OBVIOUS
  <2>1. CASE st[k].parent = None
    BY <2>1 DEF Over
  <2>2. CASE st[k].parent # None
    <3> DEFINE p == st[k].parent
    <3>1. p \in Key /\ st[p].at < st[k].at
      BY <2>2 DEF Ranked
    <3>2. st[p].at < n
      BY <1>1, <3>1
    <3>3. g[p] = f[p]
      BY <1>4, <3>1, <3>2
    <3>4. g[k] = Layered(st[k], f[p]) /\ Over(st, g)[k] = Layered(st[k], g[p])
      BY <2>2 DEF Over
    <3> QED
      BY <3>3, <3>4
  <2> QED
    BY <2>1, <2>2
<1>5. Missing = {}
  <2> SUFFICES ASSUME Missing # {} PROVE FALSE
    OBVIOUS
  <2>1. PICK n \in Missing : \A m \in Nat : <<m, n>> \in OpToRel(<, Nat) => m \notin Missing
    <3> HIDE DEF Missing
    <3>1. Missing \subseteq Nat
      BY DEF Missing
    <3> QED
      BY <3>1, WFMin, NatLessThanWellFounded
  <2>2. n \in Nat /\ n # 0
    BY <1>3
  <2>3. n - 1 \in Nat /\ <<n - 1, n>> \in OpToRel(<, Nat)
    BY <2>2 DEF OpToRel
  <2>4. PICK f \in [Key -> File] : Upto(n - 1, f)
    BY <2>1, <2>3
  <2>5. Over(st, f) \in [Key -> File] /\ Upto(n, Over(st, f))
    <3>1. Upto((n - 1) + 1, Over(st, f))
      BY <1>4, <2>3, <2>4
    <3>2. (n - 1) + 1 = n
      BY <2>2
    <3> HIDE DEF Upto
    <3> QED
      BY <1>2, <3>1, <3>2
  <2> HIDE DEF Upto
  <2> QED
    BY <2>1, <2>5
<1>6. PICK f \in [Key -> File] : Upto(last + 1, f)
  <2> HIDE DEF Upto
  <2> QED
    BY <1>5
<1>7. \A k \in Key : f[k] = Over(st, f)[k]
  BY <1>1, <1>6
<1>8. Over(st, f) \in [Key -> File]
  BY <1>2
<1> QED
  BY <1>7, <1>8

(* So it is what each snapshot reads over what is below. *)
LEMMA LoadReads ==
  ASSUME NEW st \in [Key -> Snapshot], Ranked(st),
         NEW last \in Nat, \A k \in Key : st[k].at <= last
  PROVE  /\ LoadOf(st) \in [Key -> File]
         /\ \A k \in Key : LoadOf(st)[k] = Layered(st[k],
              IF st[k].parent = None THEN NoFile ELSE LoadOf(st)[st[k].parent])
<1>1. \E f : f = Over(st, f)
  BY LoadExists
<1>2. LoadOf(st) = Over(st, LoadOf(st))
  BY <1>1 DEF LoadOf
<1> DEFINE L == LoadOf(st)
           Below(k) == IF st[k].parent = None THEN NoFile ELSE L[st[k].parent]
<1>3. \A k \in Key : L[k] = Layered(st[k], Below(k))
  <2> SUFFICES ASSUME NEW k \in Key PROVE L[k] = Layered(st[k], Below(k))
    OBVIOUS
  <2>1. Over(st, L)[k] = Layered(st[k], Below(k))
    BY DEF Over
  <2> HIDE DEF Below, L
  <2> QED
    BY <1>2, <2>1 DEF L
<1>4. \A k \in Key : L[k] \in File
  <2> DEFINE S == {k \in Key : L[k] \notin File}
  <2> SUFFICES ASSUME S # {} PROVE FALSE
    OBVIOUS
  <2>1. PICK k \in S : \A j \in S : ~(st[j].at < st[k].at)
    <3> HIDE DEF L
    <3> QED
      BY Oldest
  <2> HIDE DEF L
  <2>2. Below(k) \in File
    <3>1. CASE st[k].parent = None
      BY <3>1, NoFileType
    <3>2. CASE st[k].parent # None
      BY <2>1, <3>2 DEF Ranked
    <3> QED
      BY <3>1, <3>2
  <2>3. st[k] \in Snapshot /\ L[k] = Layered(st[k], Below(k))
    BY <1>3
  <2> HIDE DEF Below
  <2>4. L[k] \in File
    BY <2>2, <2>3, LayeredType
  <2> QED
    BY <2>4
<1>5. L = [k \in Key |-> L[k]]
  BY <1>2 DEF Over
<1> HIDE DEF L
<1>6. L \in [Key -> File]
  BY <1>4, <1>5
<1> QED
  BY <1>3, <1>6 DEF L

(* A snapshot that nothing lies over may come or go: what the others read    *)
(* stays.                                                                  *)
LEMMA OthersLoadTheSame ==
  ASSUME NEW st \in [Key -> Snapshot], Ranked(st),
         NEW new \in [Key -> Snapshot], Ranked(new),
         NEW last \in Nat, \A k \in Key : st[k].at <= last /\ new[k].at <= last,
         NEW c \in Key, \A k \in Key : k # c => new[k] = st[k] /\ st[k].parent # c
  PROVE  \A k \in Key : k # c => LoadOf(new)[k] = LoadOf(st)[k]
<1> DEFINE L == LoadOf(st)
           M == LoadOf(new)
           S == {k \in Key : k # c /\ M[k] # L[k]}
<1>1. \A k \in Key : L[k] = Layered(st[k],
              IF st[k].parent = None THEN NoFile ELSE L[st[k].parent])
  BY LoadReads
<1>2. \A k \in Key : M[k] = Layered(new[k],
              IF new[k].parent = None THEN NoFile ELSE M[new[k].parent])
  BY LoadReads
<1> SUFFICES ASSUME S # {} PROVE FALSE
  OBVIOUS
<1> HIDE DEF L, M
<1>3. PICK k \in S : \A j \in S : ~(st[j].at < st[k].at)
  BY Oldest
<1>4. new[k] = st[k] /\ k \in Key /\ k # c /\ st[k].parent # c
  OBVIOUS
<1>5. CASE st[k].parent = None
  BY <1>1, <1>2, <1>4, <1>5
<1>6. CASE st[k].parent # None
  <2>1. st[k].parent \in Key /\ st[st[k].parent].at < st[k].at
    BY <1>4, <1>6 DEF Ranked
  <2>2. M[st[k].parent] = L[st[k].parent]
    BY <1>3, <1>4, <2>1
  <2>3. L[k] = Layered(st[k], L[st[k].parent])
    BY <1>1, <1>4, <1>6
  <2>4. M[k] = Layered(st[k], M[st[k].parent])
    BY <1>2, <1>4, <1>6
  <2> QED
    BY <2>2, <2>3, <2>4
<1> QED
  BY <1>5, <1>6

(***************************************************************************)
(* What overlays read                                                      *)
(***************************************************************************)
(* A file reads as zeros past its end. *)
Whole(file) == \A i \in Chunk : file.size <= i => file.data[i] = 0

HeadOf(file) == IF file.size > 0 THEN file.data[0] ELSE NoPage

(* An overlay over a file: nothing is left past its end, its copy of the    *)
(* first chunk is that of the file, and it was cut only by who wrote the   *)
(* header.                                                                 *)
Sound(ov, file) ==
  /\ Whole(file) /\ ov.head = HeadOf(file)
  /\ ov.visible <= ov.size
  /\ \A i \in Chunk : ov.size <= i => ov.page[i] = NoPage
  /\ ov.page[0] = NoPage => Least(ov.size, file.size) <= ov.visible

LEMMA ZeroChunk == 0 \in Chunk /\ N \in Size /\ 0 \in Size
BY NAssumption DEF Chunk, Size

LEMMA OverlayParts ==
  ASSUME NEW ov \in Overlay
  PROVE  /\ ov.size \in 0 .. N /\ ov.visible \in 0 .. N /\ ov.head \in Page
         /\ \A i \in Chunk : ov.page[i] \in Page
BY DEF Overlay, Size

LEMMA FileParts ==
  ASSUME NEW f \in File
  PROVE  f.size \in 0 .. N /\ \A i \in Chunk : f.data[i] \in Nat /\ f.data[i] # NoPage
BY NoPageAssumption DEF File, Size

(* What is below an overlay is what the file holds, as far as it is visible. *)
LEMMA SoundFills ==
  ASSUME NEW ov \in Overlay, NEW f \in File, Sound(ov, f), NEW i \in Chunk
  PROVE  FillChunk(ov, f, i) = IF i < ov.visible THEN f.data[i] ELSE 0
<1>1. FileRead(f, i) = f.data[i]
  BY FileReadIsData DEF Sound, Whole
<1>2. i = 0 /\ ov.head # NoPage => f.data[i] = ov.head
  BY DEF Sound, HeadOf
<1>3. BaseRead(ov, f, i) = f.data[i]
  BY <1>1, <1>2 DEF BaseRead
<1> QED
  BY <1>3 DEF FillChunk

LEMMA SoundContent ==
  ASSUME NEW ov \in Overlay, NEW f \in File, Sound(ov, f)
  PROVE  /\ Content(ov, f).size = ov.size
         /\ \A i \in Chunk : Content(ov, f).data[i]
              = IF i >= ov.size THEN 0
                ELSE IF ov.page[i] # NoPage THEN ov.page[i]
                ELSE IF i < ov.visible THEN f.data[i] ELSE 0
<1>1. \A i \in Chunk : Content(ov, f).data[i]
        = IF i < ov.size THEN ReadChunk(ov, f, i) ELSE 0
  BY ContentFields
<1>2. \A i \in Chunk : i < ov.size <=> ~(i >= ov.size)
  BY OverlayParts DEF Chunk
<1>3. \A i \in Chunk : ReadChunk(ov, f, i) = IF ov.page[i] # NoPage THEN ov.page[i]
                         ELSE IF i < ov.visible THEN f.data[i] ELSE 0
  BY SoundFills DEF ReadChunk
<1> QED
  BY <1>1, <1>2, <1>3, ContentFields

LEMMA WholeContent ==
  ASSUME NEW ov \in Overlay, NEW f \in File
  PROVE  Content(ov, f) \in File /\ Whole(Content(ov, f))
<1>1. \A i \in Chunk : ov.size <= i => ~(i < ov.size)
  BY OverlayParts DEF Chunk
<1> QED
  BY <1>1, ContentType, ContentFields DEF Whole

LEMMA WholeLayered ==
  ASSUME NEW s \in Snapshot, NEW f
  PROVE  Whole(Layered(s, f))
<1>1. \A i \in Chunk : s.size <= i => i >= s.size
  BY DEF Snapshot, Size, Chunk
<1> QED
  BY <1>1 DEF Whole, Layered

(* A transaction writes the header and a chunk, maybe far past the end. *)
LEMMA WriteReads ==
  ASSUME NEW ov \in Overlay, NEW f \in File, Sound(ov, f), NEW i \in Chunk, NEW w \in Nat
  PROVE  LET new == WriteChunk(WriteChunk(ov, 0, w), i, w)
             was == Content(ov, f)
         IN  /\ new \in Overlay /\ Sound(new, f)
             /\ Content(new, f) = [size |-> IF i < was.size THEN was.size ELSE i + 1,
                                   data |-> [was.data EXCEPT ![i] = w, ![0] = w]]
<1> DEFINE one == WriteChunk(ov, 0, w)
           new == WriteChunk(one, i, w)
           was == Content(ov, f)
           file == [size |-> IF i < was.size THEN was.size ELSE i + 1,
                    data |-> [was.data EXCEPT ![i] = w, ![0] = w]]
<1>1. one \in Overlay /\ new \in Overlay
  BY WriteChunkType, ZeroChunk
<1>2. /\ one.size = IF 0 + 1 > ov.size THEN 0 + 1 ELSE ov.size
      /\ one.visible = ov.visible /\ one.head = ov.head
      /\ \A j \in Chunk : one.page[j] = IF j = 0 THEN w ELSE ov.page[j]
  BY WriteChunkFields, ZeroChunk
<1>3. /\ new.size = IF i + 1 > one.size THEN i + 1 ELSE one.size
      /\ new.visible = one.visible /\ new.head = one.head
      /\ \A j \in Chunk : new.page[j] = IF j = i THEN w ELSE one.page[j]
  BY <1>1, WriteChunkFields
<1> HIDE DEF one, new
<1>4. new.visible = ov.visible /\ new.head = ov.head
      /\ \A j \in Chunk : new.page[j] = IF j = i \/ j = 0 THEN w ELSE ov.page[j]
  BY <1>2, <1>3
<1>5. i \in 0 .. N - 1 /\ ov.size \in 0 .. N /\ N \in Nat
  BY NAssumption, OverlayParts DEF Chunk
<1>6. new.size = (IF i < ov.size THEN ov.size ELSE i + 1) /\ ov.size <= new.size /\ i < new.size
      /\ 0 < new.size
  BY <1>2, <1>3, <1>5
<1>7. Sound(new, f)
  <2>1. new.visible <= new.size
    BY <1>4, <1>5, <1>6, OverlayParts DEF Sound
  <2>2. \A j \in Chunk : new.size <= j => j # i /\ j # 0 /\ ov.size <= j
    BY <1>1, <1>5, <1>6, OverlayParts DEF Chunk
  <2>3. new.page[0] # NoPage
    BY <1>4, ZeroChunk, NoPageAssumption
  <2> QED
    BY <2>1, <2>2, <2>3, <1>4 DEF Sound
<1>8. /\ was.size = ov.size
      /\ \A j \in Chunk : was.data[j]
           = IF j >= ov.size THEN 0
             ELSE IF ov.page[j] # NoPage THEN ov.page[j]
             ELSE IF j < ov.visible THEN f.data[j] ELSE 0
  BY SoundContent
<1>9. /\ Content(new, f).size = new.size
      /\ \A j \in Chunk : Content(new, f).data[j]
           = IF j >= new.size THEN 0
             ELSE IF new.page[j] # NoPage THEN new.page[j]
             ELSE IF j < new.visible THEN f.data[j] ELSE 0
  BY <1>1, <1>7, SoundContent
<1>10. was \in File /\ Content(new, f) \in File
  BY <1>1, ContentType
<1>11. file \in File
  <2>1. was.data \in [Chunk -> Nat] /\ was.size \in 0 .. N
    BY <1>10 DEF File, Size
  <2>2. (IF i < was.size THEN was.size ELSE i + 1) \in Size
    BY <1>5, <2>1 DEF Size
  <2> QED
    BY <2>1, <2>2 DEF File
<1>12. \A j \in Chunk : file.data[j] = IF j = i \/ j = 0 THEN w ELSE was.data[j]
  BY <1>10 DEF File
<1>13. file.size = new.size
  BY <1>6, <1>8
<1> HIDE DEF was, file
<1>14. ASSUME NEW j \in Chunk PROVE Content(new, f).data[j] = file.data[j]
  <2>1. j \in 0 .. N - 1
    BY DEF Chunk
  <2>2. CASE j = i \/ j = 0
    <3>1. ~(j >= new.size)
      BY <1>5, <1>6, <2>1, <2>2
    <3>2. new.page[j] = w /\ w # NoPage
      BY <1>4, <2>2, NoPageAssumption
    <3> QED
      BY <1>9, <1>12, <2>2, <3>1, <3>2
  <2>3. CASE ~(j = i \/ j = 0)
    <3>1. new.page[j] = ov.page[j] /\ file.data[j] = was.data[j]
      BY <1>4, <1>12, <2>3
    <3>2. CASE ~(j >= ov.size)
      <4>1. ~(j >= new.size)
        BY <1>5, <1>6, <2>1, <3>2
      <4> QED
        BY <1>4, <1>8, <1>9, <3>1, <3>2, <4>1
    <3>3. CASE j >= ov.size
      <4>1. ov.page[j] = NoPage /\ ~(j < ov.visible)
        BY <1>5, <2>1, <3>3, OverlayParts DEF Sound
      <4> QED
        BY <1>4, <1>8, <1>9, <3>1, <3>3, <4>1
    <3> QED
      BY <3>2, <3>3
  <2> QED
    BY <2>2, <2>3
<1>15. Content(new, f) = file
  BY <1>9, <1>10, <1>11, <1>13, <1>14, SameFile
<1> QED
  BY <1>1, <1>7, <1>15 DEF new, one, file, was

(* One that cuts the file writes the header as well. *)
LEMMA ShrinkReads ==
  ASSUME NEW ov \in Overlay, NEW f \in File, Sound(ov, f), NEW w \in Nat,
         NEW n \in Size, 0 < n, n < Content(ov, f).size
  PROVE  LET new == TruncateTo(WriteChunk(ov, 0, w), n)
         IN  /\ new \in Overlay /\ Sound(new, f)
             /\ Content(new, f)
                  = [size |-> n, data |-> Cut([Content(ov, f).data EXCEPT ![0] = w], n)]
<1> DEFINE one == WriteChunk(ov, 0, w)
           new == TruncateTo(one, n)
           was == Content(ov, f)
           file == [size |-> n, data |-> Cut([was.data EXCEPT ![0] = w], n)]
<1>1. one \in Overlay /\ new \in Overlay
  BY WriteChunkType, TruncateToType, ZeroChunk
<1>2. /\ one.visible = ov.visible /\ one.head = ov.head
      /\ \A j \in Chunk : one.page[j] = IF j = 0 THEN w ELSE ov.page[j]
  BY WriteChunkFields, ZeroChunk
<1>3. /\ new.size = n /\ new.visible = IF n < one.visible THEN n ELSE one.visible
      /\ new.head = one.head
      /\ \A j \in Chunk : new.page[j] = IF j < n THEN one.page[j] ELSE NoPage
  BY <1>1, TruncateToFields
<1> HIDE DEF one, new
<1>4. /\ was.size = ov.size
      /\ \A j \in Chunk : was.data[j]
           = IF j >= ov.size THEN 0
             ELSE IF ov.page[j] # NoPage THEN ov.page[j]
             ELSE IF j < ov.visible THEN f.data[j] ELSE 0
  BY SoundContent
<1>5. n \in 0 .. N /\ 0 < n /\ n < ov.size /\ ov.size \in 0 .. N /\ ov.visible \in 0 .. N
  BY <1>4, OverlayParts DEF Size
<1>6. Sound(new, f)
  <2>1. new.visible <= new.size
    BY <1>2, <1>3, <1>5
  <2>2. \A j \in Chunk : new.size <= j => new.page[j] = NoPage
    BY <1>3, <1>5 DEF Chunk
  <2>3. new.page[0] # NoPage
    BY <1>2, <1>3, <1>5, ZeroChunk, NoPageAssumption
  <2> QED
    BY <2>1, <2>2, <2>3, <1>2, <1>3 DEF Sound
<1>7. /\ Content(new, f).size = new.size
      /\ \A j \in Chunk : Content(new, f).data[j]
           = IF j >= new.size THEN 0
             ELSE IF new.page[j] # NoPage THEN new.page[j]
             ELSE IF j < new.visible THEN f.data[j] ELSE 0
  BY <1>1, <1>6, SoundContent
<1>8. was \in File /\ Content(new, f) \in File
  BY <1>1, ContentType
<1>9. [was.data EXCEPT ![0] = w] \in [Chunk -> Nat]
  BY <1>8 DEF File
<1>10. file \in File
  BY <1>9, CutType DEF File
<1>11. \A j \in Chunk : file.data[j] = IF j < n THEN IF j = 0 THEN w ELSE was.data[j] ELSE 0
  BY <1>8 DEF Cut, File
<1>12. file.size = n
  OBVIOUS
<1> HIDE DEF was, file
<1>13. ASSUME NEW j \in Chunk PROVE Content(new, f).data[j] = file.data[j]
  <2>1. j \in 0 .. N - 1
    BY DEF Chunk
  <2>2. CASE ~(j < n)
    <3>1. j >= new.size
      BY <1>3, <1>5, <2>1, <2>2
    <3> QED
      BY <1>7, <1>11, <2>2, <3>1
  <2>3. CASE j < n
    <3>1. ~(j >= new.size) /\ ~(j >= ov.size)
      BY <1>3, <1>5, <2>1, <2>3
    <3>2. j < new.visible <=> j < ov.visible
      BY <1>2, <1>3, <1>5, <2>1, <2>3
    <3>3. new.page[j] = IF j = 0 THEN w ELSE ov.page[j]
      BY <1>2, <1>3, <2>3
    <3>4. w # NoPage
      BY NoPageAssumption
    <3> QED
      BY <1>4, <1>7, <1>11, <2>3, <3>1, <3>2, <3>3, <3>4
  <2> QED
    BY <2>2, <2>3
<1>14. Content(new, f) = file
  BY <1>3, <1>7, <1>8, <1>10, <1>12, <1>13, SameFile
<1> QED
  BY <1>1, <1>6, <1>14 DEF new, one, file, was

(* A move onto what a snapshot over the same file reads. *)
LEMMA MoveReads ==
  ASSUME NEW ov \in Overlay, NEW snap \in Overlay, NEW f \in File,
         Sound(ov, f), Sound(snap, f)
  PROVE  LET new   == Content(snap, f)
             after == Rebase(ov, f, snap, new)
         IN  /\ after \in Overlay /\ Sound(after, new)
             /\ Content(after, new) = Content(ov, f)
<1> DEFINE new   == Content(snap, f)
           least == Least(snap.size, ov.size)
           diff  == Differing(ov, snap, least)
           full  == Fill(ov, f, diff)
           after == Rebase(ov, f, snap, new)
<1>1. Content(after, new) = Content(ov, f)
  BY RebaseChangesNothing DEF Sound
<1>2. new \in File /\ Whole(new)
  BY WholeContent
<1>3. /\ ov.size \in 0 .. N /\ snap.size \in 0 .. N /\ least \in 0 .. N
      /\ least <= ov.size /\ new.size = snap.size /\ N \in Nat
  BY OverlayParts, ContentFields, NAssumption DEF Least
<1>4. full.size = ov.size /\ \A i \in Chunk : full.page[i]
        = IF i \in diff /\ ov.page[i] = NoPage THEN FillChunk(ov, f, i) ELSE ov.page[i]
  BY FillFields
<1>5. \A i \in Chunk : full.page[i] \in Page
  BY <1>4, FillChunkType, OverlayParts DEF Page
<1>6. \A i \in diff : i < ov.size
  BY DEF Differing
<1> HIDE DEF least, diff, full, new
<1>7. after = [size |-> ov.size, visible |-> least,
       page    |-> [i \in Chunk |->
                      IF i < least /\ ov.page[i] # NoPage /\ ov.page[i] = snap.page[i]
                      THEN NoPage ELSE full.page[i]],
       head    |-> HeadOf(new)]
  BY DEF Rebase, HeadOf, least, diff, full, new
<1>8. HeadOf(new) \in Page
  BY <1>2, ZeroChunk, FileParts DEF HeadOf, Page
<1>9. after \in Overlay
  <2>1. [i \in Chunk |-> IF i < least /\ ov.page[i] # NoPage /\ ov.page[i] = snap.page[i]
                         THEN NoPage ELSE full.page[i]] \in [Chunk -> Page]
    BY <1>5 DEF Page
  <2>2. ov.size \in Size /\ least \in Size
    BY <1>3 DEF Size
  <2> QED
    BY <1>7, <1>8, <2>1, <2>2 DEF Overlay
<1>10. \A i \in Chunk : ov.size <= i => after.page[i] = NoPage
  <2> SUFFICES ASSUME NEW i \in Chunk, ov.size <= i PROVE after.page[i] = NoPage
    OBVIOUS
  <2>1. i \notin diff
    BY <1>3, <1>6 DEF Chunk
  <2>2. full.page[i] = NoPage
    BY <1>4, <2>1 DEF Sound
  <2> QED
    BY <1>7, <2>2
<1>11. after.size = ov.size /\ after.visible = least /\ after.head = HeadOf(new)
  BY <1>7
<1>12. Least(after.size, new.size) <= after.visible
  <2>1. Least(after.size, new.size) = least
    BY <1>3, <1>11 DEF Least, least
  <2> QED
    BY <1>3, <1>11, <2>1
<1> HIDE DEF after
<1>13. Sound(after, new)
  BY <1>2, <1>3, <1>10, <1>11, <1>12 DEF Sound
<1> QED
  BY <1>1, <1>9, <1>13 DEF new, after

(* A move that fails. *)
LEMMA FailedMoveReads ==
  ASSUME NEW ov \in Overlay, NEW snap, NEW f \in File, Sound(ov, f), NEW n
  PROVE  LET after == RebaseFails(ov, f, snap, n)
         IN  /\ after \in Overlay /\ Sound(after, f)
             /\ Content(after, f) = Content(ov, f)
<1> DEFINE diff  == Differing(ov, snap, Least(snap.size, ov.size))
           copied == {i \in diff : i < n}
           after == RebaseFails(ov, f, snap, n)
<1>1. after = Fill(ov, f, copied)
  BY DEF RebaseFails
<1>2. \A i \in diff : i < ov.size
  BY DEF Differing
<1>3. /\ after.size = ov.size /\ after.visible = ov.visible /\ after.head = ov.head
      /\ \A i \in Chunk : after.page[i]
           = IF i \in copied /\ ov.page[i] = NoPage THEN FillChunk(ov, f, i) ELSE ov.page[i]
  BY <1>1, FillFields
<1>4. after \in Overlay
  <2> HIDE DEF copied
  <2>1. [i \in Chunk |-> IF i \in copied /\ ov.page[i] = NoPage
                         THEN FillChunk(ov, f, i) ELSE ov.page[i]] \in [Chunk -> Page]
    BY FillChunkType, OverlayParts DEF Page
  <2>2. after = [ov EXCEPT !.page = [i \in Chunk |-> IF i \in copied /\ ov.page[i] = NoPage
                                     THEN FillChunk(ov, f, i) ELSE ov.page[i]]]
    BY <1>1 DEF Fill, Overlay
  <2> QED
    BY <2>1, <2>2 DEF Overlay
<1>5. \A i \in Chunk : ov.size <= i => i \notin copied
  BY <1>2, OverlayParts DEF Chunk
<1>6. after.page[0] = NoPage => ov.page[0] = NoPage
  BY <1>3, FillChunkType, ZeroChunk, NoPageAssumption
<1>7. Content(after, f) = Content(ov, f)
  BY FailedRebaseChangesNothing
<1> HIDE DEF copied, after
<1>8. \A i \in Chunk : ov.size <= i => after.page[i] = NoPage
  BY <1>3, <1>5 DEF Sound
<1>9. Sound(after, f)
  BY <1>3, <1>6, <1>8 DEF Sound
<1> QED
  BY <1>4, <1>7, <1>9 DEF after

(***************************************************************************)
(* The invariant                                                           *)
(***************************************************************************)
(* A snapshot of time `at' was stored under a key, and reads `file' if it is *)
(* still there.                                                            *)
Past(st, last, key, at, file) ==
  /\ key \in Key /\ 0 < at /\ at <= last
  /\ st[key].at = at => LoadOf(st)[key] = file

(* The store at time `last' *)
StoreInv(st, last) ==
  /\ Ranked(st)
  /\ \A k \in Key : /\ st[k].at <= last
                    /\ st[k] # NoSnapshot => 0 < st[k].at

(* A database or a waiting fork reads v, over a snapshot or nothing. *)
Reader(st, last, ov, b, v) ==
  /\ Sound(ov, b.file) /\ Content(ov, b.file) = v
  /\ b # Baseless => Past(st, last, b.key, b.at, b.file)

TypeInv == TypeOK /\ results \in SUBSET [key : Key, at : Nat, view : File]

ReadersInv ==
  /\ isOpen => Reader(stored, clock, db.ov, db.base, view)
  /\ \A j \in 1 .. Len(queue) :
       Reader(stored, clock, queue[j].ov, queue[j].base, queue[j].view)

(* What the first save wrote or found reads as its fork does. *)
TargetInv == target # Baseless =>
  /\ queue # <<>> /\ target.key = First.key
  /\ target.file = Content(First.ov, First.base.file)
  /\ Past(stored, clock, target.key, target.at, target.file)

ResultsInv == \A r \in results : Past(stored, clock, r.key, r.at, r.view)

IInv == TypeInv /\ StoreInv(stored, clock) /\ ReadersInv /\ TargetInv /\ ResultsInv

(***************************************************************************)
(* The store                                                               *)
(***************************************************************************)
LEMMA NoSnapshotType ==
  NoSnapshot \in Snapshot /\ NoSnapshot.at = 0 /\ NoSnapshot.parent = None
<1>1. NoPages \in [Chunk -> Page]
  BY DEF NoPages, Page
<1> QED
  BY <1>1, ZeroChunk DEF NoSnapshot, Snapshot

LEMMA StoreReads ==
  ASSUME NEW st \in [Key -> Snapshot], NEW last \in Nat, StoreInv(st, last)
  PROVE  /\ LoadOf(st) \in [Key -> File]
         /\ \A k \in Key : LoadOf(st)[k] = Layered(st[k],
              IF st[k].parent = None THEN NoFile ELSE LoadOf(st)[st[k].parent])
BY LoadReads DEF StoreInv

(* A snapshot that nothing lies over comes or goes. *)
LEMMA PastStays ==
  ASSUME NEW st \in [Key -> Snapshot], NEW last \in Nat, StoreInv(st, last),
         NEW new \in [Key -> Snapshot], NEW now \in Nat, StoreInv(new, now), last <= now,
         NEW c \in Key, \A k \in Key : k # c => new[k] = st[k] /\ st[k].parent # c,
         new[c].at = 0 \/ last < new[c].at,
         NEW key, NEW at \in Nat, NEW file, Past(st, last, key, at, file)
  PROVE  Past(new, now, key, at, file)
<1>1. \A k \in Key : st[k].at \in Nat /\ new[k].at \in Nat
  BY DEF Snapshot
<1>2. \A k \in Key : st[k].at <= now /\ new[k].at <= now
  BY <1>1 DEF StoreInv
<1>3. key \in Key /\ 0 < at /\ at <= last /\ at <= now
  BY DEF Past
<1>4. CASE key = c
  <2>1. new[key].at # at
    BY <1>1, <1>3, <1>4
  <2> QED
    BY <1>3, <2>1 DEF Past
<1>5. CASE key # c
  <2>1. \A k \in Key : k # c => LoadOf(new)[k] = LoadOf(st)[k]
    <3>1. Ranked(st) /\ Ranked(new)
      BY DEF StoreInv
    <3> QED
      BY <1>2, <3>1, OthersLoadTheSame
  <2> QED
    BY <1>3, <1>5, <2>1 DEF Past
<1> QED
  BY <1>4, <1>5

(* A new one is stored, over a snapshot that is there or nothing. *)
LEMMA PutStays ==
  ASSUME NEW st \in [Key -> Snapshot], NEW last \in Nat, StoreInv(st, last),
         NEW c \in Key, st[c] = NoSnapshot,
         NEW s \in Snapshot, s.at = last + 1,
         s.parent # None => s.parent \in Key /\ st[s.parent] # NoSnapshot
  PROVE  LET new == [st EXCEPT ![c] = s]
             below == IF s.parent = None THEN NoFile ELSE LoadOf(st)[s.parent]
         IN  /\ new \in [Key -> Snapshot] /\ StoreInv(new, last + 1)
             /\ Past(new, last + 1, c, s.at, Layered(s, below))
             /\ \A key, file : \A at \in Nat :
                  Past(st, last, key, at, file) => Past(new, last + 1, key, at, file)
<1> DEFINE new == [st EXCEPT ![c] = s]
           now == last + 1
<1>1. /\ new \in [Key -> Snapshot] /\ new[c] = s
      /\ \A k \in Key : k # c => new[k] = st[k]
  OBVIOUS
<1> HIDE DEF new
<1>2. \A k \in Key : st[k].parent # c
  BY NoneAssumption DEF StoreInv, Ranked
<1>3. now \in Nat /\ last < now
  OBVIOUS
<1>4. \A k \in Key : st[k].at \in Nat /\ st[k].at <= last
  BY DEF StoreInv, Snapshot
<1>5. \A k \in Key : new[k].at <= now /\ (new[k] # NoSnapshot => 0 < new[k].at)
  BY <1>1, <1>3, <1>4 DEF StoreInv
<1>6. s # NoSnapshot
  BY NoSnapshotType
<1>7. Ranked(new)
  <2> SUFFICES ASSUME NEW k \in Key, new[k].parent # None
               PROVE  LET p == new[k].parent
                      IN  p \in Key /\ new[p] # NoSnapshot /\ new[p].at < new[k].at
    BY DEF Ranked
  <2> DEFINE p == new[k].parent
  <2>1. CASE k = c
    <3>1. p = s.parent /\ p \in Key /\ st[p] # NoSnapshot /\ p # c
      BY <1>1, <2>1
    <3>2. new[p] = st[p]
      BY <1>1, <3>1
    <3>3. st[p].at < new[k].at
      BY <1>1, <1>4, <2>1, <3>1
    <3> QED
      BY <3>1, <3>2, <3>3
  <2>2. CASE k # c
    <3>1. new[k] = st[k] /\ p \in Key /\ st[p] # NoSnapshot /\ st[p].at < st[k].at
      BY <1>1, <2>2 DEF StoreInv, Ranked
    <3>2. new[p] = st[p]
      BY <1>1, <3>1
    <3> QED
      BY <3>1, <3>2
  <2> QED
    BY <2>1, <2>2
<1>8. StoreInv(new, now)
  BY <1>5, <1>7 DEF StoreInv
<1>9. ASSUME NEW key, NEW file, NEW at \in Nat, Past(st, last, key, at, file)
      PROVE  Past(new, now, key, at, file)
  <2>1. last <= now /\ last < new[c].at
    BY <1>1, <1>3
  <2> HIDE DEF now
  <2> QED
    BY <1>1, <1>2, <1>3, <1>8, <1>9, <2>1, PastStays
<1>10. LoadOf(new)[c] = Layered(s, IF s.parent = None THEN NoFile ELSE LoadOf(st)[s.parent])
  <2>1. LoadOf(new)[c] = Layered(s, IF s.parent = None THEN NoFile ELSE LoadOf(new)[s.parent])
    BY <1>1, <1>3, <1>8, StoreReads
  <2>2. CASE s.parent = None
    BY <2>1, <2>2
  <2>3. CASE s.parent # None
    <3>1. s.parent \in Key /\ s.parent # c
      BY <2>3
    <3>2. \A k \in Key : st[k].at <= now /\ new[k].at <= now
      BY <1>3, <1>4, <1>5
    <3>3. LoadOf(new)[s.parent] = LoadOf(st)[s.parent]
      <4>1. Ranked(st) /\ Ranked(new)
        BY <1>7 DEF StoreInv
      <4> HIDE DEF now
      <4> QED
        BY <1>1, <1>2, <1>3, <3>1, <3>2, <4>1, OthersLoadTheSame
    <3> QED
      BY <2>1, <2>3, <3>3
  <2> QED
    BY <2>2, <2>3
<1>11. Past(new, now, c, s.at, Layered(s, IF s.parent = None THEN NoFile ELSE LoadOf(st)[s.parent]))
  BY <1>3, <1>10 DEF Past
<1> QED
  BY <1>1, <1>8, <1>9, <1>11 DEF new

(* One that nothing lies over is deleted. *)
LEMMA RemovalStays ==
  ASSUME NEW st \in [Key -> Snapshot], NEW last \in Nat, StoreInv(st, last),
         NEW c \in Key, \A k \in Key : st[k].parent # c
  PROVE  LET new == [st EXCEPT ![c] = NoSnapshot]
         IN  /\ new \in [Key -> Snapshot] /\ StoreInv(new, last)
             /\ \A key, file : \A at \in Nat :
                  Past(st, last, key, at, file) => Past(new, last, key, at, file)
<1> DEFINE new == [st EXCEPT ![c] = NoSnapshot]
<1>1. /\ new \in [Key -> Snapshot] /\ new[c] = NoSnapshot
      /\ \A k \in Key : k # c => new[k] = st[k]
  BY NoSnapshotType
<1> HIDE DEF new
<1>2. Ranked(new)
  <2> SUFFICES ASSUME NEW k \in Key, new[k].parent # None
               PROVE  LET p == new[k].parent
                      IN  p \in Key /\ new[p] # NoSnapshot /\ new[p].at < new[k].at
    BY DEF Ranked
  <2>1. k # c
    BY <1>1, NoSnapshotType
  <2>2. new[k] = st[k] /\ st[k].parent \in Key /\ st[k].parent # c
    BY <1>1, <2>1 DEF StoreInv, Ranked
  <2>3. new[new[k].parent] = st[st[k].parent]
    BY <1>1, <2>2
  <2> QED
    BY <2>2, <2>3 DEF StoreInv, Ranked
<1>3. \A k \in Key : new[k].at <= last /\ (new[k] # NoSnapshot => 0 < new[k].at)
  BY <1>1, NoSnapshotType DEF StoreInv
<1>4. StoreInv(new, last)
  BY <1>2, <1>3 DEF StoreInv
<1>5. ASSUME NEW key, NEW file, NEW at \in Nat, Past(st, last, key, at, file)
      PROVE  Past(new, last, key, at, file)
  <2>1. last <= last /\ new[c].at = 0
    BY <1>1, NoSnapshotType
  <2> QED
    BY <1>1, <1>4, <1>5, <2>1, PastStays
<1> QED
  BY <1>1, <1>4, <1>5 DEF new

(***************************************************************************)
(* What a save writes or finds                                             *)
(***************************************************************************)
LEMMA FirstParts ==
  ASSUME IInv, queue # <<>>
  PROVE  /\ First \in Fork /\ First.ov \in Overlay /\ First.base \in Base
         /\ First.base.file \in File /\ First.key \in Key /\ First.view \in File
         /\ Reader(stored, clock, First.ov, First.base, First.view)
<1>1. queue \in Seq(Fork)
  BY DEF IInv, TypeInv, TypeOK
<1>2. 1 \in 1 .. Len(queue)
  BY <1>1, EmptySeq
<1>3. First \in Fork
  BY <1>1, <1>2, ElementOfSeq DEF First
<1>4. First.base \in Base /\ First.base.file \in File
  BY <1>3 DEF Fork, Base
<1>5. Reader(stored, clock, First.ov, First.base, First.view)
  BY <1>2 DEF IInv, ReadersInv, First
<1> QED
  BY <1>3, <1>4, <1>5 DEF Fork

LEMMA StoreParts ==
  ASSUME IInv
  PROVE  /\ stored \in [Key -> Snapshot] /\ clock \in Nat /\ StoreInv(stored, clock)
         /\ Load = LoadOf(stored) /\ Load \in [Key -> File]
BY StoreReads, LoadIs DEF IInv, TypeInv, TypeOK

(* A snapshot with the pages of an overlay reads what the overlay does. *)
LEMMA SamePagesReadTheSame ==
  ASSUME NEW ov \in Overlay, NEW f \in File, Sound(ov, f), NEW s \in Snapshot,
         s.size = ov.size, s.visible = ov.visible,
         \A i \in Chunk : i < ov.size => s.page[i] = ov.page[i]
  PROVE  Layered(s, f) = Content(ov, f)
<1>1. Layered(s, f) \in File /\ Content(ov, f) \in File
  BY LayeredType, ContentType
<1>2. /\ Layered(s, f).size = ov.size
      /\ \A i \in Chunk : Layered(s, f).data[i]
           = IF i >= ov.size THEN 0 ELSE IF s.page[i] # NoPage THEN s.page[i]
             ELSE IF i < ov.visible THEN f.data[i] ELSE 0
  BY DEF Layered
<1>3. \A i \in Chunk : i >= ov.size \/ i < ov.size
  BY OverlayParts DEF Chunk
<1>4. /\ Content(ov, f).size = ov.size
      /\ \A i \in Chunk : Content(ov, f).data[i]
           = IF i >= ov.size THEN 0 ELSE IF ov.page[i] # NoPage THEN ov.page[i]
             ELSE IF i < ov.visible THEN f.data[i] ELSE 0
  BY SoundContent
<1>5. \A i \in Chunk : Layered(s, f).data[i] = Content(ov, f).data[i]
  BY <1>2, <1>3, <1>4
<1> QED
  BY <1>1, <1>2, <1>4, <1>5, SameFile

LEMMA ShownIsVisible ==
  ASSUME IInv, queue # <<>>
  PROVE  Shown = First.ov.visible /\ Shown \in Size
<1>1. First.ov \in Overlay /\ First.ov.visible <= First.ov.size
  BY FirstParts DEF Reader, Sound
<1>2. Shown = First.ov.visible
  BY <1>1, OverlayParts DEF Shown
<1> QED
  BY <1>1, <1>2 DEF Overlay

LEMMA PagesAreCounted ==
  ASSUME IInv, queue # <<>>
  PROVE  Cardinality(Pages) \in Nat
<1>1. IsFiniteSet(Chunk)
  BY NAssumption, FS_Interval DEF Chunk
<1>2. Pages \in SUBSET Chunk
  BY DEF Pages
<1> QED
  BY <1>1, <1>2, FS_Subset, FS_CardinalityType

(* newSnapshot: a delta has the pages of its fork, over the base of its fork. *)
LEMMA DeltaReads ==
  ASSUME IInv, queue # <<>>, Delta, ParentThere
  PROVE  /\ AsDelta \in Snapshot /\ AsDelta.at = clock + 1
         /\ AsDelta.parent # None /\ AsDelta.parent \in Key
         /\ stored[AsDelta.parent] # NoSnapshot
         /\ LoadOf(stored)[AsDelta.parent] = First.base.file
         /\ Layered(AsDelta, First.base.file) = Content(First.ov, First.base.file)
<1>1. /\ First.ov \in Overlay /\ First.base \in Base /\ First.base.file \in File
      /\ Sound(First.ov, First.base.file)
      /\ First.base # Baseless =>
           Past(stored, clock, First.base.key, First.base.at, First.base.file)
  BY FirstParts DEF Reader
<1>2. Past(stored, clock, First.base.key, First.base.at, First.base.file)
  BY <1>1 DEF Delta
<1>3. First.base.key \in Key /\ First.base.key # None
  BY <1>2, NoneAssumption DEF Past
<1>4. LoadOf(stored)[First.base.key] = First.base.file
  BY <1>2 DEF Past, ParentThere
<1>5. AsDelta \in Snapshot
  <2>1. [i \in Chunk |-> IF i \in Pages THEN First.ov.page[i] ELSE NoPage] \in [Chunk -> Page]
    BY <1>1, OverlayParts DEF Page
  <2>2. /\ clock + 1 \in Nat /\ First.base.depth + 1 \in Nat
        /\ First.base.bytes + Cardinality(Pages) \in Nat /\ First.base.at \in Nat
    BY <1>1, StoreParts, PagesAreCounted DEF Base
  <2>3. First.ov.size \in Size /\ Shown \in Size
    BY <1>1, ShownIsVisible DEF Overlay
  <2> QED
    BY <1>3, <2>1, <2>2, <2>3 DEF AsDelta, Snapshot
<1>6. AsDelta.size = First.ov.size /\ AsDelta.visible = First.ov.visible
  BY ShownIsVisible DEF AsDelta
<1>7. \A i \in Chunk : i < First.ov.size => AsDelta.page[i] = First.ov.page[i]
  BY DEF AsDelta, Pages
<1>8. Layered(AsDelta, First.base.file) = Content(First.ov, First.base.file)
  BY <1>1, <1>5, <1>6, <1>7, SamePagesReadTheSame
<1>9. AsDelta.at = clock + 1 /\ AsDelta.parent = First.base.key
  BY DEF AsDelta
<1> QED
  BY <1>3, <1>4, <1>5, <1>8, <1>9 DEF ParentThere, There

(* One in full has all of the file. *)
LEMMA FullType ==
  ASSUME clock \in Nat, NEW file \in File
  PROVE  /\ InFull(file) \in Snapshot /\ InFull(file).at = clock + 1
         /\ InFull(file).parent = None /\ InFull(file).size = file.size
         /\ InFull(file).page = [i \in Chunk |-> IF i < file.size THEN file.data[i] ELSE NoPage]
<1> DEFINE page == [i \in Chunk |-> IF i < file.size THEN file.data[i] ELSE NoPage]
           s == InFull(file)
<1>1. page \in [Chunk -> Page]
  BY FileParts DEF Page
<1>2. file.size \in Size /\ clock + 1 \in Nat
  BY DEF File
<1>3. PICK r \in Snapshot, a \in Nat, z \in Size, p \in [Chunk -> Page] :
        r = NoSnapshot /\ a = clock + 1 /\ z = file.size /\ p = page
  BY <1>1, <1>2, NoSnapshotType
<1>4. /\ s \in Snapshot /\ s.at = clock + 1 /\ s.size = file.size /\ s.page = page
      /\ s.parent = None
  <2> DEFINE x == [r EXCEPT !.at = a, !.size = z, !.page = p]
  <2>1. s = x
    BY <1>3, Zenon DEF InFull
  <2>2. x \in Snapshot /\ x.at = a /\ x.size = z /\ x.page = p /\ x.parent = r.parent
    BY DEF Snapshot
  <2> HIDE DEF x, s, page
  <2> QED
    BY <1>3, <2>1, <2>2, NoSnapshotType
<1> QED
  BY <1>4

LEMMA FullReads ==
  ASSUME clock \in Nat, NEW file \in File, Whole(file), NEW below
  PROVE  Layered(InFull(file), below) = file
<1> DEFINE page == [i \in Chunk |-> IF i < file.size THEN file.data[i] ELSE NoPage]
           s == InFull(file)
<1>1. s.size = file.size /\ s.page = page
  BY FullType
<1>2. \A i \in Chunk : (i < file.size <=> ~(i >= file.size)) /\ (i >= file.size <=> file.size <= i)
  BY FileParts DEF Chunk
<1>3. \A i \in Chunk : i < file.size => page[i] = file.data[i] /\ page[i] # NoPage
  BY FileParts DEF page
<1> HIDE DEF s
<1>4. /\ Layered(s, below).size = file.size
      /\ Layered(s, below).data = [i \in Chunk |->
           IF i >= file.size THEN 0 ELSE IF page[i] # NoPage THEN page[i]
           ELSE IF i < s.visible THEN below.data[i] ELSE 0]
  BY <1>1 DEF Layered
<1>5. \A i \in Chunk : Layered(s, below).data[i] = file.data[i]
  BY <1>2, <1>3, <1>4 DEF Whole
<1>6. Layered(s, below).data = file.data
  BY <1>4, <1>5 DEF File
<1>7. Layered(s, below) = [size |-> file.size, data |-> file.data]
  BY <1>4, <1>6 DEF Layered
<1>8. file = [size |-> file.size, data |-> file.data]
  BY DEF File
<1> QED
  BY <1>7, <1>8 DEF s

(* existing: what is joined reads as the fork does. *)
LEMMA JoinedReads ==
  ASSUME IInv, queue # <<>>, There(First.key), Holds(First.key)
  PROVE  Load[First.key] = Content(First.ov, First.base.file)
<1> DEFINE k == First.key
           s == stored[k]
<1>1. /\ First.ov \in Overlay /\ First.base \in Base /\ First.base.file \in File
      /\ Sound(First.ov, First.base.file) /\ k \in Key
      /\ First.base # Baseless =>
           Past(stored, clock, First.base.key, First.base.at, First.base.file)
  BY FirstParts DEF Reader
<1>2. CASE ~SameLayout(s)
  BY <1>2 DEF Holds
<1>3. CASE SameLayout(s)
  <2>1. /\ s.parent # None /\ s.parent = First.base.key
        /\ stored[s.parent].at = First.base.at
        /\ s.visible = First.ov.visible /\ s.size = First.ov.size
        /\ {i \in Chunk : s.page[i] # NoPage} = Pages
    BY <1>3, ShownIsVisible DEF SameLayout
  <2>2. \A i \in Pages : s.page[i] = First.ov.page[i]
    BY <1>3 DEF Holds
  <2>3. \A i \in Chunk : i < First.ov.size => s.page[i] = First.ov.page[i]
    <3> SUFFICES ASSUME NEW i \in Chunk, i < First.ov.size PROVE s.page[i] = First.ov.page[i]
      OBVIOUS
    <3>1. CASE i \in Pages
      BY <2>2, <3>1
    <3>2. CASE i \notin Pages
      <4>1. First.ov.page[i] = NoPage
        BY <3>2 DEF Pages
      <4>2. s.page[i] = NoPage
        BY <2>1, <3>2
      <4> QED
        BY <4>1, <4>2
    <3> QED
      BY <3>1, <3>2
  <2>4. s \in Snapshot
    BY <1>1, StoreParts
  <2>5. Layered(s, First.base.file) = Content(First.ov, First.base.file)
    <3> HIDE DEF s
    <3> QED
      BY <1>1, <2>1, <2>3, <2>4, SamePagesReadTheSame
  <2>6. LoadOf(stored)[s.parent] = First.base.file
    BY <1>1, <1>3, <2>1 DEF Past, SameLayout
  <2>7. LoadOf(stored)[k] = Layered(s, LoadOf(stored)[s.parent])
    BY <1>1, <2>1, StoreParts, StoreReads
  <2> QED
    BY <2>5, <2>6, <2>7, StoreParts
<1> QED
  BY <1>2, <1>3

(* A fork that holds no page and is as long as its base reads its base. *)
LEMMA UnchangedReads ==
  ASSUME NEW ov \in Overlay, NEW f \in File, Sound(ov, f), ov.size = f.size,
         \A i \in Chunk : i < ov.size => ov.page[i] = NoPage
  PROVE  Content(ov, f) = f
<1>1. ov.size \in 0 .. N /\ ov.visible \in 0 .. N /\ N \in Nat
  BY OverlayParts, NAssumption
<1>2. ov.size <= ov.visible
  <2>1. CASE ov.size = 0
    BY <1>1, <2>1
  <2>2. CASE ov.size # 0
    <3>1. ov.page[0] = NoPage
      BY <1>1, <2>2, ZeroChunk
    <3>2. Least(ov.size, f.size) = ov.size
      BY <1>1 DEF Least
    <3> QED
      BY <3>1, <3>2 DEF Sound
  <2> QED
    BY <2>1, <2>2
<1>3. ASSUME NEW i \in Chunk PROVE Content(ov, f).data[i] = f.data[i]
  <2>1. CASE i >= ov.size
    <3>1. f.size <= i
      BY <1>1, <2>1 DEF Chunk
    <3> QED
      BY <2>1, <3>1, SoundContent DEF Sound, Whole
  <2>2. CASE ~(i >= ov.size)
    <3>1. i < ov.size /\ i < ov.visible
      BY <1>1, <1>2, <2>2 DEF Chunk
    <3> QED
      BY <2>2, <3>1, SoundContent
  <2> QED
    BY <2>1, <2>2
<1> QED
  BY <1>3, ContentType, SoundContent, SameFile

(***************************************************************************)
(* Initially                                                               *)
(***************************************************************************)
LEMMA FreshStart ==
  ASSUME Fresh, isOpen = TRUE, queue = <<>>, target = Baseless,
         results = {}, writes = 0, labels = 0
  PROVE  IInv
<1>1. NoFile \in File /\ EmptyOverlay \in Overlay /\ Baseless \in Base
  BY EmptyType DEF Baseless, Base
<1>2. Baseless.file = NoFile
  BY DEF Baseless
<1>3. db.ov = EmptyOverlay /\ db.base = Baseless /\ view = NoFile
      /\ db \in [ov : Overlay, base : Base]
  BY <1>1 DEF Fresh
<1>4. stored \in [Key -> Snapshot] /\ clock = 0
  BY NoSnapshotType DEF Fresh
<1>5. TypeInv
  <2>1. queue \in Seq(Fork)
    BY EmptySeq
  <2> QED
    BY <1>1, <1>3, <1>4, <2>1 DEF TypeInv, TypeOK
<1>6. \A k \in Key : stored[k] = NoSnapshot
  BY DEF Fresh
<1>7. StoreInv(stored, clock)
  BY <1>4, <1>6, NoSnapshotType DEF StoreInv, Ranked
<1>8. Sound(EmptyOverlay, NoFile)
  BY NAssumption DEF Sound, EmptyOverlay, NoFile, Whole, HeadOf, NoPages, Least
<1>9. Content(EmptyOverlay, NoFile) = NoFile
  <2>1. \A i \in Chunk : ~(i < 0)
    BY DEF Chunk
  <2> QED
    BY <2>1 DEF Content, EmptyOverlay, NoFile
<1>10. Reader(stored, clock, db.ov, db.base, view)
  BY <1>2, <1>3, <1>8, <1>9 DEF Reader
<1>11. Len(queue) = 0
  BY EmptySeq
<1> QED
  BY <1>5, <1>7, <1>10, <1>11 DEF IInv, ReadersInv, TargetInv, ResultsInv

LEMMA OpenedStart ==
  ASSUME NEW k \in Key, OpenedOn(k), isOpen = TRUE, queue = <<>>, target = Baseless,
         results = {}, writes = 0, labels = 0
  PROVE  IInv
<1> DEFINE file == [size |-> N, data |-> [i \in Chunk |-> MaxWrites + 2]]
           s == [NoSnapshot EXCEPT !.at = 1, !.size = N, !.page = file.data]
           base == [Baseless EXCEPT !.key = k, !.at = 1, !.file = file]
<1>1. /\ db = [ov |-> Opened(file), base |-> base] /\ view = file
      /\ stored = [j \in Key |-> IF j = k THEN s ELSE NoSnapshot] /\ clock = 1
  BY DEF OpenedOn
<1>2. file \in File /\ file.size = N /\ \A i \in Chunk : file.data[i] = MaxWrites + 2
  BY BoundsAssumption, ZeroChunk DEF File
<1>3. \A i \in Chunk : ~(i >= N) /\ ~(N <= i) /\ i < N
  BY NAssumption DEF Chunk
<1>4. file.data \in [Chunk -> Page] /\ \A i \in Chunk : file.data[i] # NoPage
  BY <1>2, BoundsAssumption, NoPageAssumption DEF Page, File
<1>5. s \in Snapshot /\ s.at = 1 /\ s.size = N /\ s.page = file.data /\ s.parent = None
  <2>1. PICK r \in Snapshot, p \in [Chunk -> Page] : r = NoSnapshot /\ p = file.data
    BY <1>4, NoSnapshotType
  <2> DEFINE x == [r EXCEPT !.at = 1, !.size = N, !.page = p]
  <2>2. s = x
    BY <2>1, Zenon
  <2>3. x \in Snapshot /\ x.at = 1 /\ x.size = N /\ x.page = p /\ x.parent = r.parent
    BY ZeroChunk DEF Snapshot
  <2> HIDE DEF x, s, file
  <2> QED
    BY <2>1, <2>2, <2>3, NoSnapshotType
<1>6. base \in Base /\ base.key = k /\ base.at = 1 /\ base.file = file
  <2>1. Baseless \in Base
    BY EmptyType DEF Baseless, Base
  <2>2. PICK r \in Base, g \in File : r = Baseless /\ g = file
    BY <1>2, <2>1
  <2> DEFINE x == [r EXCEPT !.key = k, !.at = 1, !.file = g]
  <2>3. base = x
    BY <2>2, Zenon
  <2>4. x \in Base /\ x.key = k /\ x.at = 1 /\ x.file = g
    BY DEF Base
  <2> HIDE DEF x, base, file
  <2> QED
    BY <2>2, <2>3, <2>4
<1> HIDE DEF s, base
<1>7. \A j \in Key : stored[j] \in Snapshot /\ stored[j].parent = None /\ stored[j].at <= 1
        /\ (stored[j] # NoSnapshot => 0 < stored[j].at)
  BY <1>1, <1>5, NoSnapshotType
<1>8. StoreInv(stored, clock) /\ stored \in [Key -> Snapshot] /\ stored[k] = s
  BY <1>1, <1>7 DEF StoreInv, Ranked
<1>9. Layered(s, NoFile) = file
  <2>1. Layered(s, NoFile) \in File
    BY <1>5, LayeredType, NoFileType
  <2>2. Layered(s, NoFile).size = file.size
    BY <1>2, <1>5 DEF Layered
  <2>3. \A i \in Chunk : Layered(s, NoFile).data[i] = file.data[i]
    BY <1>3, <1>4, <1>5 DEF Layered
  <2> HIDE DEF file
  <2> QED
    BY <1>2, <2>1, <2>2, <2>3, SameFile
<1> HIDE DEF file
<1>10. LoadOf(stored)[k] = file
  BY <1>1, <1>5, <1>8, <1>9, StoreReads
<1>11. Past(stored, clock, base.key, base.at, base.file)
  BY <1>1, <1>6, <1>10 DEF Past
<1> DEFINE ov == Opened(file)
<1>12. ov \in Overlay
  BY <1>2, OpenedType
<1>13. /\ ov.size = N /\ ov.visible = N /\ ov.head = HeadOf(file)
       /\ \A i \in Chunk : ov.page[i] = NoPage
  BY <1>2, OpenedFields DEF HeadOf
<1>14. Whole(file)
  BY <1>2, <1>3 DEF Whole
<1> HIDE DEF ov
<1>15. Sound(ov, file)
  <2>1. ov.visible <= ov.size /\ Least(ov.size, file.size) <= ov.visible
    BY <1>2, <1>13, NAssumption DEF Least
  <2> QED
    BY <1>13, <1>14, <2>1 DEF Sound
<1>16. Content(ov, file) = file
  BY <1>2, <1>12, <1>13, <1>15, UnchangedReads
<1>17. db.ov = ov /\ db.base = base /\ db \in [ov : Overlay, base : Base]
  BY <1>1, <1>6, <1>12 DEF ov
<1>18. Reader(stored, clock, db.ov, db.base, view)
  BY <1>1, <1>6, <1>11, <1>15, <1>16, <1>17 DEF Reader
<1>19. TypeInv
  <2>1. queue \in Seq(Fork) /\ Baseless \in Base
    BY EmptySeq, EmptyType DEF Baseless, Base
  <2> QED
    BY <1>1, <1>2, <1>8, <1>17, <2>1 DEF TypeInv, TypeOK
<1>20. Len(queue) = 0
  BY EmptySeq
<1> QED
  BY <1>8, <1>18, <1>19, <1>20 DEF IInv, ReadersInv, TargetInv, ResultsInv

LEMMA InitIInv == Init => IInv
BY FreshStart, OpenedStart DEF Init

(***************************************************************************)
(* Steps of the database                                                   *)
(***************************************************************************)
LEMMA DatabaseParts ==
  ASSUME IInv, isOpen
  PROVE  /\ db.ov \in Overlay /\ db.base \in Base /\ db.base.file \in File
         /\ view \in File /\ db = [ov |-> db.ov, base |-> db.base]
         /\ Reader(stored, clock, db.ov, db.base, view)
         /\ Sound(db.ov, db.base.file) /\ Content(db.ov, db.base.file) = view
BY DEF IInv, TypeInv, TypeOK, ReadersInv, Reader, Base

(* What only the database is concerned with. *)
LEMMA DatabaseStep ==
  ASSUME IInv, UNCHANGED <<queue, target, stored, results, clock, labels>>,
         isOpen' \in BOOLEAN, writes' \in Nat, view' \in File,
         NEW ov \in Overlay, NEW base \in Base, db' = [ov |-> ov, base |-> base],
         isOpen' => Reader(stored, clock, ov, base, view')
  PROVE  IInv'
<1>1. db' \in [ov : Overlay, base : Base] /\ db'.ov = ov /\ db'.base = base
  OBVIOUS
<1>2. TypeInv'
  BY <1>1 DEF IInv, TypeInv, TypeOK
<1>3. ReadersInv'
  BY <1>1 DEF IInv, ReadersInv
<1>4. StoreInv(stored, clock)' /\ TargetInv' /\ ResultsInv'
  BY DEF IInv, TargetInv, ResultsInv, First
<1> QED
  BY <1>2, <1>3, <1>4 DEF IInv

LEMMA WriteKeeps == ASSUME IInv, NEW i \in Written, Write(i) PROVE IInv'
<1> DEFINE w == writes + 1
           ov == WriteChunk(WriteChunk(db.ov, 0, w), i, w)
           file == [size |-> IF i < view.size THEN view.size ELSE i + 1,
                    data |-> [view.data EXCEPT ![i] = w, ![0] = w]]
<1>1. isOpen /\ isOpen' /\ i \in Chunk /\ w \in Nat /\ writes' = w
  BY BoundsAssumption DEF Write, IInv, TypeInv, TypeOK
<1>2. /\ db.ov \in Overlay /\ db.base \in Base /\ db.base.file \in File
      /\ db = [ov |-> db.ov, base |-> db.base]
      /\ Sound(db.ov, db.base.file) /\ Content(db.ov, db.base.file) = view
      /\ Reader(stored, clock, db.ov, db.base, view)
  BY <1>1, DatabaseParts
<1>3. ov \in Overlay /\ Sound(ov, db.base.file) /\ Content(ov, db.base.file) = file
  BY <1>1, <1>2, WriteReads
<1>4. file \in File
  BY <1>2, <1>3, ContentType
<1>5. view' = file
  BY <1>1 DEF Write
<1>6. db' = [db EXCEPT !.ov = WriteChunk(WriteChunk(@, 0, w), i, w)]
  BY <1>1 DEF Write
<1>7. db' = [ov |-> ov, base |-> db.base]
  BY <1>2, <1>6
<1> HIDE DEF ov, file
<1>8. Reader(stored, clock, ov, db.base, view')
  BY <1>2, <1>3, <1>5 DEF Reader
<1>9. isOpen' \in BOOLEAN /\ UNCHANGED <<queue, target, stored, results, clock, labels>>
  BY DEF Write, IInv, TypeInv, TypeOK
<1> QED
  BY <1>1, <1>2, <1>3, <1>4, <1>5, <1>7, <1>8, <1>9, DatabaseStep

LEMMA ShrinkKeeps == ASSUME IInv, NEW n \in Cuts, Shrink(n) PROVE IInv'
<1> DEFINE w == writes + 1
           ov == TruncateTo(WriteChunk(db.ov, 0, w), n)
           file == [size |-> n, data |-> Cut([view.data EXCEPT ![0] = w], n)]
<1>1. isOpen /\ isOpen' /\ n \in Size /\ w \in Nat /\ writes' = w /\ 0 < n /\ n < view.size
  BY BoundsAssumption DEF Shrink, IInv, TypeInv, TypeOK
<1>2. /\ db.ov \in Overlay /\ db.base \in Base /\ db.base.file \in File
      /\ db = [ov |-> db.ov, base |-> db.base]
      /\ Sound(db.ov, db.base.file) /\ Content(db.ov, db.base.file) = view
      /\ Reader(stored, clock, db.ov, db.base, view)
  BY <1>1, DatabaseParts
<1>3. ov \in Overlay /\ Sound(ov, db.base.file) /\ Content(ov, db.base.file) = file
  BY <1>1, <1>2, ShrinkReads
<1>4. file \in File
  BY <1>2, <1>3, ContentType
<1>5. view' = file
  BY <1>1 DEF Shrink
<1>6. db' = [db EXCEPT !.ov = TruncateTo(WriteChunk(@, 0, w), n)]
  BY <1>1 DEF Shrink
<1>7. db' = [ov |-> ov, base |-> db.base]
  BY <1>2, <1>6
<1> HIDE DEF ov, file
<1>8. Reader(stored, clock, ov, db.base, view')
  BY <1>2, <1>3, <1>5 DEF Reader
<1>9. isOpen' \in BOOLEAN /\ UNCHANGED <<queue, target, stored, results, clock, labels>>
  BY DEF Shrink, IInv, TypeInv, TypeOK
<1> QED
  BY <1>1, <1>2, <1>3, <1>4, <1>5, <1>7, <1>8, <1>9, DatabaseStep

LEMMA CloseKeeps == ASSUME IInv, Close PROVE IInv'
<1>1. EmptyOverlay \in Overlay /\ Baseless \in Base
  BY EmptyType DEF Baseless, Base
<1>2. /\ isOpen' = FALSE /\ db' = [ov |-> EmptyOverlay, base |-> Baseless]
      /\ UNCHANGED <<queue, target, stored, results, clock, labels, writes, view>>
  BY DEF Close
<1>3. isOpen' \in BOOLEAN /\ writes' \in Nat /\ view' \in File
  BY <1>2 DEF IInv, TypeInv, TypeOK
<1> QED
  BY <1>1, <1>2, <1>3, DatabaseStep

(***************************************************************************)
(* Steps of the queue                                                      *)
(***************************************************************************)
LEMMA Dropped ==
  ASSUME queue \in Seq(Fork), queue # <<>>
  PROVE  /\ Len(queue) \in Nat \ {0}
         /\ Tail(queue) \in Seq(Fork) /\ Len(Tail(queue)) = Len(queue) - 1
         /\ \A j \in 1 .. Len(queue) - 1 :
              /\ Tail(queue)[j] = queue[j + 1]
              /\ j + 1 \in 1 .. Len(queue) /\ queue[j + 1] \in Fork
<1>1. Len(queue) \in Nat \ {0}
  BY EmptySeq
<1>2. \A j \in 1 .. Len(queue) - 1 : j + 1 \in 1 .. Len(queue)
  BY <1>1
<1> QED
  BY <1>1, <1>2, HeadTailProperties, ElementOfSeq

LEMMA SaveKeeps == ASSUME IInv, NEW k \in Key, Save(k) PROVE IInv'
<1> DEFINE x == [ov |-> db.ov, base |-> db.base, key |-> k, view |-> view]
<1>1. /\ isOpen /\ queue' = Append(queue, x)
      /\ UNCHANGED <<db, isOpen, view, writes, target, stored, results, clock, labels>>
  BY DEF Save, dbVars
<1>2. x \in Fork /\ Reader(stored, clock, x.ov, x.base, x.view)
  BY <1>1, DatabaseParts DEF Fork
<1> HIDE DEF x
<1>3. queue \in Seq(Fork)
  BY DEF IInv, TypeInv, TypeOK
<1>4. /\ queue' \in Seq(Fork) /\ Len(queue') = Len(queue) + 1 /\ Len(queue) \in Nat
      /\ \A j \in 1 .. Len(queue) : queue'[j] = queue[j]
      /\ queue'[Len(queue) + 1] = x
  BY <1>1, <1>2, <1>3
<1>5. TypeInv'
  BY <1>1, <1>4 DEF IInv, TypeInv, TypeOK
<1>6. ReadersInv'
  <2>1. ASSUME NEW j \in 1 .. Len(queue')
        PROVE  Reader(stored, clock, queue'[j].ov, queue'[j].base, queue'[j].view)
    <3>1. CASE j \in 1 .. Len(queue)
      BY <1>4, <3>1 DEF IInv, ReadersInv
    <3>2. CASE j = Len(queue) + 1
      BY <1>2, <1>4, <3>2
    <3> QED
      BY <1>4, <3>1, <3>2
  <2> QED
    BY <1>1, <2>1 DEF IInv, ReadersInv
<1>7. TargetInv'
  <2> SUFFICES ASSUME target # Baseless PROVE TargetInv'
    BY <1>1 DEF TargetInv
  <2>1. queue # <<>> /\ queue'[1] = queue[1]
    <3>1. queue # <<>>
      BY DEF IInv, TargetInv
    <3>2. 1 \in 1 .. Len(queue)
      BY <1>3, <3>1, EmptySeq
    <3> QED
      BY <1>4, <3>1, <3>2
  <2>2. queue' # <<>>
    BY <1>4, EmptySeq
  <2> QED
    BY <1>1, <2>1, <2>2 DEF IInv, TargetInv, First
<1>8. StoreInv(stored, clock)' /\ ResultsInv'
  BY <1>1 DEF IInv, ResultsInv
<1> QED
  BY <1>5, <1>6, <1>7, <1>8 DEF IInv

(* The first save ends without a target. *)
LEMMA DropKeeps ==
  ASSUME IInv, queue # <<>>, target = Baseless, queue' = Tail(queue),
         UNCHANGED <<db, isOpen, view, writes, target, stored, clock, labels>>,
         results' \in SUBSET [key : Key, at : Nat, view : File],
         \A r \in results' : Past(stored, clock, r.key, r.at, r.view)
  PROVE  IInv'
<1>1. queue \in Seq(Fork)
  BY DEF IInv, TypeInv, TypeOK
<1>2. /\ queue' \in Seq(Fork) /\ Len(queue') = Len(queue) - 1
      /\ \A j \in 1 .. Len(queue) - 1 : queue'[j] = queue[j + 1] /\ j + 1 \in 1 .. Len(queue)
  BY <1>1, Dropped
<1>3. TypeInv'
  BY <1>2 DEF IInv, TypeInv, TypeOK
<1>4. \A j \in 1 .. Len(queue') :
        Reader(stored, clock, queue'[j].ov, queue'[j].base, queue'[j].view)
  BY <1>2 DEF IInv, ReadersInv
<1>5. ReadersInv' /\ StoreInv(stored, clock)' /\ ResultsInv' /\ TargetInv'
  BY <1>4 DEF IInv, ReadersInv, ResultsInv, TargetInv
<1> QED
  BY <1>3, <1>5 DEF IInv

LEMMA StoreFailsKeeps == ASSUME IInv, StoreFails PROVE IInv'
<1>1. /\ queue # <<>> /\ target = Baseless /\ queue' = Tail(queue)
      /\ UNCHANGED <<db, isOpen, view, writes, target, stored, clock, labels, results>>
  BY DEF StoreFails, Saving, dbVars
<1>2. /\ results' \in SUBSET [key : Key, at : Nat, view : File]
      /\ \A r \in results' : Past(stored, clock, r.key, r.at, r.view)
  BY <1>1 DEF IInv, TypeInv, ResultsInv
<1> QED
  BY <1>1, <1>2, DropKeeps

LEMMA UnchangedKeeps == ASSUME IInv, Unchanged PROVE IInv'
<1> DEFINE r == [key |-> First.key, at |-> First.base.at, view |-> First.view]
<1>1. /\ queue # <<>> /\ target = Baseless /\ queue' = Tail(queue)
      /\ First.base.key = First.key
      /\ UNCHANGED <<db, isOpen, view, writes, target, stored, clock, labels>>
  BY DEF Unchanged, Saving, dbVars
<1>2. /\ First.ov \in Overlay /\ First.base \in Base /\ First.base.file \in File
      /\ First.key \in Key /\ First.view \in File
      /\ Sound(First.ov, First.base.file) /\ Content(First.ov, First.base.file) = First.view
      /\ First.base # Baseless =>
           Past(stored, clock, First.base.key, First.base.at, First.base.file)
  BY <1>1, FirstParts DEF Reader
<1>3. First.base # Baseless
  BY <1>1, <1>2, NoneAssumption DEF Baseless
<1>4. r \in [key : Key, at : Nat, view : File]
  BY <1>2 DEF Base
<1>5. ASSUME Pages = {}, First.ov.size = First.base.file.size
      PROVE  Past(stored, clock, r.key, r.at, r.view)
  <2>1. \A i \in Chunk : i < First.ov.size => First.ov.page[i] = NoPage
    BY <1>5 DEF Pages
  <2>2. First.view = First.base.file
    BY <1>2, <1>5, <2>1, UnchangedReads
  <2> QED
    BY <1>1, <1>2, <1>3, <2>2
<1>6. results' = IF Pages = {} /\ First.ov.size = First.base.file.size
                 THEN results \union {r} ELSE results
  BY DEF Unchanged
<1>7. /\ results \in SUBSET [key : Key, at : Nat, view : File]
      /\ \A q \in results : Past(stored, clock, q.key, q.at, q.view)
  BY DEF IInv, TypeInv, ResultsInv
<1> HIDE DEF r
<1>8. /\ results' \in SUBSET [key : Key, at : Nat, view : File]
      /\ \A q \in results' : Past(stored, clock, q.key, q.at, q.view)
  BY <1>4, <1>5, <1>6, <1>7
<1> QED
  BY <1>1, <1>8, DropKeeps

LEMMA JoinKeeps == ASSUME IInv, Join PROVE IInv'
<1> DEFINE k == First.key
           new == NewBase(stored[k], k, Load[k])
<1>1. /\ queue # <<>> /\ target = Baseless /\ There(k)
      /\ UNCHANGED <<db, isOpen, view, writes, stored, clock, labels, results>>
      /\ IF Holds(k) THEN target' = new /\ queue' = queue
                     ELSE queue' = Tail(queue) /\ target' = target
  BY DEF Join, Saving, dbVars
<1>2. CASE ~Holds(k)
  <2>1. /\ results' \in SUBSET [key : Key, at : Nat, view : File]
        /\ \A r \in results' : Past(stored, clock, r.key, r.at, r.view)
    BY <1>1 DEF IInv, TypeInv, ResultsInv
  <2> QED
    BY <1>1, <1>2, <2>1, DropKeeps
<1>3. CASE Holds(k)
  <2>1. k \in Key /\ stored[k] \in Snapshot /\ Load[k] \in File
    BY <1>1, FirstParts, StoreParts
  <2>2. new = [key |-> k, at |-> stored[k].at, label |-> labels + 1, depth |-> stored[k].depth,
               bytes |-> stored[k].bytes, file |-> Load[k]]
    BY DEF NewBase
  <2>3. labels + 1 \in Nat
    BY DEF IInv, TypeInv, TypeOK
  <2> HIDE DEF new
  <2>4. new \in Base
    BY <2>1, <2>2, <2>3 DEF Base, Snapshot
  <2>5. Past(stored, clock, new.key, new.at, new.file)
    <3>1. 0 < stored[k].at /\ stored[k].at <= clock
      BY <1>1, <2>1, StoreParts DEF StoreInv, There
    <3> QED
      BY <2>1, <2>2, <3>1, StoreParts DEF Past
  <2>6. new.file = Content(First.ov, First.base.file)
    BY <1>1, <1>3, <2>2, JoinedReads
  <2>7. TypeInv'
    BY <1>1, <1>3, <2>4 DEF IInv, TypeInv, TypeOK
  <2>8. TargetInv'
    BY <1>1, <1>3, <2>2, <2>5, <2>6 DEF TargetInv, First
  <2>9. StoreInv(stored, clock)' /\ ReadersInv' /\ ResultsInv'
    BY <1>1, <1>3 DEF IInv, ReadersInv, ResultsInv
  <2> QED
    BY <2>7, <2>8, <2>9 DEF IInv
<1> QED
  BY <1>2, <1>3

(***************************************************************************)
(* Moves                                                                   *)
(***************************************************************************)
LEMMA TargetParts ==
  ASSUME IInv, target # Baseless
  PROVE  /\ queue # <<>> /\ target \in Base /\ target.file \in File
         /\ target.key = First.key /\ target.file = Content(First.ov, First.base.file)
         /\ Past(stored, clock, target.key, target.at, target.file)
BY DEF IInv, TargetInv, TypeInv, TypeOK, Base

LEMMA Moving ==
  ASSUME IInv, target # Baseless, NEW ov \in Overlay, NEW b, b = First.base,
         NEW v, Reader(stored, clock, ov, b, v)
  PROVE  LET new == Rebase(ov, b.file, First.ov, target.file)
         IN  new \in Overlay /\ Reader(stored, clock, new, target, v)
<1>1. /\ First.ov \in Overlay /\ b.file \in File /\ Sound(First.ov, b.file)
      /\ Sound(ov, b.file) /\ Content(ov, b.file) = v
  BY TargetParts, FirstParts DEF Reader
<1>2. /\ target.file = Content(First.ov, b.file)
      /\ Past(stored, clock, target.key, target.at, target.file)
  BY TargetParts
<1> QED
  BY <1>1, <1>2, MoveReads DEF Reader

LEMMA NotMoving ==
  ASSUME IInv, target # Baseless, NEW ov \in Overlay, NEW b, b = First.base,
         NEW v, Reader(stored, clock, ov, b, v), NEW n
  PROVE  LET new == RebaseFails(ov, b.file, First.ov, n)
         IN  new \in Overlay /\ Reader(stored, clock, new, b, v)
<1>1. b.file \in File /\ Sound(ov, b.file)
  BY TargetParts, FirstParts DEF Reader
<1> QED
  BY <1>1, FailedMoveReads DEF Reader

(* The snapshot that a save leaves reads as its fork did. *)
LEMMA Succeeds ==
  ASSUME IInv, target # Baseless
  PROVE  LET r == [key |-> First.key, at |-> target.at, view |-> First.view]
         IN  /\ r \in [key : Key, at : Nat, view : File]
             /\ Past(stored, clock, r.key, r.at, r.view)
<1>1. /\ First.key \in Key /\ First.view \in File
      /\ Content(First.ov, First.base.file) = First.view
  BY TargetParts, FirstParts DEF Reader
<1>2. target.at \in Nat /\ target.key = First.key /\ target.file = First.view
  BY <1>1, TargetParts DEF Base
<1> QED
  BY <1>1, <1>2, TargetParts

LEMMA DatabaseMoves ==
  ASSUME IInv, target # Baseless, isOpen, MovesAlong(db)
  PROVE  /\ Moved(db) \in [ov : Overlay, base : Base]
         /\ Reader(stored, clock, Moved(db).ov, Moved(db).base, view)
         /\ \A n : /\ NotMoved(db, n) \in [ov : Overlay, base : Base]
                   /\ Reader(stored, clock, NotMoved(db, n).ov, NotMoved(db, n).base, view)
<1>1. /\ db.ov \in Overlay /\ db.base \in Base /\ db.base = First.base
      /\ db \in [ov : Overlay, base : Base]
      /\ Reader(stored, clock, db.ov, db.base, view)
  BY DatabaseParts DEF MovesAlong, IInv, TypeInv, TypeOK
<1> DEFINE new == Rebase(db.ov, db.base.file, First.ov, target.file)
<1>2. new \in Overlay /\ Reader(stored, clock, new, target, view) /\ target \in Base
  BY <1>1, Moving, TargetParts
<1>3. Moved(db) = [db EXCEPT !.ov = new, !.base = target]
  BY DEF Moved
<1> HIDE DEF new
<1>4. Moved(db) \in [ov : Overlay, base : Base]
      /\ Moved(db).ov = new /\ Moved(db).base = target
  BY <1>1, <1>2, <1>3
<1>5. ASSUME NEW n
      PROVE  /\ NotMoved(db, n) \in [ov : Overlay, base : Base]
             /\ Reader(stored, clock, NotMoved(db, n).ov, NotMoved(db, n).base, view)
  <2> DEFINE old == RebaseFails(db.ov, db.base.file, First.ov, n)
  <2>1. old \in Overlay /\ Reader(stored, clock, old, db.base, view)
    BY <1>1, NotMoving
  <2>2. NotMoved(db, n) = [db EXCEPT !.ov = old]
    BY DEF NotMoved
  <2> HIDE DEF old
  <2>3. NotMoved(db, n) \in [ov : Overlay, base : Base]
        /\ NotMoved(db, n).ov = old /\ NotMoved(db, n).base = db.base
    BY <1>1, <2>1, <2>2
  <2> QED
    BY <2>1, <2>3
<1> QED
  BY <1>2, <1>4, <1>5

LEMMA ForkMoves ==
  ASSUME IInv, target # Baseless, NEW x \in Fork, MovesAlong(x),
         Reader(stored, clock, x.ov, x.base, x.view)
  PROVE  /\ Moved(x) \in Fork
         /\ Reader(stored, clock, Moved(x).ov, Moved(x).base, Moved(x).view)
         /\ \A n : /\ NotMoved(x, n) \in Fork
                   /\ Reader(stored, clock, NotMoved(x, n).ov, NotMoved(x, n).base,
                             NotMoved(x, n).view)
<1>1. x.ov \in Overlay /\ x.base \in Base /\ x.base = First.base
  BY DEF MovesAlong, Fork
<1> DEFINE new == Rebase(x.ov, x.base.file, First.ov, target.file)
<1>2. new \in Overlay /\ Reader(stored, clock, new, target, x.view) /\ target \in Base
  BY <1>1, Moving, TargetParts
<1>3. Moved(x) = [x EXCEPT !.ov = new, !.base = target]
  BY DEF Moved
<1> HIDE DEF new
<1>4. Moved(x) \in Fork /\ Moved(x).ov = new /\ Moved(x).base = target
      /\ Moved(x).view = x.view
  BY <1>2, <1>3 DEF Fork
<1>5. ASSUME NEW n
      PROVE  /\ NotMoved(x, n) \in Fork
             /\ Reader(stored, clock, NotMoved(x, n).ov, NotMoved(x, n).base,
                       NotMoved(x, n).view)
  <2> DEFINE old == RebaseFails(x.ov, x.base.file, First.ov, n)
  <2>1. old \in Overlay /\ Reader(stored, clock, old, x.base, x.view)
    BY <1>1, NotMoving
  <2>2. NotMoved(x, n) = [x EXCEPT !.ov = old]
    BY DEF NotMoved
  <2> HIDE DEF old
  <2>3. NotMoved(x, n) \in Fork /\ NotMoved(x, n).ov = old
        /\ NotMoved(x, n).base = x.base /\ NotMoved(x, n).view = x.view
    BY <2>1, <2>2 DEF Fork
  <2> QED
    BY <2>1, <2>3
<1> QED
  BY <1>2, <1>4, <1>5

LEMMA MoveKeeps ==
  ASSUME IInv, NEW n \in Size, NEW movable, Move(movable, n) PROVE IInv'
<1>1. /\ target # Baseless /\ target' = Baseless /\ labels' = labels + 1
      /\ UNCHANGED <<isOpen, view, stored, clock, writes>>
  BY DEF Move
<1>2. queue \in Seq(Fork) /\ queue # <<>>
  BY <1>1, TargetParts DEF IInv, TypeInv, TypeOK
<1> DEFINE m == Len(queue) - 1
           e(j) == IF ~MovesAlong(queue[j + 1]) THEN queue[j + 1]
                   ELSE IF j \in movable THEN Moved(queue[j + 1])
                   ELSE NotMoved(queue[j + 1], n)
<1>3. m \in Nat /\ \A j \in 1 .. m : j + 1 \in 1 .. Len(queue) /\ queue[j + 1] \in Fork
  BY <1>2, Dropped
<1>4. queue' = [j \in 1 .. m |-> e(j)]
  BY DEF Move
<1>5. ASSUME NEW j \in 1 .. m
      PROVE  e(j) \in Fork /\ Reader(stored, clock, e(j).ov, e(j).base, e(j).view)
  <2> DEFINE x == queue[j + 1]
  <2>1. x \in Fork /\ Reader(stored, clock, x.ov, x.base, x.view)
    BY <1>3 DEF IInv, ReadersInv
  <2>2. CASE ~MovesAlong(x)
    BY <2>1, <2>2
  <2>3. CASE MovesAlong(x)
    <3>1. /\ Moved(x) \in Fork
          /\ Reader(stored, clock, Moved(x).ov, Moved(x).base, Moved(x).view)
          /\ NotMoved(x, n) \in Fork
          /\ Reader(stored, clock, NotMoved(x, n).ov, NotMoved(x, n).base, NotMoved(x, n).view)
      BY <1>1, <2>1, <2>3, ForkMoves
    <3> QED
      BY <2>3, <3>1
  <2> QED
    BY <2>2, <2>3
<1> HIDE DEF e, m
<1>6. queue' \in Seq(Fork) /\ Len(queue') = m
  BY <1>3, <1>4, <1>5
<1>7. ASSUME NEW j \in 1 .. Len(queue')
      PROVE  Reader(stored, clock, queue'[j].ov, queue'[j].base, queue'[j].view)
  BY <1>4, <1>5, <1>6
<1>8. db' = IF isOpen /\ MovesAlong(db) THEN Moved(db) ELSE db
  BY DEF Move
<1>9. /\ db' \in [ov : Overlay, base : Base]
      /\ isOpen => Reader(stored, clock, db'.ov, db'.base, view)
  <2>1. CASE isOpen /\ MovesAlong(db)
    BY <1>1, <1>8, <2>1, DatabaseMoves
  <2>2. CASE ~(isOpen /\ MovesAlong(db))
    BY <1>8, <2>2 DEF IInv, TypeInv, TypeOK, ReadersInv
  <2> QED
    BY <2>1, <2>2
<1> DEFINE r == [key |-> First.key, at |-> target.at, view |-> First.view]
<1>10. r \in [key : Key, at : Nat, view : File] /\ Past(stored, clock, r.key, r.at, r.view)
  BY <1>1, Succeeds
<1>11. results' = results \union {r}
  BY DEF Move
<1> HIDE DEF r
<1>12. Baseless \in Base
  BY EmptyType DEF Baseless, Base
<1>13. TypeInv'
  BY <1>1, <1>6, <1>9, <1>10, <1>11, <1>12 DEF IInv, TypeInv, TypeOK
<1>14. ReadersInv'
  BY <1>1, <1>7, <1>9 DEF ReadersInv
<1>15. ResultsInv'
  BY <1>1, <1>10, <1>11 DEF IInv, ResultsInv
<1>16. StoreInv(stored, clock)' /\ TargetInv'
  BY <1>1 DEF IInv, TargetInv
<1> QED
  BY <1>13, <1>14, <1>15, <1>16 DEF IInv

LEMMA MoveFailsKeeps == ASSUME IInv, NEW n \in Size, MoveFails(n) PROVE IInv'
<1>1. /\ target # Baseless /\ isOpen /\ MovesAlong(db) /\ db' = NotMoved(db, n)
      /\ queue' = Tail(queue) /\ target' = Baseless /\ labels' = labels + 1
      /\ UNCHANGED <<isOpen, view, stored, results, clock, writes>>
  BY DEF MoveFails
<1>2. queue \in Seq(Fork) /\ queue # <<>>
  BY <1>1, TargetParts DEF IInv, TypeInv, TypeOK
<1>3. /\ queue' \in Seq(Fork) /\ Len(queue') = Len(queue) - 1
      /\ \A j \in 1 .. Len(queue) - 1 : queue'[j] = queue[j + 1] /\ j + 1 \in 1 .. Len(queue)
  BY <1>1, <1>2, Dropped
<1>4. /\ db' \in [ov : Overlay, base : Base]
      /\ Reader(stored, clock, db'.ov, db'.base, view)
  BY <1>1, DatabaseMoves
<1>5. Baseless \in Base
  BY EmptyType DEF Baseless, Base
<1>6. TypeInv'
  BY <1>1, <1>3, <1>4, <1>5 DEF IInv, TypeInv, TypeOK
<1>7. \A j \in 1 .. Len(queue') :
        Reader(stored, clock, queue'[j].ov, queue'[j].base, queue'[j].view)
  BY <1>3 DEF IInv, ReadersInv
<1>8. ReadersInv'
  BY <1>1, <1>4, <1>7 DEF ReadersInv
<1>9. StoreInv(stored, clock)' /\ TargetInv' /\ ResultsInv'
  BY <1>1 DEF IInv, TargetInv, ResultsInv
<1> QED
  BY <1>6, <1>8, <1>9 DEF IInv

(***************************************************************************)
(* Steps of the store                                                      *)
(***************************************************************************)
(* Whatever a step does to the store, if it spares what is of the past, it   *)
(* spares all who rely on it.                                              *)
LEMMA StoreKeeps ==
  ASSUME IInv, UNCHANGED <<db, isOpen, view, writes, queue, labels>>,
         stored' \in [Key -> Snapshot], clock' \in Nat, StoreInv(stored, clock)',
         \A key, file : \A at \in Nat :
           Past(stored, clock, key, at, file) => Past(stored', clock', key, at, file),
         results' \subseteq results, target' \in Base,
         target' # target => TargetInv'
  PROVE  IInv'
<1>1. ASSUME NEW ov, NEW b \in Base, NEW v, Reader(stored, clock, ov, b, v)
      PROVE  Reader(stored', clock', ov, b, v)
  <2>1. b.at \in Nat
    BY DEF Base
  <2> QED
    BY <1>1, <2>1 DEF Reader
<1>2. TypeInv'
  BY DEF IInv, TypeInv, TypeOK
<1>3. isOpen' => Reader(stored', clock', db'.ov, db'.base, view')
  BY <1>1, DatabaseParts
<1>4. ASSUME NEW j \in 1 .. Len(queue')
      PROVE  Reader(stored', clock', queue'[j].ov, queue'[j].base, queue'[j].view)
  <2>1. queue \in Seq(Fork) /\ j \in 1 .. Len(queue)
    BY DEF IInv, TypeInv, TypeOK
  <2>2. queue[j] \in Fork
    BY <2>1, ElementOfSeq
  <2>3. queue[j].base \in Base
    BY <2>2 DEF Fork
  <2>4. Reader(stored, clock, queue[j].ov, queue[j].base, queue[j].view)
    BY <2>1 DEF IInv, ReadersInv
  <2> QED
    BY <1>1, <2>3, <2>4
<1>5. ReadersInv'
  BY <1>3, <1>4 DEF ReadersInv
<1>6. ResultsInv'
  <2>1. \A r \in results : r.at \in Nat /\ Past(stored, clock, r.key, r.at, r.view)
    BY DEF IInv, TypeInv, ResultsInv
  <2> QED
    BY <2>1 DEF ResultsInv
<1>7. TargetInv'
  <2> SUFFICES ASSUME target' = target, target # Baseless PROVE TargetInv'
    BY DEF TargetInv
  <2>1. target.at \in Nat
    BY DEF IInv, TypeInv, TypeOK, Base
  <2> QED
    BY <2>1, TargetParts DEF TargetInv, First
<1> QED
  BY <1>2, <1>5, <1>6, <1>7 DEF IInv

(* A snapshot is stored under a key that is free. *)
LEMMA PutKeeps ==
  ASSUME IInv, UNCHANGED <<db, isOpen, view, writes, queue, labels, results>>,
         NEW k \in Key, ~There(k), NEW s \in Snapshot, Put(k, s), s.at = clock + 1,
         s.parent # None => s.parent \in Key /\ stored[s.parent] # NoSnapshot,
         target' \in Base,
         target' # target =>
           /\ queue # <<>> /\ target'.key = First.key /\ target'.key = k
           /\ target'.at = s.at
           /\ target'.file = Content(First.ov, First.base.file)
           /\ target'.file = Layered(s, IF s.parent = None THEN NoFile
                                        ELSE LoadOf(stored)[s.parent])
  PROVE  IInv'
<1>1. stored \in [Key -> Snapshot] /\ clock \in Nat /\ StoreInv(stored, clock)
  BY StoreParts
<1>2. stored[k] = NoSnapshot /\ stored' = [stored EXCEPT ![k] = s] /\ clock' = clock + 1
  BY DEF There, Put
<1>3. /\ stored' \in [Key -> Snapshot] /\ StoreInv(stored', clock')
      /\ Past(stored', clock', k, s.at, Layered(s, IF s.parent = None THEN NoFile
                                                   ELSE LoadOf(stored)[s.parent]))
      /\ \A key, file : \A at \in Nat :
           Past(stored, clock, key, at, file) => Past(stored', clock', key, at, file)
  BY <1>1, <1>2, PutStays
<1>4. target' # target => TargetInv'
  BY <1>3 DEF TargetInv, First
<1>5. results' \subseteq results /\ clock' \in Nat
  BY <1>1, <1>2
<1> QED
  BY <1>3, <1>4, <1>5, StoreKeeps

LEMMA StoreStepKeeps == ASSUME IInv, Store PROVE IInv'
<1> DEFINE k == First.key
           file == Content(First.ov, First.base.file)
           s == IF Delta /\ ParentThere THEN AsDelta ELSE InFull(file)
           below == IF s.parent = None THEN NoFile ELSE LoadOf(stored)[s.parent]
           new == NewBase(s, k, Layered(s, First.base.file))
<1>1. /\ queue # <<>> /\ target = Baseless /\ ~There(k) /\ Put(k, s) /\ target' = new
      /\ UNCHANGED <<db, isOpen, view, writes, queue, labels, results>>
  BY DEF Store, Saving, dbVars
<1>2. /\ First.ov \in Overlay /\ First.base.file \in File /\ k \in Key
      /\ file \in File /\ Whole(file)
  BY <1>1, FirstParts, WholeContent
<1>3. clock \in Nat /\ labels + 1 \in Nat
  BY DEF IInv, TypeInv, TypeOK
<1>4. /\ s \in Snapshot /\ s.at = clock + 1
      /\ s.parent # None => s.parent \in Key /\ stored[s.parent] # NoSnapshot
      /\ Layered(s, First.base.file) = file /\ Layered(s, below) = file
  <2>1. CASE Delta /\ ParentThere
    <3>1. s = AsDelta
      BY <2>1
    <3>2. below = First.base.file
      BY <1>1, <2>1, <3>1, DeltaReads
    <3> HIDE DEF s, below, file
    <3> QED
      BY <1>1, <2>1, <3>1, <3>2, DeltaReads DEF file
  <2>2. CASE ~(Delta /\ ParentThere)
    <3>1. s = InFull(file)
      BY <2>2
    <3> HIDE DEF s, below, file
    <3> QED
      BY <1>2, <1>3, <3>1, FullType, FullReads
  <2> QED
    BY <2>1, <2>2
<1> HIDE DEF s, below, file
<1>5. new = [key |-> k, at |-> s.at, label |-> labels + 1, depth |-> s.depth,
             bytes |-> s.bytes, file |-> file]
  BY <1>4 DEF NewBase
<1> HIDE DEF new
<1>6. new \in Base
  BY <1>2, <1>3, <1>4, <1>5 DEF Base, Snapshot
<1>7. /\ target' \in Base /\ target'.key = k /\ target'.at = s.at
      /\ target'.file = Content(First.ov, First.base.file)
      /\ target'.file = Layered(s, IF s.parent = None THEN NoFile
                                   ELSE LoadOf(stored)[s.parent])
  BY <1>1, <1>4, <1>5, <1>6 DEF file, below
<1> QED
  BY <1>1, <1>2, <1>4, <1>7, PutKeeps

LEMMA OthersSaveKeeps ==
  ASSUME IInv, NEW k \in Key, NEW i \in Written, NEW x \in {view.data[i], MaxWrites + 1},
         OthersSave(k, [view EXCEPT !.data[i] = x])
  PROVE  IInv'
<1> DEFINE file == [view EXCEPT !.data[i] = x]
<1>1. /\ ~There(k) /\ file.size > 0 /\ Put(k, InFull(file))
      /\ UNCHANGED <<db, isOpen, view, writes, queue, labels, results, target>>
  BY DEF OthersSave, dbVars
<1>2. view \in File /\ i \in Chunk /\ clock \in Nat /\ target \in Base
  BY BoundsAssumption DEF IInv, TypeInv, TypeOK
<1>3. view.data[i] \in Nat /\ x \in Nat
  BY <1>2, BoundsAssumption DEF File
<1>4. file = [size |-> view.size, data |-> [view.data EXCEPT ![i] = x]]
  BY <1>2 DEF File
<1>5. [view.data EXCEPT ![i] = x] \in [Chunk -> Nat]
  BY <1>2, <1>3 DEF File
<1>6. file \in File
  BY <1>2, <1>4, <1>5 DEF File
<1> HIDE DEF file
<1> DEFINE s == InFull(file)
<1>7. s \in Snapshot /\ s.at = clock + 1 /\ s.parent = None
  BY <1>2, <1>6, FullType
<1> QED
  BY <1>1, <1>2, <1>7, PutKeeps

LEMMA OthersSaveDeltaKeeps ==
  ASSUME IInv, NEW k \in Key, NEW p \in Key, NEW i \in Written,
         NEW x \in {view.data[i], MaxWrites + 1}, OthersSaveDelta(k, p, i, x)
  PROVE  IInv'
<1> DEFINE s == [at |-> clock + 1, size |-> stored[p].size, visible |-> stored[p].size,
                 page |-> [NoPages EXCEPT ![i] = x], parent |-> p,
                 parentAt |-> stored[p].at, depth |-> stored[p].depth + 1,
                 bytes |-> stored[p].bytes + 1]
<1>1. /\ ~There(k) /\ There(p) /\ Put(k, s)
      /\ UNCHANGED <<db, isOpen, view, writes, queue, labels, results, target>>
  BY DEF OthersSaveDelta, dbVars
<1>2. /\ view \in File /\ i \in Chunk /\ clock \in Nat /\ target \in Base
      /\ stored[p] \in Snapshot
  BY BoundsAssumption DEF IInv, TypeInv, TypeOK
<1>3. x \in Nat
  BY <1>2, BoundsAssumption DEF File
<1>4. [NoPages EXCEPT ![i] = x] \in [Chunk -> Page]
  <2>1. NoPages \in [Chunk -> Page]
    BY DEF NoPages, Page
  <2>2. PICK q \in [Chunk -> Page] : q = NoPages
    BY <2>1
  <2>3. [q EXCEPT ![i] = x] \in [Chunk -> Page]
    BY <1>2, <1>3 DEF Page
  <2> QED
    BY <2>2, <2>3, Zenon
<1>5. s \in Snapshot /\ s.at = clock + 1 /\ s.parent = p
  <2> DEFINE page == [NoPages EXCEPT ![i] = x]
  <2>1. page \in [Chunk -> Page]
    BY <1>4
  <2> HIDE DEF page
  <2>2. [at |-> clock + 1, size |-> stored[p].size, visible |-> stored[p].size,
         page |-> page, parent |-> p, parentAt |-> stored[p].at,
         depth |-> stored[p].depth + 1, bytes |-> stored[p].bytes + 1] \in Snapshot
    BY <1>2, <2>1 DEF Snapshot
  <2> QED
    BY <2>2 DEF page
<1> HIDE DEF s
<1> QED
  BY <1>1, <1>2, <1>5, PutKeeps DEF There

LEMMA RemoveKeeps == ASSUME IInv, NEW k \in Key, Remove(k) PROVE IInv'
<1>1. /\ There(k) /\ \A j \in Key : stored[j].parent # k
      /\ stored' = [stored EXCEPT ![k] = NoSnapshot]
      /\ results' = {r \in results : r.key # k}
      /\ UNCHANGED <<db, isOpen, view, writes, queue, target, clock, labels>>
  BY DEF Remove, dbVars
<1>2. stored \in [Key -> Snapshot] /\ clock \in Nat /\ StoreInv(stored, clock)
      /\ target \in Base
  BY StoreParts DEF IInv, TypeInv, TypeOK
<1>3. /\ stored' \in [Key -> Snapshot] /\ StoreInv(stored', clock)
      /\ \A key, file : \A at \in Nat :
           Past(stored, clock, key, at, file) => Past(stored', clock, key, at, file)
  BY <1>1, <1>2, RemovalStays
<1>4. results' \subseteq results /\ target' = target
  BY <1>1
<1> QED
  BY <1>1, <1>2, <1>3, <1>4, StoreKeeps

LEMMA IInvKept == ASSUME IInv, [Next]_vars PROVE IInv'
<1>1. CASE Session
  <2>1. CASE \E i \in Written : Write(i)
    BY <2>1, WriteKeeps
  <2>2. CASE \E n \in Cuts : Shrink(n)
    BY <2>2, ShrinkKeeps
  <2>3. CASE Close
    BY <2>3, CloseKeeps
  <2>4. CASE \E k \in Key : Save(k)
    BY <2>4, SaveKeeps
  <2>5. CASE Store
    BY <2>5, StoreStepKeeps
  <2>6. CASE StoreFails
    BY <2>6, StoreFailsKeeps
  <2>7. CASE Unchanged
    BY <2>7, UnchangedKeeps
  <2>8. CASE Join
    BY <2>8, JoinKeeps
  <2>9. CASE \E n \in Size : \E movable \in SUBSET (1 .. Len(queue) - 1) : Move(movable, n)
    BY <2>9, MoveKeeps
  <2>10. CASE \E n \in Size : MoveFails(n)
    BY <2>10, MoveFailsKeeps
  <2> QED
    BY <1>1, <2>1, <2>2, <2>3, <2>4, <2>5, <2>6, <2>7, <2>8, <2>9, <2>10 DEF Session
<1>2. CASE Others
  <2>1. PICK k \in Key :
          \/ \E i \in Written : \E x \in {view.data[i], MaxWrites + 1} :
               \/ OthersSave(k, [view EXCEPT !.data[i] = x])
               \/ \E p \in Key : OthersSaveDelta(k, p, i, x)
          \/ Remove(k)
    BY <1>2 DEF Others
  <2> QED
    BY <2>1, OthersSaveKeeps, OthersSaveDeltaKeeps, RemoveKeeps
<1>3. CASE UNCHANGED vars
  BY <1>3 DEF vars, IInv, TypeInv, TypeOK, ReadersInv, TargetInv, ResultsInv, First
<1> QED
  BY <1>1, <1>2, <1>3 DEF Next

LEMMA Invariant == Spec => []IInv
<1>1. Init => IInv
  BY InitIInv
<1>2. IInv /\ [Next]_vars => IInv'
  BY IInvKept
<1> QED
  BY <1>1, <1>2, PTL DEF Spec

(* Every variable keeps its type. *)
THEOREM TypeCorrect == Spec => []TypeOK
<1>1. IInv => TypeOK
  BY DEF IInv, TypeInv
<1> QED
  BY <1>1, Invariant, PTL

(* Wherever the base of a database is, it reads what was written: moving it *)
(* onto the snapshot of an earlier state changes nothing, nor does a move  *)
(* that fails (Session.save, sqlite3_overlay_rebase).                      *)
THEOREM DatabasesReadWhatWasWritten == Spec => []MovesChangeNothing
<1>1. IInv => MovesChangeNothing
  BY DEF IInv, ReadersInv, Reader, MovesChangeNothing
<1> QED
  BY <1>1, Invariant, PTL

(* A save that waits keeps the state it was called in, while the saves      *)
(* before it move it from base to base.                                    *)
THEOREM WaitingSavesKeepTheirState == Spec => []WaitingForksKeepTheirState
<1>1. IInv => WaitingForksKeepTheirState
  BY DEF IInv, ReadersInv, Reader, WaitingForksKeepTheirState
<1> QED
  BY <1>1, Invariant, PTL

(* What a save leaves in the store is what it was asked to, whether it wrote *)
(* a delta, in full, joined what was there or found nothing to do.         *)
THEOREM SavesLeaveTheirState == Spec => []SavesHoldTheirState
<1>1. IInv => SavesHoldTheirState
  BY LoadIs DEF IInv, ResultsInv, Past, SavesHoldTheirState
<1> QED
  BY <1>1, Invariant, PTL

(***************************************************************************)
(* What module Connection promises, for any number of Statements and        *)
(* addresses; and that a database that is saved by itself (AutoSave)       *)
(* behaves as Connection says, so that this holds for it as well.          *)
(***************************************************************************)

(***************************************************************************)
(* The invariant                                                           *)
(***************************************************************************)
RunState == {"free", "ready", "halted"} \union Running

StatementTypes ==
  /\ vdbe \in [Ptr -> [run : RunState, kind : Kind, code : Int]] /\ commits \in Int
  /\ bound \subseteq Ptr /\ statements \subseteq Ptr /\ stmt \in [Stmt -> Ptr \union {0}]
  /\ mem \subseteq Stmt /\ names \in [Stmt -> Int] /\ failed \subseteq Stmt

(* Names that are known are those of a row, if the statement did not fail.  *)
NamesInv == \A s \in Stmt :
  stmt[s] # 0 /\ names[s] # Unknown /\ s \notin failed =>
    vdbe[stmt[s]].run \in Running /\ names[s] = vdbe[stmt[s]].code

(* Unless binding failed, every statement of SQLite is listed. *)
ListedInv == ~leaked => \A p \in Ptr : vdbe[p].run # "free" => p \in statements

ConnInv == StatementTypes /\ NothingDangles /\ NamesInv /\ ListedInv /\ ClosedIsGone

(***************************************************************************)
(* The steps                                                               *)
(***************************************************************************)
LEMMA InitConnInv == ASSUME ConnInit PROVE ConnInv
<1>1. StatementTypes
  BY DEF ConnInit, StatementTypes, RunState, NoVdbe, Kind, Unknown
<1>2. NothingDangles /\ NamesInv /\ ListedInv /\ ClosedIsGone
  BY DEF ConnInit, NothingDangles, NamesInv, ListedInv, ClosedIsGone, NoVdbe
<1> QED
  BY <1>1, <1>2 DEF ConnInv

(* A statement that is prepared anew is at no row. *)
LEMMA PreparedType ==
  ASSUME StatementTypes, NEW kind \in Kind
  PROVE  /\ Prepared(kind) \in [run : RunState, kind : Kind, code : Int]
         /\ Prepared(kind).run = "ready"
BY DEF StatementTypes, Prepared, RunState

LEMMA PrepareStep ==
  ASSUME ConnInv, NEW s \in Stmt, NEW p \in Ptr, NEW kind \in Kind, Prepare(s, p, kind)
  PROVE  ConnInv'
<1> PICK params \in BOOLEAN :
      /\ bound' = IF params THEN bound \union {p} ELSE bound
      /\ mem' = IF params THEN mem \union {s} ELSE mem
  BY DEF Prepare
<1>1. /\ conn = "open" /\ stmt[s] = 0 /\ vdbe[p].run = "free"
      /\ vdbe' = [vdbe EXCEPT ![p] = Prepared(kind)]
      /\ stmt' = [stmt EXCEPT ![s] = p] /\ statements' = statements \union {p}
      /\ names' = [names EXCEPT ![s] = Unknown] /\ failed' = failed \ {s}
      /\ UNCHANGED <<conn, leaked, commits, slot, calls>>
  BY DEF Prepare, Free, functionVars
<1>2. StatementTypes /\ p # 0 /\ p \notin statements
  BY <1>1, PtrAssumption DEF ConnInv, NothingDangles
<1>3. StatementTypes'
  BY <1>1, <1>2, PreparedType DEF StatementTypes, Unknown
<1>4. NothingDangles'
  <2>1. \A q \in Ptr : vdbe'[q].run = IF q = p THEN "ready" ELSE vdbe[q].run
    BY <1>1, <1>2, PreparedType DEF StatementTypes
  <2>2. \A t \in Stmt : stmt'[t] = IF t = s THEN p ELSE stmt[t]
    BY <1>1, <1>2 DEF StatementTypes
  <2>3. \A t \in Stmt : stmt[t] # p
    BY <1>2 DEF ConnInv, NothingDangles
  <2>4. \A t \in Stmt : stmt'[t] # 0 => stmt'[t] \in statements'
    BY <1>1, <2>2 DEF ConnInv, NothingDangles
  <2>5. \A t, u \in Stmt : stmt'[t] = stmt'[u] /\ stmt'[t] # 0 => t = u
    BY <2>2, <2>3 DEF ConnInv, NothingDangles
  <2>6. \A q \in statements' : vdbe'[q].run # "free" /\ \E t \in Stmt : stmt'[t] = q
    <3> SUFFICES ASSUME NEW q \in statements' PROVE vdbe'[q].run # "free" /\ \E t \in Stmt : stmt'[t] = q
      OBVIOUS
    <3>1. CASE q = p
      BY <2>1, <2>2, <3>1
    <3>2. CASE q # p
      <4>1. q \in statements /\ q \in Ptr
        BY <1>1, <1>2, <3>2 DEF StatementTypes
      <4>2. PICK t \in Stmt : stmt[t] = q
        BY <4>1 DEF ConnInv, NothingDangles
      <4>3. q # 0
        BY <4>1, PtrAssumption
      <4>4. vdbe'[q].run # "free" /\ stmt'[t] = q
        BY <1>1, <2>1, <2>2, <3>2, <4>1, <4>2, <4>3 DEF ConnInv, NothingDangles
      <4> QED
        BY <4>4
    <3> QED
      BY <3>1, <3>2
  <2>7. \A q \in bound' : \E t \in mem' : stmt'[t] = q
    <3> SUFFICES ASSUME NEW q \in bound' PROVE \E t \in mem' : stmt'[t] = q
      OBVIOUS
    <3>1. CASE q \in bound
      <4>1. PICK t \in mem : stmt[t] = q
        BY <3>1 DEF ConnInv, NothingDangles
      <4>2. q # 0 /\ t \in Stmt /\ t \in mem'
        BY <1>2, <3>1, <4>1, PtrAssumption DEF StatementTypes
      <4> QED
        BY <1>1, <2>2, <4>1, <4>2
    <3>2. CASE q \notin bound
      BY <2>2, <3>2
    <3> QED
      BY <3>1, <3>2
  <2> QED
    BY <1>1, <2>4, <2>5, <2>6, <2>7 DEF ConnInv, NothingDangles
<1>5. NamesInv'
  BY <1>1, <1>2 DEF StatementTypes, ConnInv, NothingDangles, NamesInv
<1>6. ListedInv' /\ ClosedIsGone'
  BY <1>1, <1>2 DEF StatementTypes, ConnInv, ListedInv, ClosedIsGone
<1> QED
  BY <1>3, <1>4, <1>5, <1>6 DEF ConnInv

LEMMA PrepareFailsStep ==
  ASSUME ConnInv, NEW p \in Ptr, NEW kind \in Kind, PrepareFails(p, kind)
  PROVE  ConnInv'
<1>1. /\ conn = "open" /\ vdbe[p].run = "free" /\ leaked' = TRUE
      /\ vdbe' = [vdbe EXCEPT ![p] = Prepared(kind)]
      /\ UNCHANGED <<conn, bound, statements, stmt, mem, names, failed, commits, slot, calls>>
  BY DEF PrepareFails, Free, functionVars
<1>2. StatementTypes /\ p \notin statements
  BY <1>1 DEF ConnInv, NothingDangles
<1>3. StatementTypes'
  BY <1>1, <1>2, PreparedType DEF StatementTypes
<1>4. NothingDangles'
  BY <1>1, <1>2, PreparedType DEF StatementTypes, ConnInv, NothingDangles
<1>5. NamesInv'
  BY <1>1, <1>2 DEF StatementTypes, ConnInv, NothingDangles, NamesInv
<1>6. ListedInv' /\ ClosedIsGone'
  BY <1>1 DEF ListedInv, ClosedIsGone
<1> QED
  BY <1>3, <1>4, <1>5, <1>6 DEF ConnInv

(* reset(), and bind(), which resets first: `m' and `b' are what is left    *)
(* allocated and bound.                                                    *)
LEMMA ResetStep ==
  ASSUME ConnInv, NEW s \in Stmt, Reset(s) \/ Bind(s)
  PROVE  ConnInv'
<1> DEFINE p == stmt[s]
<1>1. /\ p # 0 /\ Ends({p}) /\ vdbe' = [vdbe EXCEPT ![p].run = "ready"]
      /\ names' = [names EXCEPT ![s] = Unknown] /\ failed' = failed \ {s}
      /\ UNCHANGED <<conn, statements, stmt, leaked, slot, calls>>
      /\ \/ mem' = mem \ {s} /\ bound' = bound \ {p}
         \/ mem' = mem \union {s} /\ bound' = bound \union {p}
  BY DEF Reset, Bind, functionVars
<1>2. StatementTypes /\ p \in Ptr /\ p \in statements
  BY <1>1 DEF ConnInv, StatementTypes, NothingDangles
<1>3. commits' \in Int
  BY <1>1, <1>2 DEF Ends, StatementTypes
<1>4. /\ vdbe' \in [Ptr -> [run : RunState, kind : Kind, code : Int]]
      /\ \A q \in Ptr : vdbe'[q].run = IF q = p THEN "ready" ELSE vdbe[q].run
      /\ \A q \in Ptr : vdbe'[q].code = vdbe[q].code
  BY <1>1, <1>2 DEF StatementTypes, RunState
<1>5. StatementTypes'
  BY <1>1, <1>2, <1>3, <1>4 DEF StatementTypes, Unknown
<1>6. NothingDangles'
  <2>1. /\ \A q \in statements' : vdbe'[q].run # "free" /\ \E t \in Stmt : stmt'[t] = q
        /\ \A t \in Stmt : stmt'[t] # 0 => stmt'[t] \in statements'
        /\ \A t, u \in Stmt : stmt'[t] = stmt'[u] /\ stmt'[t] # 0 => t = u
        /\ calls' \in {0, slot'}
    BY <1>1, <1>2, <1>4 DEF StatementTypes, ConnInv, NothingDangles
  <2>2. \A q \in bound' : \E t \in mem' : stmt'[t] = q
    BY <1>1, <1>2 DEF StatementTypes, ConnInv, NothingDangles
  <2> QED
    BY <2>1, <2>2 DEF NothingDangles
<1>7. NamesInv'
  BY <1>1, <1>2, <1>4 DEF StatementTypes, ConnInv, NothingDangles, NamesInv
<1>8. ListedInv' /\ ClosedIsGone'
  BY <1>1, <1>2, <1>4 DEF ConnInv, ListedInv, ClosedIsGone
<1> QED
  BY <1>5, <1>6, <1>7, <1>8 DEF ConnInv

(* step(), whatever it returns. *)
LEMMA StepStep ==
  ASSUME ConnInv, NEW s \in Stmt, StepRow(s) \/ StepDone(s) \/ StepFails(s)
  PROVE  ConnInv'
<1> DEFINE p == stmt[s]
<1>1. PICK run \in {"row", "halted"} :
        /\ vdbe' = Stepped(p, run) /\ (run = "row" => UNCHANGED <<names, failed>>)
        /\ (run = "halted" =>
              \/ names' = [names EXCEPT ![s] = Unknown] /\ failed' = failed \ {s}
              \/ names' = names /\ failed' = failed \union {s})
  BY DEF StepRow, StepDone, StepFails
<1>2. /\ p # 0 /\ UNCHANGED <<conn, bound, statements, stmt, mem, leaked, slot, calls>>
      /\ commits' \in {commits, commits + 1}
  BY DEF StepRow, StepDone, StepFails, Begins, functionVars
<1>3. StatementTypes /\ p \in Ptr /\ p \in statements
  BY <1>2 DEF ConnInv, StatementTypes, NothingDangles
<1>4. Code(p) \in Int /\ (vdbe[p].run \in Running => Code(p) = vdbe[p].code)
  BY <1>3 DEF Code, Starts, StatementTypes
<1>5. /\ vdbe' \in [Ptr -> [run : RunState, kind : Kind, code : Int]]
      /\ \A q \in Ptr : vdbe'[q].run = IF q = p THEN run ELSE vdbe[q].run
      /\ \A q \in Ptr : vdbe'[q].code = IF q = p THEN Code(p) ELSE vdbe[q].code
  <2>1. run \in RunState /\ vdbe \in [Ptr -> [run : RunState, kind : Kind, code : Int]]
    BY <1>3 DEF StatementTypes, RunState, Running
  <2>2. vdbe' = [vdbe EXCEPT ![p].run = run, ![p].code = Code(p)]
    BY <1>1 DEF Stepped
  <2>3. vdbe' \in [Ptr -> [run : RunState, kind : Kind, code : Int]]
    BY <1>3, <1>4, <2>1, <2>2
  <2>4. \A q \in Ptr : vdbe'[q].run = IF q = p THEN run ELSE vdbe[q].run
    BY <1>3, <2>1, <2>2
  <2>5. \A q \in Ptr : vdbe'[q].code = IF q = p THEN Code(p) ELSE vdbe[q].code
    BY <1>3, <2>1, <2>2
  <2> QED
    BY <2>3, <2>4, <2>5
<1>6. StatementTypes'
  BY <1>1, <1>2, <1>3, <1>5 DEF StatementTypes, Unknown
<1>7. NothingDangles'
  BY <1>2, <1>3, <1>5 DEF StatementTypes, ConnInv, NothingDangles
<1>8. NamesInv'
  <2> SUFFICES ASSUME NEW t \in Stmt, stmt'[t] # 0, names'[t] # Unknown, t \notin failed'
               PROVE  vdbe'[stmt[t]].run \in Running /\ names'[t] = vdbe'[stmt[t]].code
    BY <1>2 DEF NamesInv
  <2>1. names[t] # Unknown /\ t \notin failed /\ names'[t] = names[t] /\ (t = s => run = "row")
    BY <1>1, <1>3 DEF StatementTypes
  <2>2. vdbe[stmt[t]].run \in Running /\ names[t] = vdbe[stmt[t]].code /\ stmt[t] \in Ptr
    BY <1>2, <2>1 DEF ConnInv, NamesInv, StatementTypes
  <2>3. stmt[t] = p => t = s
    BY <1>2 DEF ConnInv, NothingDangles
  <2> QED
    BY <1>4, <1>5, <2>1, <2>2, <2>3 DEF Running
<1>9. ListedInv' /\ ClosedIsGone'
  BY <1>2, <1>3, <1>5 DEF ConnInv, ListedInv, ClosedIsGone
<1> QED
  BY <1>6, <1>7, <1>8, <1>9 DEF ConnInv

LEMMA GetAsObjectStep ==
  ASSUME ConnInv, NEW s \in Stmt, GetAsObject(s)
  PROVE  ConnInv'
<1>1. /\ stmt[s] # 0 /\ vdbe[stmt[s]].run \in Running
      /\ names' = [names EXCEPT ![s] = vdbe[stmt[s]].code]
      /\ UNCHANGED <<conn, vdbe, bound, statements, stmt, mem, leaked, failed, commits,
                     slot, calls>>
  BY DEF GetAsObject, functionVars
<1>2. StatementTypes'
  BY <1>1 DEF ConnInv, StatementTypes
<1>3. NothingDangles' /\ ListedInv' /\ ClosedIsGone'
  BY <1>1 DEF ConnInv, NothingDangles, ListedInv, ClosedIsGone
<1>4. NamesInv'
  BY <1>1 DEF ConnInv, StatementTypes, NamesInv
<1> QED
  BY <1>2, <1>3, <1>4 DEF ConnInv

(* Freeing Statements leaves nothing that refers to what they were of; free *)
(* of one that is closed already frees nothing.                            *)
LEMMA FreedKeeps ==
  ASSUME ConnInv, NEW ss \in SUBSET Stmt, Freed(ss), calls' \in {0, slot'}
  PROVE  /\ StatementTypes' /\ NothingDangles' /\ NamesInv'
         /\ \A p \in Ptr : vdbe'[p].run # "free" =>
              vdbe[p].run # "free" /\ ~(p \in {stmt[s] : s \in ss})
         /\ statements' = statements \ {stmt[s] : s \in ss}
<1> DEFINE ps == {stmt[s] : s \in ss} \ {0}
<1>1. /\ Ends(ps) /\ vdbe' = [p \in Ptr |-> IF p \in ps THEN NoVdbe ELSE vdbe[p]]
      /\ bound' = bound \ ps /\ statements' = statements \ ps
      /\ stmt' = [s \in Stmt |-> IF s \in ss THEN 0 ELSE stmt[s]]
      /\ mem' = mem \ ss /\ failed' = failed \ ss
      /\ names' = [s \in Stmt |-> IF s \in ss THEN Unknown ELSE names[s]]
  BY DEF Freed
<1>2. StatementTypes
  BY DEF ConnInv
<1>3. \A s \in Stmt : s \notin ss /\ stmt[s] # 0 => stmt[s] \notin ps
  BY DEF ConnInv, NothingDangles
<1>4. commits' \in Int
  BY <1>1, <1>2 DEF Ends, StatementTypes
<1>5. NoVdbe \in [run : RunState, kind : Kind, code : Int] /\ NoVdbe.run = "free"
  BY DEF NoVdbe, RunState, Kind
<1> HIDE DEF ps
<1>6. StatementTypes'
  BY <1>1, <1>2, <1>4, <1>5 DEF StatementTypes, Unknown
<1>7. \A p \in Ptr : vdbe'[p] = IF p \in ps THEN NoVdbe ELSE vdbe[p]
  BY <1>1
<1>8. \A s \in Stmt : stmt'[s] = IF s \in ss THEN 0 ELSE stmt[s]
  BY <1>1
<1>9. NothingDangles'
  <2>1. \A s \in Stmt : stmt'[s] # 0 => stmt'[s] \in statements'
    BY <1>1, <1>3, <1>8 DEF ConnInv, NothingDangles
  <2>2. \A s, t \in Stmt : stmt'[s] = stmt'[t] /\ stmt'[s] # 0 => s = t
    BY <1>8 DEF ConnInv, NothingDangles
  <2>3. \A p \in statements' : vdbe'[p].run # "free" /\ \E s \in Stmt : stmt'[s] = p
    <3> SUFFICES ASSUME NEW p \in statements'
                 PROVE  vdbe'[p].run # "free" /\ \E s \in Stmt : stmt'[s] = p
      OBVIOUS
    <3>1. p \in statements /\ p \notin ps /\ p \in Ptr /\ p # 0
      BY <1>1, <1>2, PtrAssumption DEF StatementTypes
    <3>2. vdbe[p].run # "free"
      BY <3>1 DEF ConnInv, NothingDangles
    <3>3. PICK s \in Stmt : stmt[s] = p
      BY <3>1 DEF ConnInv, NothingDangles
    <3>4. s \notin ss
      BY <3>1, <3>3 DEF ps
    <3> QED
      BY <1>7, <1>8, <3>1, <3>2, <3>3, <3>4
  <2>4. \A p \in bound' : \E s \in mem' : stmt'[s] = p
    <3> SUFFICES ASSUME NEW p \in bound' PROVE \E s \in mem' : stmt'[s] = p
      OBVIOUS
    <3>1. p \in bound /\ p \notin ps /\ p # 0
      BY <1>1, <1>2, PtrAssumption DEF StatementTypes
    <3>2. PICK s \in mem : stmt[s] = p
      BY <3>1 DEF ConnInv, NothingDangles
    <3>3. s \in Stmt /\ s \notin ss
      BY <1>2, <3>1, <3>2 DEF ps, StatementTypes
    <3> QED
      BY <1>1, <1>8, <3>2, <3>3
  <2> QED
    BY <2>1, <2>2, <2>3, <2>4 DEF NothingDangles
<1>10. NamesInv'
  <2> SUFFICES ASSUME NEW s \in Stmt, stmt'[s] # 0, names'[s] # Unknown, s \notin failed'
               PROVE  vdbe'[stmt'[s]].run \in Running /\ names'[s] = vdbe'[stmt'[s]].code
    BY DEF NamesInv
  <2>1. s \notin ss /\ stmt'[s] = stmt[s] /\ names'[s] = names[s] /\ s \notin failed
    BY <1>1, <1>8
  <2>2. stmt[s] \in Ptr /\ stmt[s] \notin ps
    BY <1>2, <1>3, <2>1 DEF StatementTypes
  <2> QED
    BY <1>7, <2>1, <2>2 DEF ConnInv, NamesInv
<1>11. 0 \notin Ptr /\ 0 \notin statements
  BY <1>2, PtrAssumption DEF StatementTypes
<1>12. statements' = statements \ {stmt[s] : s \in ss}
  BY <1>1, <1>11 DEF ps
<1>13. \A p \in Ptr : vdbe'[p].run # "free" =>
         vdbe[p].run # "free" /\ ~(p \in {stmt[s] : s \in ss})
  BY <1>5, <1>7, <1>11 DEF ps
<1> QED
  BY <1>6, <1>9, <1>10, <1>12, <1>13

LEMMA FreeStatementStep ==
  ASSUME ConnInv, NEW s \in Stmt, FreeStatement(s)
  PROVE  ConnInv'
<1>1. Freed({s}) /\ UNCHANGED <<conn, leaked, slot, calls>> /\ calls' \in {0, slot'}
  BY DEF FreeStatement, functionVars, ConnInv, NothingDangles
<1>2. /\ StatementTypes' /\ NothingDangles' /\ NamesInv'
      /\ \A p \in Ptr : vdbe'[p].run # "free" =>
           vdbe[p].run # "free" /\ ~(p \in {stmt[t] : t \in {s}})
      /\ statements' = statements \ {stmt[t] : t \in {s}}
  BY <1>1, FreedKeeps
<1>3. ListedInv' /\ ClosedIsGone'
  BY <1>1, <1>2 DEF ConnInv, ListedInv, ClosedIsGone
<1> QED
  BY <1>2, <1>3 DEF ConnInv

(* What is left after close is what was not listed. *)
LEMMA CloseStep ==
  ASSUME ConnInv, CloseDatabase
  PROVE  ConnInv'
<1> DEFINE ss == {s \in Stmt : stmt[s] \in statements}
<1>1. /\ Freed(ss) /\ calls' = 0 /\ UNCHANGED leaked
      /\ conn' = IF \A p \in Ptr : vdbe'[p].run = "free" THEN "closed" ELSE "zombie"
  BY DEF CloseDatabase
<1>2. /\ StatementTypes' /\ NothingDangles' /\ NamesInv'
      /\ \A p \in Ptr : vdbe'[p].run # "free" =>
           vdbe[p].run # "free" /\ ~(p \in {stmt[s] : s \in ss})
      /\ statements' = statements \ {stmt[s] : s \in ss}
  BY <1>1, FreedKeeps
<1>3. \A p \in statements : p \in {stmt[s] : s \in ss}
  BY DEF ConnInv, NothingDangles
<1>4. ~leaked => \A p \in Ptr : vdbe'[p].run = "free"
  BY <1>2, <1>3 DEF ConnInv, ListedInv
<1>5. ListedInv' /\ ClosedIsGone'
  BY <1>1, <1>4 DEF ListedInv, ClosedIsGone
<1> QED
  BY <1>2, <1>5 DEF ConnInv

(* BEGIN, COMMIT, an INSERT, and a new function touch no statement. *)
LEMMA OtherStep ==
  ASSUME ConnInv, Begin \/ EndTransaction \/ Run \/ CreateFunction
  PROVE  ConnInv'
<1>1. /\ UNCHANGED <<conn, statementVars>> /\ calls' \in {0, slot'}
      /\ commits' \in {commits, commits + 1}
  <2>1. calls \in {0, slot}
    BY DEF ConnInv, NothingDangles
  <2>2. CASE Begin \/ EndTransaction \/ Run
    BY <2>1, <2>2 DEF Begin, EndTransaction, Run, functionVars
  <2>3. CASE CreateFunction
    BY <2>1, <2>3 DEF CreateFunction, Taken
  <2> QED
    BY <2>2, <2>3
<1>2. StatementTypes'
  BY <1>1 DEF statementVars, ConnInv, StatementTypes
<1>3. NothingDangles' /\ NamesInv' /\ ListedInv' /\ ClosedIsGone'
  BY <1>1 DEF statementVars, ConnInv, NothingDangles, NamesInv, ListedInv, ClosedIsGone
<1> QED
  BY <1>2, <1>3 DEF ConnInv

LEMMA RollbackStep ==
  ASSUME ConnInv, Rollback
  PROVE  ConnInv'
<1>1. /\ vdbe' = [p \in Ptr |-> [vdbe[p] EXCEPT !.run = IF p \in Writing THEN "aborted" ELSE @]]
      /\ UNCHANGED <<conn, bound, statements, stmt, mem, names, leaked, failed, commits,
                     slot, calls>>
  BY DEF Rollback, functionVars
<1>2. StatementTypes
  BY DEF ConnInv
<1>3. /\ vdbe' \in [Ptr -> [run : RunState, kind : Kind, code : Int]]
      /\ \A p \in Ptr : vdbe'[p].run = IF p \in Writing THEN "aborted" ELSE vdbe[p].run
      /\ \A p \in Ptr : vdbe'[p].code = vdbe[p].code
  BY <1>1, <1>2 DEF StatementTypes, RunState, Running
<1>4. \A p \in Writing : vdbe[p].run = "row"
  BY DEF Writing
<1>5. StatementTypes'
  BY <1>1, <1>2, <1>3 DEF StatementTypes
<1>6. NothingDangles'
  BY <1>1, <1>2, <1>3 DEF StatementTypes, ConnInv, NothingDangles
<1>7. NamesInv'
  BY <1>1, <1>2, <1>3 DEF StatementTypes, ConnInv, NamesInv, Running
<1>8. ListedInv' /\ ClosedIsGone'
  BY <1>1, <1>3, <1>4 DEF ConnInv, ListedInv, ClosedIsGone
<1> QED
  BY <1>5, <1>6, <1>7, <1>8 DEF ConnInv

LEMMA StutterStep ==
  ASSUME ConnInv, UNCHANGED connVars
  PROVE  ConnInv'
BY DEF ConnInv, StatementTypes, NothingDangles, NamesInv, ListedInv, ClosedIsGone, connVars,
       statementVars, functionVars

LEMMA ConnInvKept == ConnInv /\ [ConnNext]_connVars => ConnInv'
<1> SUFFICES ASSUME ConnInv, [ConnNext]_connVars PROVE ConnInv'
  OBVIOUS
<1>1. CASE Begin \/ EndTransaction \/ Run \/ CreateFunction
  BY <1>1, OtherStep
<1>2. CASE Rollback
  BY <1>2, RollbackStep
<1>3. CASE CloseDatabase
  BY <1>3, CloseStep
<1>4. CASE \E p \in Ptr, kind \in Kind : PrepareFails(p, kind)
  BY <1>4, PrepareFailsStep
<1>5. CASE \E p \in Ptr, kind \in Kind : \E s \in Stmt : Prepare(s, p, kind)
  BY <1>5, PrepareStep
<1>6. CASE \E s \in Stmt : Reset(s) \/ Bind(s)
  BY <1>6, ResetStep
<1>7. CASE \E s \in Stmt : StepRow(s) \/ StepDone(s) \/ StepFails(s)
  BY <1>7, StepStep
<1>8. CASE \E s \in Stmt : GetAsObject(s)
  BY <1>8, GetAsObjectStep
<1>9. CASE \E s \in Stmt : FreeStatement(s)
  BY <1>9, FreeStatementStep
<1>10. CASE UNCHANGED connVars
  BY <1>10, StutterStep
<1> QED
  BY <1>1, <1>2, <1>3, <1>4, <1>5, <1>6, <1>7, <1>8, <1>9, <1>10 DEF ConnNext

(***************************************************************************)
(* The theorems                                                            *)
(***************************************************************************)
LEMMA ConnectionInvariant == ConnSpec => []ConnInv
<1>1. ConnInit => ConnInv
  BY InitConnInv
<1> QED
  BY <1>1, ConnInvKept, PTL DEF ConnSpec

(* In any order of prepare, bind, step, reset, free and close, nothing of a *)
(* Database or a Statement refers to what is gone (Statement.freemem, free, *)
(* Database._close, create_function).                                      *)
THEOREM StatementsNeverDangle == ConnSpec => []NothingDangles
<1>1. ConnInv => NothingDangles
  BY DEF ConnInv
<1> QED
  BY <1>1, ConnectionInvariant, PTL

(* getAsObject names a row as the schema does that it was read with, unless *)
(* a step failed (Statement.cachedColumnNames).                            *)
THEOREM NamesAreThoseOfTheRow == ConnSpec => []RowsHaveTheirNames
<1>1. ConnInv => RowsHaveTheirNames
  BY DEF ConnInv, NamesInv, RowsHaveTheirNames
<1> QED
  BY <1>1, ConnectionInvariant, PTL

(* SQLite keeps nothing of a database after close(), unless a statement of  *)
(* it was lost when binding its parameters failed (Database._close).       *)
THEOREM CloseLeavesNothing == ConnSpec => []ClosedIsGone
<1>1. ConnInv => ClosedIsGone
  BY DEF ConnInv
<1> QED
  BY <1>1, ConnectionInvariant, PTL

-----------------------------------------------------------------------------
(* AutoSave *)

(* autoSave only watches: no timer, save or stop touches the database       *)
(* (Session.#autoSave, Database.watchCommits).                             *)
THEOREM AutoSaveOnlyWatches == AutoSpec => ConnSpec
<1>1. AutoInit => ConnInit
  BY DEF AutoInit
<1>2. [AutoNext]_watchedVars => [ConnNext]_connVars
  <2> SUFFICES ASSUME [AutoNext]_watchedVars PROVE [ConnNext]_connVars
    OBVIOUS
  <2>1. CASE Database
    BY <2>1 DEF Database
  <2>2. CASE TimerFires \/ CheckFires \/ SaveEnds \/ StopAutoSave
    BY <2>2 DEF TimerFires, CheckFires, SaveEnds, StopAutoSave
  <2>3. CASE UNCHANGED watchedVars
    BY <2>3 DEF watchedVars
  <2> QED
    BY <2>1, <2>2, <2>3 DEF AutoNext
<1> QED
  BY <1>1, <1>2, PTL DEF AutoSpec, ConnSpec

(* Once the session or its database closed, no save begins: not by a timer  *)
(* that was set, nor by a run that waited for another save to end          *)
(* (Session.#autoSave, active and stop).                                   *)
THEOREM NoSaveAfterTheEnd == AutoSpec => StoppedSavesNothing
<1>1. [AutoNext]_watchedVars => [stopped \/ conn # "open" => saving' \in {saving, Nothing}]_watchedVars
  <2> SUFFICES ASSUME AutoNext, ~Active PROVE saving' \in {saving, Nothing}
    BY DEF Active
  <2>1. CASE Database
    BY <2>1 DEF Database, Committed, autoVars
  <2>2. CASE TimerFires
    BY <2>2 DEF TimerFires, Runs, Stops
  <2>3. CASE CheckFires
    BY <2>3 DEF CheckFires, Runs, Stops
  <2>4. CASE SaveEnds
    BY <2>4 DEF SaveEnds, Runs, Stops
  <2>5. CASE StopAutoSave
    BY <2>5 DEF StopAutoSave
  <2> QED
    BY <2>1, <2>2, <2>3, <2>4, <2>5 DEF AutoNext
<1> QED
  BY <1>1, PTL DEF AutoSpec, StoppedSavesNothing

(* What is proved of Connection holds under it. *)
THEOREM StatementsNeverDangleUnderAutoSave == AutoSpec => []NothingDangles
BY AutoSaveOnlyWatches, StatementsNeverDangle, PTL
=============================================================================
