--------------------------- MODULE IdbStorageProofs ---------------------------
(***************************************************************************)
(* IndexedDB holds a commit at all times, that of every flush() that        *)
(* resolved, and the last one once nothing is queued: for files, chunks and *)
(* transactions of any size, and any number of commits, failures and pages *)
(* that close.                                                             *)
(***************************************************************************)
EXTENDS IdbStorage, WellFoundedInduction, TLAPS

(***************************************************************************)
(* The invariant                                                           *)
(***************************************************************************)
Data == [Page -> Nat]
Contents == [data : Data, meta : File]

(* A file holds nothing beyond its size. *)
Shaped(f) == \A p \in Page : f.size <= p => f.data[p] = 0

(* What is stored is the commit that its meta tells, and nothing else.     *)
Exact(s) == s.data = s.meta.data /\ Shaped(s.meta)

(* What is stored once batch `b' is; an empty one is not written.          *)
Then(s, b) == IF b = EmptyBatch THEN s ELSE Stored(s, b)
Base  == Then(stored, running)
Total == Then(Base, pending)

(* Where a commit that was cut to `least' on its way truncates.            *)
Cut(least) == IF least < size THEN Chunks(least) ELSE Infinity

QueueInv ==
  /\ writing <=> running # EmptyBatch
  /\ scheduled => pending # EmptyBatch
  /\ writing /\ pending # EmptyBatch => scheduled /\ HasPending
  /\ closed <=> db # "stored"

(* With or without the write under way, and with all that is queued.       *)
StoreInv == Exact(stored) /\ Exact(Base) /\ (~Drained => Exact(Total))

(* A chunk that is not dirty is what all that is queued makes it, cut where *)
(* the next report will cut it.                                            *)
LinkInv == db = "stored" =>
  /\ size = Total.meta.size \/ (size = Infinity /\ Total.meta = NoFile)
  /\ min <= file.size
  /\ \A p \in Page : ChunkOf(p) \notin dirty =>
       file.data[p] = IF ChunkOf(p) >= Cut(min) THEN 0 ELSE Total.data[p]

(* Commits are stored in their order. *)
OrderInv ==
  /\ stored.meta.n <= commits /\ file.n <= commits /\ reported <= commits
  /\ stored.meta.n <= Base.meta.n
  /\ ~Drained => Base.meta.n <= Total.meta.n /\ Total.meta.n = reported
  /\ db # "none" => stored.meta.n <= file.n /\ (~Drained => reported <= file.n)

(* The write that a flush() waits for is of all that was reported before.  *)
FlushInv ==
  /\ flushing = "queued" => scheduled /\ wanted <= reported
  /\ flushing = "started" => writing /\ wanted <= running.meta.n

IInv == /\ TypeOK /\ QueueInv /\ StoreInv /\ Shaped(file) /\ LinkInv /\ OrderInv /\ FlushInv
        /\ FlushedMeansStored /\ QuietMeansStored

(***************************************************************************)
(* Pages and chunks                                                        *)
(***************************************************************************)
LEMMA LesserOfTwo ==
  ASSUME NEW a \in Int, NEW b \in Int
  PROVE  Lesser(a, b) \in Int /\ Lesser(a, b) <= a /\ Lesser(a, b) <= b /\ Lesser(a, b) \in {a, b}
BY DEF Lesser

LEMMA Products ==
  ASSUME NEW a \in Int, NEW b \in Int, NEW k \in Nat \ {0}
  PROVE  /\ a * k \in Int /\ (a + 1) * k = a * k + k
         /\ a < b => a * k + k <= b * k
         /\ a <= b => a * k <= b * k
<1>1. a * k \in Int /\ (a + 1) * k = a * k + k
  OBVIOUS
<1>2. ASSUME NEW d \in Nat PROVE d * k \in Nat
  OBVIOUS
<1>3. a <= b => a * k <= b * k
  <2> SUFFICES ASSUME a <= b PROVE a * k <= b * k
    OBVIOUS
  <2>1. b - a \in Nat /\ b * k = a * k + (b - a) * k
    OBVIOUS
  <2>2. (b - a) * k \in Nat
    BY <1>2, <2>1
  <2> QED
    BY <2>1, <2>2
<1>4. a < b => a * k + k <= b * k
  <2> SUFFICES ASSUME a < b PROVE a * k + k <= b * k
    OBVIOUS
  <2>1. b - (a + 1) \in Nat /\ b * k = (a + 1) * k + (b - (a + 1)) * k
    OBVIOUS
  <2>2. (b - (a + 1)) * k \in Nat
    BY <1>2, <2>1
  <2> QED
    BY <1>1, <2>1, <2>2
<1> QED
  BY <1>1, <1>3, <1>4

LEMMA ChunkBounds ==
  ASSUME NEW p \in Nat
  PROVE  /\ ChunkOf(p) \in Nat /\ ChunkOf(p) * PerChunk \in Int
         /\ ChunkOf(p) * PerChunk <= p /\ p < ChunkOf(p) * PerChunk + PerChunk
<1> DEFINE q == p \div PerChunk  r == p % PerChunk
<1>1. PerChunk \in Nat \ {0}
  BY PerChunkAssumption
<1>2. q \in Int /\ r \in Int /\ p = PerChunk * q + r /\ 0 <= r /\ r < PerChunk
  BY <1>1
<1>3. q \in Nat
  BY <1>1, <1>2
<1> QED
  BY <1>1, <1>2, <1>3 DEF ChunkOf

LEMMA ChunksBounds ==
  ASSUME NEW s \in Nat
  PROVE  /\ Chunks(s) \in Nat /\ Chunks(s) * PerChunk \in Int
         /\ s <= Chunks(s) * PerChunk /\ Chunks(s) * PerChunk < s + PerChunk
<1>1. PerChunk \in Nat \ {0}
  BY PerChunkAssumption
<1>2. s + PerChunk - 1 \in Nat /\ Chunks(s) = ChunkOf(s + PerChunk - 1)
  BY <1>1 DEF Chunks, ChunkOf
<1> QED
  BY <1>1, <1>2, ChunkBounds

(* A page below `s' is in the chunks of a file of that size; one that is    *)
(* not, and in these chunks, is in the last, in which the file ends.        *)
LEMMA ChunksOfSize ==
  ASSUME NEW p \in Nat, NEW s \in Nat
  PROVE  /\ p < s => ChunkOf(p) < Chunks(s)
         /\ s <= p /\ ChunkOf(p) < Chunks(s) => ChunkOf(p) = ChunkOf(s) /\ s % PerChunk # 0
<1> DEFINE k == PerChunk  c == ChunkOf(p)  e == Chunks(s)  d == ChunkOf(s)
<1>1. k \in Nat \ {0}
  BY PerChunkAssumption
<1>2. c \in Nat /\ c * k \in Int /\ c * k <= p /\ p < c * k + k
  BY ChunkBounds
<1>3. e \in Nat /\ e * k \in Int /\ s <= e * k /\ e * k < s + k
  BY ChunksBounds
<1>4. d \in Nat /\ d * k \in Int /\ d * k <= s /\ s < d * k + k
  BY ChunkBounds
<1>5. s % k = 0 => s = d * k
  BY <1>1 DEF ChunkOf
<1> HIDE DEF k, c, e, d
<1>6. p < s => c < e
  <2> SUFFICES ASSUME p < s, e <= c PROVE FALSE
    BY <1>2, <1>3
  <2>1. e * k <= c * k
    BY <1>1, <1>2, <1>3, Products
  <2> QED
    BY <1>2, <1>3, <2>1
<1>7. ASSUME s <= p, c < e PROVE c = d /\ s % k # 0
  <2>1. c * k + k <= e * k
    BY <1>1, <1>2, <1>3, <1>7, Products
  <2>2. c * k < s
    BY <1>1, <1>2, <1>3, <2>1
  <2>3. ~(c < d)
    <3> SUFFICES ASSUME c < d PROVE FALSE
      OBVIOUS
    <3>1. c * k + k <= d * k
      BY <1>1, <1>2, <1>4, Products
    <3> QED
      BY <1>1, <1>2, <1>4, <1>7, <3>1
  <2>4. ~(d < c)
    <3> SUFFICES ASSUME d < c PROVE FALSE
      OBVIOUS
    <3>1. d * k + k <= c * k
      BY <1>1, <1>2, <1>4, Products
    <3> QED
      BY <1>1, <1>2, <1>4, <2>2, <3>1
  <2>5. c = d
    BY <1>2, <1>4, <2>3, <2>4
  <2>6. s % k # 0
    BY <1>2, <1>5, <2>2, <2>5
  <2> QED
    BY <2>5, <2>6
<1> QED
  BY <1>6, <1>7 DEF k, c, e, d

LEMMA ChunksRise ==
  ASSUME NEW a \in Nat, NEW b \in Nat, a <= b
  PROVE  Chunks(a) <= Chunks(b)
<1> DEFINE k == PerChunk  c == Chunks(a)  e == Chunks(b)
<1>1. k \in Nat \ {0}
  BY PerChunkAssumption
<1>2. c \in Nat /\ c * k \in Int /\ c * k < a + k
  BY ChunksBounds
<1>3. e \in Nat /\ e * k \in Int /\ b <= e * k
  BY ChunksBounds
<1> HIDE DEF k, c, e
<1> SUFFICES ASSUME e < c PROVE FALSE
  BY <1>2, <1>3 DEF c, e
<1>4. e * k + k <= c * k
  BY <1>1, <1>2, <1>3, Products
<1> QED
  BY <1>1, <1>2, <1>3, <1>4

(* Pages and sizes, their chunks, and what is beyond all of them. *)
LEMMA Ranges ==
  /\ Limit \in Nat /\ Infinity \in Nat /\ N <= Limit /\ Limit < Infinity /\ N < Infinity
  /\ \A p \in Page : /\ p \in Nat /\ p < Limit /\ ChunkOf(p) \in Chunk
                     /\ ChunkOf(p) \in Nat /\ ChunkOf(p) < Infinity
  /\ \A s \in Size : /\ s \in Nat /\ s <= Limit /\ s < Infinity
                     /\ Chunks(s) \in Nat /\ Chunks(s) <= N
<1>1. PerChunk \in Nat \ {0} /\ N \in Nat \ {0}
  BY PerChunkAssumption, NAssumption
<1>2. Limit = N * PerChunk /\ Limit \in Nat /\ N <= Limit
  <2>1. 1 * N <= PerChunk * N
    BY <1>1, Products
  <2>2. 1 * N = N /\ PerChunk * N = N * PerChunk /\ N * PerChunk \in Nat
    BY <1>1
  <2> QED
    BY <1>1, <2>1, <2>2 DEF Limit
<1>3. Infinity = Limit + 1
  BY DEF Infinity
<1>4. ASSUME NEW p \in Page PROVE p \in Nat /\ p < Limit /\ ChunkOf(p) \in Nat /\ ChunkOf(p) < N
  <2>1. p \in Nat /\ p < Limit
    BY <1>2 DEF Page
  <2>2. ChunkOf(p) \in Nat /\ ChunkOf(p) * PerChunk \in Int /\ ChunkOf(p) * PerChunk <= p
    BY <2>1, ChunkBounds
  <2>3. N <= ChunkOf(p) => N * PerChunk <= ChunkOf(p) * PerChunk
    BY <1>1, <2>2, Products
  <2> QED
    BY <1>1, <1>2, <2>1, <2>2, <2>3
<1>5. ASSUME NEW s \in Size PROVE s \in Nat /\ s <= Limit /\ Chunks(s) \in Nat /\ Chunks(s) <= N
  <2>1. s \in Nat /\ s <= Limit
    BY <1>2 DEF Size
  <2>2. Chunks(s) \in Nat /\ Chunks(s) * PerChunk \in Int /\ Chunks(s) * PerChunk < s + PerChunk
    BY <2>1, ChunksBounds
  <2>3. N < Chunks(s) => N * PerChunk + PerChunk <= Chunks(s) * PerChunk
    BY <1>1, <2>2, Products
  <2> QED
    BY <1>1, <1>2, <2>1, <2>2, <2>3
<1>6. \A p \in Page : ChunkOf(p) \in Chunk
  BY <1>1, <1>4 DEF Chunk
<1> QED
  BY <1>1, <1>2, <1>3, <1>4, <1>5, <1>6

(***************************************************************************)
(* Batches                                                                 *)
(***************************************************************************)
LEMMA Empties ==
  /\ Zeros \in Data /\ NoFile \in File /\ Shaped(NoFile)
  /\ NoFile.n = 0 /\ NoFile.size = 0 /\ NoFile.data = Zeros
  /\ EmptyBatch \in Batch /\ EmptyBatch.meta = NoFile
  /\ NothingStored \in Contents /\ NothingStored.meta = NoFile /\ Exact(NothingStored)
<1>1. Zeros \in Data /\ \A p \in Page : Zeros[p] = 0
  BY DEF Zeros, Data
<1>2. NoFile.n = 0 /\ NoFile.size = 0 /\ NoFile.data = Zeros
  BY DEF NoFile
<1>3. 0 \in Size
  BY Ranges DEF Size
<1>4. NoFile \in File
  BY <1>1, <1>3 DEF NoFile, File, Data
<1>5. Shaped(NoFile)
  BY <1>1, <1>2 DEF Shaped
<1>6. EmptyBatch \in Batch /\ EmptyBatch.meta = NoFile
  <2>1. Infinity \in 0 .. Infinity
    BY Ranges
  <2> QED
    BY <1>1, <1>4, <2>1 DEF EmptyBatch, Batch, Data
<1>7. NothingStored \in Contents /\ NothingStored.meta = NoFile /\ NothingStored.data = Zeros
  BY <1>1, <1>4 DEF NothingStored, Contents
<1> QED
  BY <1>1, <1>2, <1>4, <1>5, <1>6, <1>7 DEF Exact

(* What a batch makes of the chunks `d'. *)
LEMMA OverPages ==
  ASSUME NEW d, NEW b
  PROVE  /\ DOMAIN Over(d, b) = Page
         /\ \A p \in Page : /\ ChunkOf(p) \in b.chunks => Over(d, b)[p] = b.data[p]
                            /\ ChunkOf(p) \notin b.chunks /\ ChunkOf(p) >= b.truncate
                                 => Over(d, b)[p] = 0
                            /\ ChunkOf(p) \notin b.chunks /\ ~(ChunkOf(p) >= b.truncate)
                                 => Over(d, b)[p] = d[p]
BY DEF Over

LEMMA OverType ==
  ASSUME NEW d \in Data, NEW b, b.data \in Data
  PROVE  Over(d, b) \in Data
BY DEF Over, Data

(* An empty batch changes nothing. *)
LEMMA OverEmpty ==
  ASSUME NEW d \in Data
  PROVE  Over(d, EmptyBatch) = d
<1>1. \A p \in Page : ChunkOf(p) \notin EmptyBatch.chunks /\ ~(ChunkOf(p) >= EmptyBatch.truncate)
  BY Ranges DEF EmptyBatch
<1>2. Over(d, EmptyBatch) = [p \in Page |-> d[p]]
  BY <1>1 DEF Over
<1> QED
  BY <1>2 DEF Data

LEMMA BatchFields ==
  ASSUME NEW b \in Batch
  PROVE  /\ b.truncate \in 0 .. Infinity /\ b.truncate \in Nat /\ b.truncate <= Infinity
         /\ b.chunks \subseteq Chunk /\ b.data \in Data /\ b.meta \in File
         /\ b = [truncate |-> b.truncate, chunks |-> b.chunks, data |-> b.data, meta |-> b.meta]
<1>1. b.truncate \in 0 .. Infinity /\ b.chunks \subseteq Chunk /\ b.data \in Data /\ b.meta \in File
  BY DEF Batch, Data
<1>2. b.truncate \in Nat /\ b.truncate <= Infinity
  BY <1>1, Ranges
<1>3. b = [truncate |-> b.truncate, chunks |-> b.chunks, data |-> b.data, meta |-> b.meta]
  BY DEF Batch
<1> QED
  BY <1>1, <1>2, <1>3

LEMMA MergeFields ==
  ASSUME NEW a \in Batch, NEW b \in Batch
  PROVE  /\ Merge(a, b) \in Batch
         /\ Merge(a, b).truncate = Lesser(a.truncate, b.truncate)
         /\ Merge(a, b).chunks = {c \in a.chunks : c < b.truncate} \union b.chunks
         /\ Merge(a, b).data = Over(a.data, b)
         /\ Merge(a, b).meta = IF b.meta = NoFile THEN a.meta ELSE b.meta
<1>1. /\ Merge(a, b).truncate = Lesser(a.truncate, b.truncate)
      /\ Merge(a, b).chunks = {c \in a.chunks : c < b.truncate} \union b.chunks
      /\ Merge(a, b).data = Over(a.data, b)
      /\ Merge(a, b).meta = IF b.meta = NoFile THEN a.meta ELSE b.meta
  BY DEF Merge
<1>2. Lesser(a.truncate, b.truncate) \in 0 .. Infinity
  <2>1. a.truncate \in Int /\ b.truncate \in Int
    BY BatchFields
  <2> QED
    BY <2>1, BatchFields DEF Lesser
<1>3. {c \in a.chunks : c < b.truncate} \union b.chunks \in SUBSET Chunk
  BY BatchFields
<1>4. Over(a.data, b) \in Data
  BY BatchFields, OverType
<1>5. (IF b.meta = NoFile THEN a.meta ELSE b.meta) \in File
  BY BatchFields
<1>6. Merge(a, b) \in Batch
  BY <1>2, <1>3, <1>4, <1>5 DEF Merge, Batch, Data
<1> QED
  BY <1>1, <1>6

(* Batches that are merged do what they would one after the other.         *)
LEMMA OverMerge ==
  ASSUME NEW d \in Data, NEW a \in Batch, NEW b \in Batch
  PROVE  Over(d, Merge(a, b)) = Over(Over(d, a), b)
<1> DEFINE m == Merge(a, b)
           l == Over(d, m)
           r == Over(Over(d, a), b)
<1>1. /\ m.truncate = Lesser(a.truncate, b.truncate)
      /\ m.chunks = {c \in a.chunks : c < b.truncate} \union b.chunks
      /\ m.data = Over(a.data, b)
  BY MergeFields
<1>2. a.truncate \in Int /\ b.truncate \in Int
  BY BatchFields
<1>3. m.truncate \in {a.truncate, b.truncate} /\ m.truncate <= a.truncate /\ m.truncate <= b.truncate
      /\ m.truncate \in Int
  BY <1>1, <1>2, LesserOfTwo
<1> HIDE DEF m
<1>4. ASSUME NEW p \in Page PROVE l[p] = r[p]
  <2> DEFINE c == ChunkOf(p)
  <2>1. c \in Int
    BY Ranges
  <2> HIDE DEF c
  <2>2. CASE c \in b.chunks
    <3>1. c \in m.chunks
      BY <1>1, <2>2
    <3>2. l[p] = m.data[p]
      BY <3>1, OverPages DEF c
    <3>3. m.data[p] = b.data[p]
      BY <1>1, <2>2, OverPages DEF c
    <3>4. r[p] = b.data[p]
      BY <2>2, OverPages DEF c
    <3> QED
      BY <3>2, <3>3, <3>4
  <2>3. CASE c \notin b.chunks /\ c >= b.truncate
    <3>1. c \notin m.chunks /\ c >= m.truncate
      BY <1>1, <1>2, <1>3, <2>1, <2>3
    <3>2. l[p] = 0
      BY <3>1, OverPages DEF c
    <3>3. r[p] = 0
      BY <2>3, OverPages DEF c
    <3> QED
      BY <3>2, <3>3
  <2>4. CASE c \notin b.chunks /\ ~(c >= b.truncate)
    <3>1. r[p] = Over(d, a)[p]
      BY <2>4, OverPages DEF c
    <3>2. c \in m.chunks <=> c \in a.chunks
      BY <1>1, <1>2, <2>1, <2>4
    <3>3. c >= m.truncate <=> c >= a.truncate
      BY <1>2, <1>3, <2>1, <2>4
    <3>4. CASE c \in a.chunks
      <4>1. l[p] = m.data[p]
        BY <3>2, <3>4, OverPages DEF c
      <4>2. m.data[p] = a.data[p]
        BY <1>1, <2>4, OverPages DEF c
      <4>3. Over(d, a)[p] = a.data[p]
        BY <3>4, OverPages DEF c
      <4> QED
        BY <3>1, <4>1, <4>2, <4>3
    <3>5. CASE c \notin a.chunks /\ c >= a.truncate
      <4>1. l[p] = 0
        BY <3>2, <3>3, <3>5, OverPages DEF c
      <4>2. Over(d, a)[p] = 0
        BY <3>5, OverPages DEF c
      <4> QED
        BY <3>1, <4>1, <4>2
    <3>6. CASE c \notin a.chunks /\ ~(c >= a.truncate)
      <4>1. l[p] = d[p]
        BY <3>2, <3>3, <3>6, OverPages DEF c
      <4>2. Over(d, a)[p] = d[p]
        BY <3>6, OverPages DEF c
      <4> QED
        BY <3>1, <4>1, <4>2
    <3> QED
      BY <3>4, <3>5, <3>6
  <2> QED
    BY <2>2, <2>3, <2>4
<1>5. l = [p \in Page |-> l[p]] /\ r = [p \in Page |-> r[p]]
  BY DEF Over
<1> HIDE DEF l, r
<1>6. l = r
  BY <1>4, <1>5
<1> QED
  BY <1>6 DEF l, r, m

LEMMA ThenFields ==
  ASSUME NEW s \in Contents, NEW b \in Batch
  PROVE  /\ Then(s, b) \in Contents
         /\ Then(s, b).data = Over(s.data, b)
         /\ Then(s, b).meta = IF b = EmptyBatch THEN s.meta ELSE b.meta
         /\ Then(s, b) = [data |-> Then(s, b).data, meta |-> Then(s, b).meta]
<1>1. s.data \in Data /\ s.meta \in File /\ s = [data |-> s.data, meta |-> s.meta]
  BY DEF Contents
<1>2. b.data \in Data /\ b.meta \in File
  BY BatchFields
<1>3. CASE b = EmptyBatch
  BY <1>1, <1>3, OverEmpty DEF Then
<1>4. CASE b # EmptyBatch
  <2>1. Then(s, b) = [data |-> Over(s.data, b), meta |-> b.meta]
    BY <1>4 DEF Then, Stored
  <2>2. Over(s.data, b) \in Data
    BY <1>1, <1>2, OverType
  <2> QED
    BY <1>2, <1>4, <2>1, <2>2 DEF Contents
<1> QED
  BY <1>3, <1>4

(* A batch that is merged into another is one of a commit, or empty. *)
LEMMA ThenMerge ==
  ASSUME NEW s \in Contents, NEW a \in Batch, NEW b \in Batch,
         b = EmptyBatch \/ b.meta # NoFile
  PROVE  /\ Then(s, Merge(a, b)) = Then(Then(s, a), b)
         /\ b # EmptyBatch \/ a # EmptyBatch => Merge(a, b) # EmptyBatch
<1> DEFINE m == Merge(a, b)
<1>1. m \in Batch /\ m.meta = (IF b.meta = NoFile THEN a.meta ELSE b.meta)
  BY MergeFields
<1>2. CASE b = EmptyBatch
  <2>1. m = a
    <3>1. m = [truncate |-> m.truncate, chunks |-> m.chunks, data |-> m.data, meta |-> m.meta]
      BY <1>1, BatchFields
    <3>2. b.meta = NoFile /\ b.truncate = Infinity /\ b.chunks = {}
      BY <1>2, Empties DEF EmptyBatch
    <3>3. a.truncate \in Int /\ b.truncate \in Int /\ a.truncate <= Infinity
      BY BatchFields
    <3>4. m.truncate = a.truncate
      <4>1. m.truncate = Lesser(a.truncate, b.truncate)
        BY MergeFields
      <4> HIDE DEF m
      <4> QED
        BY <3>2, <3>3, <4>1 DEF Lesser
    <3>5. m.chunks = a.chunks
      <4>1. \A c \in a.chunks : c < Infinity
        BY BatchFields, Ranges, NAssumption DEF Chunk
      <4>2. m.chunks = {c \in a.chunks : c < b.truncate} \union b.chunks
        BY MergeFields
      <4> HIDE DEF m
      <4> QED
        BY <3>2, <4>1, <4>2
    <3>6. m.data = a.data
      BY <1>2, MergeFields, BatchFields, OverEmpty
    <3>7. m.meta = a.meta
      BY <1>1, <3>2
    <3> HIDE DEF m
    <3> QED
      BY <3>1, <3>4, <3>5, <3>6, <3>7, BatchFields
  <2>2. Then(Then(s, a), b) = Then(s, a)
    BY <1>2 DEF Then
  <2> QED
    BY <1>2, <2>1, <2>2
<1>3. CASE b.meta # NoFile
  <2>1. m.meta = b.meta /\ m # EmptyBatch /\ b # EmptyBatch
    BY <1>1, <1>3, Empties
  <2>2. /\ Then(s, m) = [data |-> Then(s, m).data, meta |-> Then(s, m).meta]
        /\ Then(s, m).data = Over(s.data, m) /\ Then(s, m).meta = b.meta
    <3> HIDE DEF m
    <3> QED
      BY <1>1, <2>1, ThenFields
  <2>3. /\ Then(s, a) \in Contents /\ Then(s, a).data = Over(s.data, a)
    BY ThenFields
  <2> DEFINE t == Then(s, a)
  <2>4. t \in Contents /\ t.data = Over(s.data, a)
    BY <2>3
  <2> HIDE DEF t
  <2>5. /\ Then(t, b) = [data |-> Then(t, b).data, meta |-> Then(t, b).meta]
        /\ Then(t, b).data = Over(t.data, b) /\ Then(t, b).meta = b.meta
    BY <2>1, <2>4, ThenFields
  <2>6. Over(s.data, m) = Over(Over(s.data, a), b)
    <3>1. s.data \in Data
      BY DEF Contents
    <3> QED
      BY <3>1, OverMerge
  <2>7. Then(s, m) = Then(t, b)
    <3> HIDE DEF m
    <3> QED
      BY <2>2, <2>4, <2>5, <2>6
  <2> QED
    BY <2>1, <2>7 DEF t
<1> QED
  BY <1>2, <1>3

(***************************************************************************)
(* The state                                                               *)
(***************************************************************************)
LEMMA Types ==
  ASSUME TypeOK
  PROVE  /\ stored \in Contents /\ Base \in Contents /\ Total \in Contents
         /\ pending \in Batch /\ running \in Batch
         /\ stored.meta.n \in Nat /\ Base.meta.n \in Nat /\ Total.meta.n \in Nat
         /\ running.meta.n \in Nat /\ Total.meta.size \in Size
         /\ file.n \in Nat /\ file.size \in Size /\ file.data \in Data
<1>1. stored \in Contents /\ pending \in Batch /\ running \in Batch
  BY DEF TypeOK, Contents, Data
<1>2. Base \in Contents
  BY <1>1, ThenFields DEF Base
<1>3. Total \in Contents
  BY <1>1, <1>2, ThenFields DEF Total
<1>4. \A s \in Contents : s.meta \in File
  BY DEF Contents
<1>5. \A f \in File : f.n \in Nat /\ f.size \in Size /\ f.data \in Data
  BY DEF File, Data
<1>6. file \in File
  BY DEF TypeOK
<1> QED
  BY <1>1, <1>2, <1>3, <1>4, <1>5, <1>6, BatchFields

LEMMA SameBatches ==
  UNCHANGED <<stored, running, pending>> => Base' = Base /\ Total' = Total
BY DEF Base, Total, Then

(* Between writes what is stored is the base of what is queued. *)
LEMMA QuietBase ==
  ASSUME QueueInv
  PROVE  /\ ~writing => Base = stored /\ Total = Then(stored, pending)
         /\ writing => Base = Stored(stored, running) /\ Base.meta = running.meta
         /\ pending = EmptyBatch => Total = Base
         /\ pending # EmptyBatch => Total.meta = pending.meta
BY DEF QueueInv, Base, Total, Then, Stored

(* A database that is stored has its writes to come. *)
LEMMA StoredIsLive ==
  ASSUME QueueInv, db = "stored"
  PROVE  ~Drained /\ ~closed
BY DEF QueueInv, Drained

(***************************************************************************)
(* The queue of writes                                                     *)
(***************************************************************************)
(* The queue goes on: all that it is to store stays.                       *)
LEMMA QueueStep ==
  ASSUME IInv, TypeOK', QueueInv', UNCHANGED <<overlayVars, size, closed, reported>>, ~Drained,
         Total' = Total, stored' = stored \/ stored' = Base,
         Base' = stored \/ Base' = Base \/ Base' = Total,
         stored'.meta.n <= Base'.meta.n, FlushInv', FlushedMeansStored', QuietMeansStored'
  PROVE  IInv'
<1>1. UNCHANGED <<db, file, dirty, min, commits, size, reported>>
  BY DEF overlayVars
<1>2. StoreInv'
  BY DEF IInv, StoreInv, Exact, Shaped
<1>3. Shaped(file)' /\ LinkInv'
  BY <1>1 DEF IInv, LinkInv, Shaped, Cut
<1>4. OrderInv'
  <2>1. stored.meta.n <= Base.meta.n /\ Base.meta.n <= Total.meta.n /\ Total.meta.n = reported
    BY DEF IInv, OrderInv
  <2>2. stored.meta.n \in Nat /\ Base.meta.n \in Nat /\ Total.meta.n \in Nat /\ commits \in Nat
        /\ file.n \in Nat /\ reported \in Nat
    BY Types DEF IInv, TypeOK
  <2>3. stored'.meta.n <= reported /\ Base'.meta.n <= reported
    BY <2>1, <2>2
  <2>4. stored'.meta.n <= commits /\ (db # "none" => stored'.meta.n <= file.n)
    <3>1. reported <= commits /\ (db # "none" => reported <= file.n)
      BY DEF IInv, OrderInv
    <3>2. stored'.meta.n \in Nat
      BY <2>2
    <3> QED
      BY <2>2, <2>3, <3>1, <3>2
  <2> QED
    BY <1>1, <2>1, <2>3, <2>4 DEF IInv, OrderInv
<1> QED
  BY <1>2, <1>3, <1>4 DEF IInv

LEMMA StartWriteStep ==
  ASSUME IInv, TypeOK', StartWrite
  PROVE  IInv'
<1>1. /\ scheduled /\ ~writing /\ writing' = TRUE /\ scheduled' = FALSE
      /\ running' = pending /\ pending' = EmptyBatch
      /\ flushing' = IF flushing = "queued" THEN "started" ELSE flushing
      /\ UNCHANGED <<overlayVars, size, closed, stored, reported, wanted, promised, db>>
  BY DEF StartWrite, historyVars, overlayVars
<1>2. QueueInv
  BY DEF IInv
<1>3. pending # EmptyBatch
  BY <1>1, <1>2 DEF QueueInv
<1>4. QueueInv'
  BY <1>1, <1>2, <1>3 DEF QueueInv
<1>5. Base = stored /\ Total = Then(stored, pending) /\ Total.meta = pending.meta
  BY <1>1, <1>2, <1>3, QuietBase
<1>6. Base' = Total /\ Total' = Total
  BY <1>1, <1>5 DEF Base, Total, Then
<1>7. ~Drained
  BY <1>1 DEF Drained
<1>8. stored.meta.n <= Total.meta.n /\ Total.meta.n = reported
  <2>1. Base.meta.n <= Total.meta.n /\ Total.meta.n = reported
    BY <1>7 DEF IInv, OrderInv
  <2> QED
    BY <1>5, <2>1
<1>9. FlushInv'
  <2>1. flushing' # "queued" /\ (flushing' = "started" => flushing \in {"queued", "started"})
    BY <1>1
  <2>2. flushing # "started"
    BY <1>1 DEF IInv, FlushInv
  <2>3. flushing' = "started" => wanted' <= running'.meta.n
    BY <1>1, <1>5, <1>8, <2>1, <2>2 DEF IInv, FlushInv
  <2> QED
    BY <1>1, <2>1, <2>3 DEF FlushInv
<1>10. FlushedMeansStored' /\ QuietMeansStored'
  BY <1>1 DEF IInv, FlushedMeansStored, QuietMeansStored
<1> QED
  BY <1>1, <1>4, <1>6, <1>7, <1>8, <1>9, <1>10, QueueStep

LEMMA WrittenStep ==
  ASSUME IInv, TypeOK', Written
  PROVE  IInv'
<1>1. /\ writing /\ stored' = Stored(stored, running)
      /\ failed' = FALSE /\ writing' = FALSE /\ running' = EmptyBatch
      /\ flushing' = IF flushing = "started" THEN "none" ELSE flushing
      /\ promised' = IF flushing = "started" THEN wanted ELSE promised
      /\ UNCHANGED <<overlayVars, size, pending, scheduled, closed, reported, wanted, db>>
  BY DEF Written, Ended, overlayVars
<1>2. QueueInv
  BY DEF IInv
<1>3. QueueInv'
  BY <1>1, <1>2 DEF QueueInv, HasPending
<1>4. stored' = Base /\ Base.meta = running.meta
  BY <1>1, <1>2, QuietBase
<1>5. Base' = Base /\ Total' = Total
  BY <1>1, <1>4 DEF Base, Total, Then
<1>6. ~Drained
  BY <1>1 DEF Drained
<1>7. stored.meta.n \in Nat /\ Base.meta.n \in Nat /\ promised \in Nat /\ wanted \in Nat
  BY Types DEF IInv, TypeOK
<1>8. FlushInv'
  BY <1>1 DEF IInv, FlushInv
<1>9. FlushedMeansStored'
  <2>1. promised <= stored.meta.n /\ stored.meta.n <= Base.meta.n
    BY DEF IInv, OrderInv, FlushedMeansStored
  <2>2. flushing = "started" => wanted <= Base.meta.n
    BY <1>4 DEF IInv, FlushInv
  <2> QED
    BY <1>1, <1>4, <1>7, <2>1, <2>2 DEF FlushedMeansStored
<1>10. QuietMeansStored'
  <2>1. ~scheduled => pending = EmptyBatch
    BY <1>1, <1>2 DEF QueueInv
  <2>2. ~scheduled => Base.meta.n = reported
    <3>1. ~scheduled => Total = Base
      BY <1>2, <2>1, QuietBase
    <3> QED
      BY <1>6, <3>1 DEF IInv, OrderInv
  <2> QED
    BY <1>1, <1>4, <2>2 DEF QuietMeansStored
<1>11. stored'.meta.n <= Base'.meta.n
  BY <1>4, <1>5, <1>7
<1> QED
  BY <1>1, <1>3, <1>4, <1>5, <1>6, <1>8, <1>9, <1>10, <1>11, QueueStep

LEMMA WriteFailsStep ==
  ASSUME IInv, TypeOK', WriteFails
  PROVE  IInv'
<1>1. /\ writing /\ pending' = Merge(running, pending)
      /\ failed' = TRUE /\ writing' = FALSE /\ running' = EmptyBatch
      /\ flushing' = IF flushing = "started" THEN "none" ELSE flushing
      /\ UNCHANGED <<overlayVars, size, scheduled, closed, stored, reported, wanted, promised, db>>
  BY DEF WriteFails, Ended, historyVars, overlayVars
<1>2. QueueInv
  BY DEF IInv
<1>3. running # EmptyBatch /\ (pending = EmptyBatch \/ pending.meta # NoFile)
  BY <1>1, <1>2 DEF QueueInv, HasPending
<1>4. stored \in Contents /\ running \in Batch /\ pending \in Batch /\ stored.meta.n \in Nat
  BY Types DEF IInv
<1>5. pending' # EmptyBatch /\ Then(stored, pending') = Then(Then(stored, running), pending)
  BY <1>1, <1>3, <1>4, ThenMerge
<1>6. QueueInv'
  BY <1>1, <1>2, <1>5 DEF QueueInv
<1>7. Base' = stored /\ Total' = Total
  BY <1>1, <1>5 DEF Base, Total, Then
<1>8. ~Drained
  BY <1>1 DEF Drained
<1>9. FlushInv'
  BY <1>1 DEF IInv, FlushInv
<1>10. FlushedMeansStored' /\ QuietMeansStored'
  BY <1>1 DEF IInv, FlushedMeansStored, QuietMeansStored
<1>11. stored'.meta.n <= Base'.meta.n
  BY <1>1, <1>4, <1>7
<1> QED
  BY <1>1, <1>6, <1>7, <1>8, <1>9, <1>10, <1>11, QueueStep

(* A flush() waits for a write of all that was reported, or needs none.    *)
LEMMA FlushStep ==
  ASSUME IInv, TypeOK', Flush
  PROVE  IInv'
<1>1. /\ flushing = "none" /\ scheduled' = (scheduled \/ (~closed /\ HasPending))
      /\ wanted' = reported
      /\ flushing' = IF scheduled' THEN "queued" ELSE IF writing THEN "started" ELSE "none"
      /\ promised' = IF flushing' = "none" /\ ~failed THEN wanted' ELSE promised
      /\ UNCHANGED <<overlayVars, size, pending, writing, running, failed, closed, stored,
                     reported, db, file, dirty, min, commits>>
  BY DEF Flush, overlayVars
<1>2. QueueInv
  BY DEF IInv
<1>3. QueueInv'
  <2>1. HasPending => pending # EmptyBatch
    BY Empties DEF HasPending
  <2> QED
    BY <1>1, <1>2, <2>1 DEF QueueInv, HasPending
<1>4. Base' = Base /\ Total' = Total
  BY <1>1, SameBatches
<1>5. ~Drained' <=> ~Drained
  BY <1>1 DEF Drained
<1>6. StoreInv' /\ Shaped(file)' /\ LinkInv' /\ OrderInv'
  BY <1>1, <1>4, <1>5 DEF IInv, StoreInv, Exact, Shaped, LinkInv, Cut, OrderInv
<1>7. reported \in Nat
  BY DEF IInv, TypeOK
<1>8. FlushInv'
  <2>1. ASSUME ~scheduled', writing PROVE reported <= running.meta.n
    <3>1. pending = EmptyBatch /\ ~Drained
      BY <1>1, <1>2, <2>1 DEF QueueInv, Drained
    <3>2. Total = Base /\ Base.meta = running.meta
      BY <1>2, <2>1, <3>1, QuietBase
    <3> QED
      BY <1>7, <3>1, <3>2 DEF IInv, OrderInv
  <2> QED
    BY <1>1, <1>7, <2>1 DEF FlushInv
<1>9. FlushedMeansStored'
  <2>1. flushing' = "none" /\ ~failed => stored.meta.n = reported
    BY <1>1 DEF IInv, QuietMeansStored
  <2> QED
    BY <1>1, <1>7, <2>1 DEF IInv, FlushedMeansStored
<1>10. QuietMeansStored'
  BY <1>1 DEF IInv, QuietMeansStored
<1> QED
  BY <1>3, <1>6, <1>8, <1>9, <1>10 DEF IInv

(***************************************************************************)
(* Transactions                                                            *)
(***************************************************************************)
LEMMA LargestPage ==
  ASSUME NEW S \in SUBSET Page, S # {}
  PROVE  Max(S) \in S
<1> DEFINE T == {Limit - k : k \in S}
           R == OpToRel(<, Nat)
<1>1. \A k \in S : k \in Nat /\ k < Limit /\ Limit - k \in T
  BY Ranges
<1>2. IsWellFoundedOn(R, Nat)
  BY NatLessThanWellFounded
<1>3. \A x, y \in Nat : <<y, x>> \in R <=> y < x
  BY DEF OpToRel
<1>4. T \subseteq Nat /\ T # {}
  BY <1>1, Ranges
<1>5. PICK x \in T : \A y \in T : ~ (<<y, x>> \in R)
  <2> HIDE DEF T, R
  <2> QED
    BY <1>2, <1>4, WFMin, Zenon
<1>6. PICK k \in S : x = Limit - k
  BY <1>5
<1>7. \A m \in S : k >= m
  <2> TAKE m \in S
  <2>1. ~ (Limit - m < Limit - k)
    BY <1>1, <1>3, <1>4, <1>5, <1>6
  <2> QED
    BY <1>1, <2>1, Ranges
<1> QED
  BY <1>7 DEF Max

(* What commits: pages are written, and the file ends below or above them.  *)
LEMMA Commits ==
  ASSUME TypeOK, Grow \/ Shrink
  PROVE  \E written \in SUBSET Page, m, s \in Size :
           m <= file.size /\ m <= s /\ Commit(written, m, s)
<1>1. file.size \in Size /\ file.size \in Nat
  BY Types, Ranges
<1>2. CASE Grow
  <2>1. PICK written \in Writes : Commit(written, file.size,
               IF file.size <= Max(written) THEN Max(written) + 1 ELSE file.size)
    BY <1>2 DEF Grow
  <2>2. written \in SUBSET Page /\ written # {}
    BY DEF Writes
  <2>3. Max(written) \in Page
    BY <2>2, LargestPage
  <2> DEFINE s == IF file.size <= Max(written) THEN Max(written) + 1 ELSE file.size
  <2>4. s \in Size /\ file.size <= s
    BY <1>1, <2>3, Ranges DEF Page, Size
  <2>5. Commit(written, file.size, s)
    BY <2>1
  <2> HIDE DEF s
  <2> QED
    BY <1>1, <2>2, <2>4, <2>5
<1>3. CASE Shrink
  <2>1. PICK written \in Writes, m \in 1 .. file.size - 1 : Commit(written, m, m)
    BY <1>3 DEF Shrink
  <2>2. m \in Size /\ m <= file.size /\ m <= m
    BY <1>1, Ranges DEF Size
  <2>3. written \in SUBSET Page
    BY DEF Writes
  <2> QED
    BY <2>1, <2>2, <2>3
<1> QED
  BY <1>2, <1>3

LEMMA AfterFile ==
  ASSUME TypeOK, NEW written \in SUBSET Page, NEW m \in Size, NEW s \in Size, m <= s
  PROVE  /\ After(written, m, s) \in File /\ Shaped(After(written, m, s))
         /\ After(written, m, s).n = commits + 1 /\ After(written, m, s).size = s
         /\ After(written, m, s) # NoFile
         /\ \A p \in Page : After(written, m, s).data[p] =
              IF p \in written /\ p < s THEN commits + 1 ELSE IF p < m THEN file.data[p] ELSE 0
<1> DEFINE f == After(written, m, s)
<1>1. commits + 1 \in Nat /\ commits + 1 # 0 /\ file.data \in Data
  BY Types DEF TypeOK
<1>2. f.n = commits + 1 /\ f.size = s
  BY DEF After
<1>3. \A p \in Page : f.data[p] =
        IF p \in written /\ p < s THEN commits + 1 ELSE IF p < m THEN file.data[p] ELSE 0
  BY DEF After
<1>4. f \in File
  BY <1>1 DEF After, File, Data
<1>5. f # NoFile
  BY <1>1, <1>2, Empties
<1>6. Shaped(f)
  <2> SUFFICES ASSUME NEW p \in Page, s <= p PROVE f.data[p] = 0
    BY <1>2 DEF Shaped
  <2>1. m \in Nat /\ s \in Nat /\ p \in Nat
    BY Ranges
  <2>2. ~(p < s) /\ ~(p < m)
    BY <2>1
  <2> HIDE DEF f
  <2> QED
    BY <1>3, <2>2
<1> QED
  BY <1>2, <1>3, <1>4, <1>5, <1>6

(* A chunk that stays clean when the file is cut to m: below, the next      *)
(* report leaves it as before; beyond, it cuts it.                         *)
LEMMA CutFurther ==
  ASSUME IInv, db = "stored", NEW m \in Size, m <= file.size, NEW written, NEW p \in Page,
         ChunkOf(p) \notin dirty \union Touched(written, m)
  PROVE  LET cut == IF ChunkOf(p) >= Cut(Lesser(min, m)) THEN 0 ELSE Total.data[p]
         IN  /\ p < m => cut = file.data[p]
             /\ m <= p => cut = 0
<1> DEFINE c == ChunkOf(p)  least == Lesser(min, m)
           cut == IF c >= Cut(least) THEN 0 ELSE Total.data[p]
<1>1. /\ min \in Size /\ min \in Nat /\ m \in Nat /\ file.size \in Nat /\ min <= file.size
      /\ p \in Nat /\ c \in Nat /\ Infinity \in Nat /\ c < Infinity
      /\ min < Infinity /\ m < Infinity
  BY Types, Ranges DEF IInv, TypeOK, LinkInv
<1>2. least \in {min, m} /\ least <= min /\ least <= m
  BY <1>1, LesserOfTwo
<1>3. Chunks(min) \in Nat /\ Chunks(m) \in Nat /\ Chunks(least) \in Nat
      /\ Chunks(least) <= Chunks(m) /\ Chunks(least) <= Chunks(min)
  BY <1>1, <1>2, Ranges, ChunksRise
<1>4. size \in Nat
  BY Ranges DEF IInv, TypeOK
<1>5. file.data[p] = IF c >= Cut(min) THEN 0 ELSE Total.data[p]
  BY DEF IInv, LinkInv
<1>6. m < file.size /\ m <= p => c >= Chunks(m)
  <2> SUFFICES ASSUME m < file.size, m <= p, c < Chunks(m) PROVE FALSE
    BY <1>1, <1>3
  <2>1. c = ChunkOf(m) /\ m % PerChunk # 0
    BY <1>1, ChunksOfSize
  <2> QED
    BY <2>1 DEF Touched
<1>7. p < m => c < Chunks(m)
  BY <1>1, ChunksOfSize
<1> HIDE DEF c, least
<1>8. ASSUME p < m PROVE cut = file.data[p]
  <2>1. CASE least = min
    BY <1>5, <2>1
  <2>2. CASE least = m /\ m < size
    <3>1. ~(c >= Cut(least))
      BY <1>1, <1>3, <1>7, <1>8, <2>2 DEF Cut
    <3>2. ~(c >= Cut(min))
      BY <1>1, <1>2, <1>3, <1>7, <1>8, <2>2 DEF Cut
    <3> QED
      BY <1>5, <3>1, <3>2
  <2>3. CASE least = m /\ ~(m < size)
    <3>1. ~(c >= Cut(least)) /\ ~(c >= Cut(min))
      BY <1>1, <1>2, <1>4, <2>3 DEF Cut
    <3> QED
      BY <1>5, <3>1
  <2> QED
    BY <1>2, <2>1, <2>2, <2>3
<1>9. ASSUME m <= p PROVE cut = 0
  <2>1. CASE m < file.size /\ least < size
    <3>1. c >= Cut(least)
      BY <1>1, <1>3, <1>6, <1>9, <2>1 DEF Cut
    <3> QED
      BY <3>1
  <2>2. CASE ~(least < size)
    <3>1. size = Total.meta.size /\ size <= p
      BY <1>1, <1>2, <1>4, <1>9, <2>2 DEF IInv, LinkInv
    <3>2. Exact(Total)
      BY StoredIsLive DEF IInv, StoreInv
    <3>3. Total.data[p] = 0
      BY <3>1, <3>2 DEF Exact, Shaped
    <3> QED
      BY <3>3
  <2>3. CASE m = file.size
    <3>1. least = min
      BY <1>1, <1>2, <2>3 DEF least, Lesser
    <3>2. file.data[p] = 0
      BY <1>9, <2>3 DEF IInv, Shaped
    <3> QED
      BY <1>5, <3>1, <3>2
  <2> QED
    BY <1>1, <2>1, <2>2, <2>3
<1> QED
  BY <1>8, <1>9 DEF c, least

(* What a chunk is that no transaction since the last report touched. *)
LEMMA Untouched ==
  ASSUME IInv, db = "stored", NEW written \in SUBSET Page, NEW m \in Size, NEW s \in Size,
         m <= file.size, m <= s, NEW p \in Page, ChunkOf(p) \notin dirty \union Touched(written, m)
  PROVE  After(written, m, s).data[p] =
           IF ChunkOf(p) >= Cut(Lesser(min, m)) THEN 0 ELSE Total.data[p]
<1>1. p \notin written
  BY DEF Touched
<1>2. After(written, m, s).data[p] = IF p < m THEN file.data[p] ELSE 0
  BY <1>1, AfterFile DEF IInv
<1>3. p \in Nat /\ m \in Nat
  BY Ranges
<1> QED
  BY <1>2, <1>3, CutFurther

LEMMA RollbackStep ==
  ASSUME IInv, TypeOK', Rollback
  PROVE  IInv'
<1>1. PICK written \in SUBSET Page, m \in Size : RolledBack(written, m)
  BY DEF Rollback
<1>2. /\ db = "stored" /\ m <= file.size
      /\ \A p \in Page : m <= p /\ p < file.size => p \in written
      /\ dirty' = dirty \union Touched(written, m) /\ min' = Lesser(min, m)
      /\ UNCHANGED <<db, file, commits, queueVars, flushing, stored, historyVars>>
  BY <1>1 DEF RolledBack
<1>3. UNCHANGED <<size, pending, scheduled, writing, running, failed, closed, reported, wanted,
                  promised>>
  BY <1>2 DEF queueVars, historyVars
<1>4. Base' = Base /\ Total' = Total
  BY <1>2, <1>3, SameBatches
<1>5. LinkInv'
  <2>1. min' <= file.size
    <3>1. min \in Nat /\ m \in Nat /\ file.size \in Nat /\ min <= file.size
      BY <1>2, Types, Ranges DEF IInv, TypeOK, LinkInv
    <3> QED
      BY <1>2, <3>1 DEF Lesser
  <2>2. ASSUME NEW p \in Page, ChunkOf(p) \notin dirty'
        PROVE  file.data[p] = IF ChunkOf(p) >= Cut(min') THEN 0 ELSE Total.data[p]
    <3>1. p \in Nat /\ m \in Nat /\ file.size \in Nat
      BY Types, Ranges DEF IInv
    <3>2. p < m \/ file.size <= p
      <4>1. p \notin written
        BY <1>2, <2>2 DEF Touched
      <4> QED
        BY <1>2, <3>1, <4>1
    <3>3. file.size <= p => m <= p /\ file.data[p] = 0
      BY <1>2, <3>1 DEF IInv, Shaped
    <3> QED
      BY <1>2, <2>2, <3>1, <3>2, <3>3, CutFurther
  <2> QED
    BY <1>2, <1>3, <1>4, <2>1, <2>2 DEF LinkInv, Cut, IInv
<1>6. QueueInv'
  BY <1>2, <1>3 DEF IInv, QueueInv, HasPending
<1>7. StoreInv' /\ Shaped(file)' /\ OrderInv'
  BY <1>2, <1>3, <1>4 DEF IInv, StoreInv, Exact, Shaped, OrderInv, Drained
<1>8. FlushInv' /\ FlushedMeansStored' /\ QuietMeansStored'
  BY <1>2, <1>3 DEF IInv, FlushInv, FlushedMeansStored, QuietMeansStored
<1> QED
  BY <1>5, <1>6, <1>7, <1>8 DEF IInv

LEMMA TouchedChunks ==
  ASSUME TypeOK, NEW written \in SUBSET Page, NEW m \in Size
  PROVE  Touched(written, m) \subseteq Chunk
<1>1. file.size \in Nat /\ file.size <= Limit /\ m \in Nat
  BY Types, Ranges
<1>2. m < file.size => m \in Page
  BY <1>1, Ranges DEF Page
<1> QED
  BY <1>2, Ranges DEF Touched

(* The chunks that a commit reports, over all that is queued, are its file. *)
LEMMA ReportIsTheFile ==
  ASSUME IInv, db = "stored", NEW written \in SUBSET Page, NEW m \in Size, NEW s \in Size,
         m <= file.size, m <= s, NEW rep,
         rep.truncate = Cut(Lesser(min, m)),
         rep.chunks = {c \in dirty \union Touched(written, m) : c < Chunks(s)},
         \A p \in Page : ChunkOf(p) \in rep.chunks
                           => rep.data[p] = After(written, m, s).data[p]
  PROVE  Over(Total.data, rep) = After(written, m, s).data
<1> DEFINE new == After(written, m, s)  least == Lesser(min, m)
<1>1. TypeOK
  BY DEF IInv
<1>2. Shaped(new) /\ new.size = s /\ new \in File
  BY <1>1, AfterFile
<1> HIDE DEF new
<1>3. ASSUME NEW p \in Page PROVE Over(Total.data, rep)[p] = new.data[p]
  <2> DEFINE c == ChunkOf(p)
  <2>1. /\ c \in Nat /\ p \in Nat /\ s \in Nat /\ m \in Nat /\ min \in Nat /\ size \in Nat
        /\ Chunks(s) \in Nat /\ Infinity \in Nat /\ c < Infinity
    BY <1>1, Ranges DEF TypeOK
  <2>2. least \in {min, m} /\ least <= m /\ least \in Nat /\ least <= s
    <3>1. min \in Int /\ m \in Int
      BY <2>1
    <3>2. least \in {min, m} /\ least <= m
      BY <3>1, LesserOfTwo
    <3> HIDE DEF least
    <3> QED
      BY <2>1, <3>2
  <2>3. Chunks(least) \in Nat /\ Chunks(least) <= Chunks(s)
    BY <1>1, <2>1, <2>2, Ranges, ChunksRise DEF TypeOK
  <2>4. CASE c \in rep.chunks
    BY <2>4, OverPages DEF new
  <2>5. CASE c \notin dirty \union Touched(written, m)
    <3>1. c \notin rep.chunks
      BY <2>5
    <3>2. new.data[p] = IF c >= Cut(least) THEN 0 ELSE Total.data[p]
      BY <2>5, Untouched DEF new
    <3> HIDE DEF c
    <3> QED
      BY <3>1, <3>2, OverPages DEF c
  <2>6. CASE c \notin rep.chunks /\ c \in dirty \union Touched(written, m)
    <3>1. Chunks(s) <= c
      BY <2>1, <2>6
    <3>2. s <= p
      <4>1. p < s => c < Chunks(s)
        BY <2>1, ChunksOfSize
      <4> HIDE DEF c
      <4> QED
        BY <2>1, <3>1, <4>1
    <3>3. new.data[p] = 0
      BY <1>2, <3>2 DEF Shaped
    <3>4. CASE least < size
      <4>1. c >= Cut(least)
        <5> HIDE DEF c, least
        <5> QED
          BY <2>1, <2>3, <3>1, <3>4 DEF Cut
      <4> QED
        BY <2>6, <3>3, <4>1, OverPages
    <3>5. CASE ~(least < size)
      <4>1. size <= p /\ size # Infinity
        <5>1. p < Infinity
          BY Ranges
        <5> HIDE DEF c, least
        <5> QED
          BY <2>1, <2>2, <3>2, <3>5, <5>1
      <4>2. Total.meta.size <= p
        BY <4>1 DEF IInv, LinkInv
      <4>3. Exact(Total)
        BY StoredIsLive DEF IInv, StoreInv
      <4>4. Total.data[p] = 0
        BY <4>2, <4>3 DEF Exact, Shaped
      <4>5. ~(c >= Cut(least))
        BY <2>1, <3>5 DEF Cut
      <4> QED
        BY <2>6, <3>3, <4>4, <4>5, OverPages
    <3> QED
      BY <3>4, <3>5
  <2> QED
    BY <2>4, <2>5, <2>6
<1>4. new.data \in Data /\ new.data = [p \in Page |-> new.data[p]]
  BY <1>2 DEF File, Data
<1>5. Over(Total.data, rep) = [p \in Page |-> Over(Total.data, rep)[p]]
  BY DEF Over
<1> QED
  BY <1>3, <1>4, <1>5 DEF new

(* ovReportCommit, when the listener takes the commit.                     *)
LEMMA ReportedStep ==
  ASSUME IInv, TypeOK', db = "stored", NEW written \in SUBSET Page, NEW m \in Size, NEW s \in Size,
         m <= file.size, m <= s, file' = After(written, m, s), commits' = commits + 1,
         Reported(file', dirty \union Touched(written, m), Lesser(min, m)),
         UNCHANGED <<db, writing, running, failed, closed, flushing, stored, wanted, promised>>
  PROVE  IInv'
<1> DEFINE new == After(written, m, s)  least == Lesser(min, m)
           listed == {c \in dirty \union Touched(written, m) : c < Chunks(s)}
           rep == [truncate |-> Cut(least), chunks |-> listed,
                   data |-> [p \in Page |-> IF ChunkOf(p) \in listed THEN new.data[p] ELSE 0],
                   meta |-> new]
<1>1. /\ TypeOK /\ QueueInv /\ pending \in Batch /\ Base \in Contents /\ Total \in Contents
      /\ commits \in Nat /\ stored.meta.n \in Nat /\ reported \in Nat /\ wanted \in Nat
      /\ Base.meta.n \in Nat
  BY Types DEF IInv, TypeOK
<1>2. new \in File /\ Shaped(new) /\ new.n = commits + 1 /\ new.size = s /\ new # NoFile /\ file' = new
  BY <1>1, AfterFile
<1>3. new.data \in Data
  BY <1>2 DEF File, Data
<1>4. /\ pending' = Report(new, least, listed)
      /\ size' = s /\ scheduled' = TRUE /\ dirty' = {} /\ min' = s /\ told' = s
      /\ reported' = commits + 1
  BY <1>2 DEF Reported
<1>5. Report(new, least, listed) = Merge(pending, rep)
  BY DEF Report, Cut
<1>6. /\ rep.truncate = Cut(least) /\ rep.chunks = listed /\ rep.meta = new
      /\ \A p \in Page : rep.data[p] = IF ChunkOf(p) \in listed THEN new.data[p] ELSE 0
  OBVIOUS
<1>7. rep \in Batch
  <2>1. Cut(least) \in 0 .. Infinity
    <3>1. least \in Size
      BY <1>1 DEF TypeOK, Lesser
    <3>2. Chunks(least) \in Nat /\ Chunks(least) <= N /\ N < Infinity /\ Infinity \in Nat /\ N \in Nat
      BY <3>1, Ranges, NAssumption
    <3> HIDE DEF least
    <3> QED
      BY <3>2 DEF Cut
  <2>2. listed \in SUBSET Chunk
    BY <1>1, TouchedChunks DEF TypeOK
  <2>3. [p \in Page |-> IF ChunkOf(p) \in listed THEN new.data[p] ELSE 0] \in Data
    <3> HIDE DEF new, listed
    <3> QED
      BY <1>3 DEF Data
  <2> HIDE DEF new, listed, least
  <2> QED
    BY <1>2, <2>1, <2>2, <2>3 DEF Batch, Data
<1> HIDE DEF new, listed, least, rep
<1>8. pending' = Merge(pending, rep)
  BY <1>4, <1>5
<1>9. /\ Then(Base, pending') = Then(Total, rep) /\ pending' # EmptyBatch
      /\ pending'.meta = new /\ rep # EmptyBatch
  <2>1. rep.meta # NoFile /\ rep # EmptyBatch
    BY <1>2, <1>6, Empties
  <2>2. Then(Base, Merge(pending, rep)) = Then(Then(Base, pending), rep) /\ Merge(pending, rep) # EmptyBatch
    BY <1>1, <1>7, <2>1, ThenMerge
  <2>3. Merge(pending, rep).meta = new
    BY <1>1, <1>6, <1>7, <2>1, MergeFields
  <2> QED
    BY <1>8, <2>1, <2>2, <2>3 DEF Total
<1>10. Base' = Base /\ Total' = Then(Total, rep)
  BY <1>9 DEF Base, Total, Then
<1>11. Total'.meta = new /\ Total'.data = new.data
  <2>1. Over(Total.data, rep) = new.data
    BY <1>6, ReportIsTheFile DEF new, listed, least
  <2> QED
    BY <1>1, <1>6, <1>7, <1>9, <1>10, <2>1, ThenFields
<1>12. ~closed /\ ~Drained /\ ~Drained'
  BY <1>1, StoredIsLive DEF Drained
<1>13. QueueInv'
  BY <1>1, <1>2, <1>4, <1>9 DEF QueueInv, HasPending
<1>14. StoreInv' /\ Shaped(file)'
  BY <1>2, <1>10, <1>11 DEF IInv, StoreInv, Exact, Shaped
<1>15. LinkInv'
  <2>1. size' = Total'.meta.size /\ min' <= file'.size
    BY <1>2, <1>4, <1>11, Ranges
  <2>2. ASSUME NEW p \in Page PROVE ~(ChunkOf(p) >= Cut(min)')
    BY <1>4, Ranges DEF Cut
  <2>3. \A p \in Page : file'.data[p] = Total'.data[p]
    BY <1>2, <1>11
  <2> QED
    BY <2>1, <2>2, <2>3 DEF LinkInv
<1>16. OrderInv'
  <2>1. stored.meta.n <= commits /\ reported <= commits /\ stored.meta.n <= Base.meta.n
        /\ Base.meta.n <= Total.meta.n /\ Total.meta.n = reported
    BY <1>12 DEF IInv, OrderInv
  <2> QED
    BY <1>1, <1>2, <1>4, <1>10, <1>11, <2>1 DEF OrderInv
<1>17. FlushInv'
  <2>1. reported <= commits
    BY DEF IInv, OrderInv
  <2> QED
    BY <1>1, <1>4, <2>1 DEF IInv, FlushInv
<1>18. FlushedMeansStored' /\ QuietMeansStored'
  BY <1>4 DEF IInv, FlushedMeansStored, QuietMeansStored
<1> QED
  BY <1>13, <1>14, <1>15, <1>16, <1>17, <1>18 DEF IInv

LEMMA CommitStep ==
  ASSUME IInv, TypeOK', Grow \/ Shrink
  PROVE  IInv'
<1>1. PICK written \in SUBSET Page, m \in Size, s \in Size :
        m <= file.size /\ m <= s /\ Commit(written, m, s)
  BY Commits DEF IInv
<1>2. /\ db # "none" /\ file' = After(written, m, s) /\ commits' = commits + 1
      /\ UNCHANGED <<db, writing, running, failed, closed, flushing, stored, wanted, promised>>
  BY <1>1 DEF Commit
<1>3. /\ TypeOK /\ After(written, m, s) \in File /\ Shaped(After(written, m, s))
      /\ After(written, m, s).n = commits + 1 /\ After(written, m, s).size = s
  BY <1>1, AfterFile DEF IInv
<1>4. commits \in Nat /\ stored.meta.n \in Nat /\ reported \in Nat
  BY <1>3, Types DEF TypeOK
<1>5. CASE /\ db = "stored"
           /\ Reported(file', dirty \union Touched(written, m), Lesser(min, m))
  BY <1>1, <1>2, <1>5, ReportedStep
<1>6. ASSUME UNCHANGED <<pending, size, scheduled, reported>>, LinkInv'
      PROVE  IInv'
  <2>1. Base' = Base /\ Total' = Total
    BY <1>2, <1>6, SameBatches
  <2>2. Drained' <=> Drained
    BY <1>2, <1>6 DEF Drained
  <2>3. StoreInv' /\ Shaped(file)'
    BY <1>2, <1>3, <1>6, <2>1, <2>2 DEF IInv, StoreInv, Exact, Shaped
  <2>4. OrderInv'
    <3>1. stored.meta.n <= commits /\ reported <= commits
      BY DEF IInv, OrderInv
    <3>2. file'.n = commits + 1
      BY <1>2, <1>3
    <3> QED
      BY <1>2, <1>4, <1>6, <2>1, <2>2, <3>1, <3>2 DEF IInv, OrderInv
  <2>5. QueueInv' /\ FlushInv' /\ FlushedMeansStored' /\ QuietMeansStored'
    BY <1>2, <1>6 DEF IInv, QueueInv, HasPending, FlushInv, FlushedMeansStored, QuietMeansStored
  <2> QED
    BY <1>6, <2>3, <2>4, <2>5 DEF IInv
<1>7. CASE /\ db = "stored"
           /\ NotReported(dirty \union Touched(written, m), Lesser(min, m))
  <2>1. /\ dirty' = dirty \union Touched(written, m) /\ min' = Lesser(min, m)
        /\ UNCHANGED <<pending, size, scheduled, reported>>
    BY <1>7 DEF NotReported
  <2>2. Base' = Base /\ Total' = Total
    BY <1>2, <2>1, SameBatches
  <2>3. min' <= file'.size
    <3>1. min \in Int /\ m \in Int /\ s \in Int
      BY <1>1, <1>3, Ranges DEF TypeOK
    <3>2. min' \in Int /\ min' <= m
      BY <2>1, <3>1, LesserOfTwo
    <3> QED
      BY <1>1, <1>2, <1>3, <3>1, <3>2
  <2>4. ASSUME NEW p \in Page, ChunkOf(p) \notin dirty'
        PROVE  file'.data[p] = IF ChunkOf(p) >= Cut(Lesser(min, m)) THEN 0 ELSE Total.data[p]
    BY <1>1, <1>2, <1>7, <2>1, <2>4, Untouched
  <2>5. LinkInv'
    BY <1>2, <1>7, <2>1, <2>2, <2>3, <2>4 DEF IInv, LinkInv, Cut
  <2> QED
    BY <1>6, <2>1, <2>5
<1>8. CASE db # "stored"
  <2>1. UNCHANGED <<pending, size, scheduled, reported, db>>
    BY <1>1, <1>8 DEF Commit
  <2>2. LinkInv'
    BY <1>8, <2>1 DEF LinkInv
  <2> QED
    BY <1>6, <2>1, <2>2
<1> QED
  BY <1>1, <1>2, <1>5, <1>7, <1>8 DEF Commit

(***************************************************************************)
(* Leaving, storing and deleting                                           *)
(***************************************************************************)
LEMMA LeaveStep ==
  ASSUME IInv, TypeOK', Detach \/ Close
  PROVE  IInv'
<1>1. PICK to \in {"memory", "none"} : Leave(to)
  BY DEF Detach, Close
<1>2. /\ db = "stored" /\ db' = to /\ closed' = TRUE
      /\ scheduled' = (scheduled \/ HasPending)
      /\ file' = IF to = "none" THEN NoFile ELSE file
      /\ UNCHANGED <<commits, size, pending, writing, running, failed, flushing, stored,
                     reported, wanted, promised>>
  BY <1>1 DEF Leave, ClosePersistence, historyVars
<1>3. Base' = Base /\ Total' = Total
  BY <1>2, SameBatches
<1>4. ~Drained /\ db' # "stored"
  BY <1>1, <1>2, StoredIsLive DEF IInv
<1>5. QueueInv'
  <2>1. HasPending => pending # EmptyBatch
    BY Empties DEF HasPending
  <2> QED
    BY <1>2, <1>4, <2>1 DEF IInv, QueueInv, HasPending
<1>6. StoreInv'
  BY <1>2, <1>3, <1>4 DEF IInv, StoreInv, Exact, Shaped
<1>7. Shaped(file)'
  BY <1>2, Empties DEF IInv, Shaped
<1>8. OrderInv'
  <2>1. file'.n \in {0, file.n}
    BY <1>2, Empties
  <2>2. commits \in Nat
    BY DEF IInv, TypeOK
  <2>3. db' # "none" => file' = file
    BY <1>2
  <2>4. file'.n <= commits
    BY <2>1, <2>2 DEF IInv, OrderInv
  <2> QED
    BY <1>2, <1>3, <1>4, <2>3, <2>4 DEF IInv, OrderInv
<1>9. LinkInv' /\ FlushInv' /\ FlushedMeansStored' /\ QuietMeansStored'
  BY <1>2, <1>4 DEF IInv, LinkInv, FlushInv, FlushedMeansStored, QuietMeansStored
<1> QED
  BY <1>5, <1>6, <1>7, <1>8, <1>9 DEF IInv

(* A step that leaves the queue, and what is stored, alone.                *)
LEMMA AsideStep ==
  ASSUME IInv, TypeOK', UNCHANGED <<queueVars, flushing, stored, historyVars>>,
         db' = "stored" <=> db = "stored", LinkInv', Shaped(file)',
         commits <= commits', file'.n <= commits',
         db' # "none" => stored.meta.n <= file'.n /\ (~Drained => reported <= file'.n)
  PROVE  IInv'
<1>1. UNCHANGED <<size, pending, scheduled, writing, running, failed, closed, reported, wanted,
                  promised>>
  BY DEF queueVars, historyVars
<1>2. Base' = Base /\ Total' = Total
  BY <1>1, SameBatches
<1>3. QueueInv' /\ FlushInv' /\ FlushedMeansStored' /\ QuietMeansStored' /\ StoreInv'
  BY <1>1, <1>2 DEF IInv, QueueInv, HasPending, FlushInv, FlushedMeansStored, QuietMeansStored,
     StoreInv, Exact, Shaped, Drained
<1>4. OrderInv'
  <2>1. stored.meta.n <= commits /\ reported <= commits
    BY DEF IInv, OrderInv
  <2>2. stored.meta.n \in Nat /\ reported \in Nat /\ commits \in Nat /\ commits' \in Nat
    BY Types DEF IInv, TypeOK
  <2>3. stored.meta.n <= commits' /\ reported <= commits'
    BY <2>1, <2>2
  <2> QED
    BY <1>1, <1>2, <2>3 DEF IInv, OrderInv, Drained
<1> QED
  BY <1>3, <1>4 DEF IInv

LEMMA CreateStep ==
  ASSUME IInv, TypeOK', Create \/ Discard
  PROVE  IInv'
<1>1. stored.meta.n \in Nat /\ reported \in Nat /\ commits \in Nat
      /\ stored.meta.n <= commits /\ reported <= commits
  BY Types DEF IInv, TypeOK, OrderInv
<1>2. CASE Create
  <2>1. /\ db = "none" /\ db' = "memory" /\ commits' = commits + 1
        /\ file' = [NoFile EXCEPT !.n = commits + 1]
        /\ UNCHANGED <<queueVars, flushing, stored, historyVars>>
    BY <1>2 DEF Create
  <2>2. file'.n = commits + 1 /\ file'.data = Zeros
    BY <2>1 DEF NoFile
  <2>3. Shaped(file)'
    BY <2>2 DEF Shaped, Zeros
  <2>4. LinkInv'
    BY <2>1 DEF LinkInv
  <2> QED
    BY <1>1, <2>1, <2>2, <2>3, <2>4, AsideStep
<1>3. CASE Discard
  <2>1. /\ db = "memory" /\ db' = "none" /\ file' = NoFile
        /\ UNCHANGED <<commits, queueVars, flushing, stored, historyVars>>
    BY <1>3 DEF Discard
  <2>2. Shaped(file)' /\ file'.n = 0
    BY <2>1, Empties DEF Shaped
  <2>3. LinkInv'
    BY <2>1 DEF LinkInv
  <2> QED
    BY <1>1, <2>1, <2>2, <2>3, AsideStep
<1> QED
  BY <1>2, <1>3

LEMMA NameStep ==
  ASSUME IInv, TypeOK', Store \/ StoreFails \/ Delete
  PROVE  IInv'
<1>1. UNCHANGED <<overlayVars, queueVars, flushing, stored, historyVars>>
  BY DEF Store, StoreFails, Delete
<1>2. UNCHANGED <<db, file, dirty, min, commits, size, pending, running>>
  BY <1>1 DEF overlayVars, queueVars
<1>3. Base' = Base /\ Total' = Total
  BY <1>1, <1>2, SameBatches
<1>4. LinkInv' /\ Shaped(file)'
  BY <1>2, <1>3 DEF IInv, LinkInv, Cut, Shaped
<1>5. /\ commits \in Nat /\ file.n <= commits
      /\ db # "none" => stored.meta.n <= file.n /\ (~Drained => reported <= file.n)
  BY DEF IInv, TypeOK, OrderInv
<1> QED
  BY <1>1, <1>2, <1>4, <1>5, AsideStep

LEMMA Loads ==
  ASSUME NEW s \in Contents, Exact(s)
  PROVE  Loaded(s) = s.meta
<1>1. s.meta \in File /\ s.data = s.meta.data /\ Shaped(s.meta)
  BY DEF Contents, Exact
<1> DEFINE f == s.meta
<1> HIDE DEF f
<1>2. /\ f.data = [p \in Page |-> f.data[p]] /\ f = [n |-> f.n, size |-> f.size, data |-> f.data]
      /\ f.size \in Nat
  BY <1>1, Ranges DEF File, f
<1>3. \A p \in Page : ~(p < f.size) => f.data[p] = 0
  BY <1>1, <1>2, Ranges DEF Shaped, f
<1>4. [p \in Page |-> IF p < f.size THEN f.data[p] ELSE 0] = f.data
  BY <1>2, <1>3
<1> QED
  BY <1>1, <1>2, <1>4 DEF Loaded, f

LEMMA SyncedStep ==
  ASSUME IInv, TypeOK', Synced
  PROVE  IInv'
<1>1. /\ Drained /\ db' = "stored" /\ file' = Loaded(stored)
      /\ dirty' = {} /\ min' = file'.size
      /\ writing' = FALSE /\ running' = EmptyBatch /\ failed' = FALSE /\ closed' = FALSE
      /\ pending' = EmptyBatch /\ scheduled' = FALSE
      /\ size' = IF stored.meta = NoFile THEN Infinity ELSE stored.meta.size
      /\ reported' = stored.meta.n
      /\ UNCHANGED <<commits, flushing, stored, wanted, promised>>
  BY DEF Synced, CanOpen, NewPersistence
<1>2. Exact(stored) /\ stored \in Contents /\ stored.meta.n \in Nat
  BY Types DEF IInv, StoreInv
<1>3. file' = stored.meta /\ Shaped(stored.meta)
  BY <1>1, <1>2, Loads DEF Exact
<1>4. Base' = stored /\ Total' = stored
  BY <1>1 DEF Base, Total, Then
<1>5. QueueInv'
  BY <1>1 DEF QueueInv
<1>6. StoreInv' /\ Shaped(file)'
  BY <1>1, <1>2, <1>3, <1>4 DEF StoreInv, Exact, Shaped
<1>7. LinkInv'
  <2>1. size' = Total'.meta.size \/ (size' = Infinity /\ Total'.meta = NoFile)
    BY <1>1, <1>4
  <2>2. min' \in Nat /\ min' <= file'.size
    BY <1>1, Ranges DEF TypeOK
  <2>3. ASSUME NEW p \in Page
        PROVE  file'.data[p] = IF ChunkOf(p) >= Cut(min)' THEN 0 ELSE Total'.data[p]
    <3>1. file'.data[p] = stored.data[p]
      BY <1>2, <1>3 DEF Exact
    <3>2. CASE stored.meta = NoFile
      <4>1. stored.data[p] = 0
        BY <1>2, <3>2, Empties DEF Exact, Zeros
      <4> QED
        BY <1>4, <3>1, <4>1
    <3>3. CASE stored.meta # NoFile
      <4>1. size' = min'
        BY <1>1, <1>3, <3>3
      <4>2. ~(ChunkOf(p) >= Cut(min)')
        BY <2>2, <4>1, Ranges DEF Cut
      <4> QED
        BY <1>4, <3>1, <4>2
    <3> QED
      BY <3>2, <3>3
  <2> QED
    BY <2>1, <2>2, <2>3 DEF LinkInv
<1>8. OrderInv'
  BY <1>1, <1>2, <1>3, <1>4 DEF IInv, OrderInv
<1>9. FlushInv'
  BY <1>1 DEF IInv, FlushInv, Drained
<1>10. FlushedMeansStored' /\ QuietMeansStored'
  BY <1>1 DEF IInv, FlushedMeansStored, QuietMeansStored
<1> QED
  BY <1>5, <1>6, <1>7, <1>8, <1>9, <1>10 DEF IInv

LEMMA AttachedStep ==
  ASSUME IInv, TypeOK', Attached
  PROVE  IInv'
<1> DEFINE whole == [truncate |-> 0, chunks |-> {c \in Chunk : c < Chunks(file.size)},
                     data |-> file.data, meta |-> file]
<1>1. /\ db = "memory" /\ Drained /\ db' = "stored"
      /\ writing' = FALSE /\ running' = EmptyBatch /\ failed' = FALSE /\ closed' = FALSE
      /\ scheduled' = TRUE /\ pending' = whole
      /\ size' = file.size /\ dirty' = {} /\ min' = file.size /\ reported' = file.n
      /\ UNCHANGED <<file, commits, flushing, stored, wanted, promised>>
  BY DEF Attached, CanOpen, NewPersistence
<1>2. /\ whole.truncate = 0 /\ whole.chunks = {c \in Chunk : c < Chunks(file.size)}
      /\ whole.data = file.data /\ whole.meta = file
  OBVIOUS
<1> HIDE DEF whole
<1>3. /\ stored \in Contents /\ Shaped(file) /\ file \in File /\ file.size \in Size
      /\ file.data \in Data /\ stored.meta.n \in Nat /\ file.n \in Nat
  BY Types DEF IInv, TypeOK
<1>4. whole # EmptyBatch
  BY <1>2, Ranges DEF EmptyBatch
<1>5. Base' = stored /\ Total' = Stored(stored, whole)
  BY <1>1, <1>4 DEF Base, Total, Then
<1>6. Total'.meta = file /\ Total'.data = Over(stored.data, whole)
  BY <1>2, <1>5 DEF Stored
<1>7. Over(stored.data, whole) = file.data
  <2>1. ASSUME NEW p \in Page PROVE Over(stored.data, whole)[p] = file.data[p]
    <3>1. ChunkOf(p) \in Chunk /\ ChunkOf(p) \in Nat /\ p \in Nat /\ file.size \in Nat
          /\ Chunks(file.size) \in Nat
      BY <1>3, Ranges
    <3>2. CASE ChunkOf(p) < Chunks(file.size)
      BY <1>2, <3>1, <3>2, OverPages
    <3>3. CASE ~(ChunkOf(p) < Chunks(file.size))
      <4>1. ~(p < file.size)
        BY <3>1, <3>3, ChunksOfSize
      <4>2. file.data[p] = 0
        BY <1>3, <3>1, <4>1 DEF Shaped
      <4>3. ChunkOf(p) \notin whole.chunks /\ ChunkOf(p) >= whole.truncate
        BY <1>2, <3>1, <3>3
      <4> QED
        BY <4>2, <4>3, OverPages
    <3> QED
      BY <3>2, <3>3
  <2>2. Over(stored.data, whole) = [p \in Page |-> Over(stored.data, whole)[p]]
    BY DEF Over
  <2>3. file.data = [p \in Page |-> file.data[p]]
    BY <1>3 DEF Data
  <2> QED
    BY <2>1, <2>2, <2>3
<1>8. QueueInv'
  BY <1>1, <1>4 DEF QueueInv
<1>9. StoreInv' /\ Shaped(file)'
  BY <1>1, <1>3, <1>5, <1>6, <1>7 DEF IInv, StoreInv, Exact, Shaped
<1>10. LinkInv'
  <2>1. size' = Total'.meta.size /\ min' \in Nat /\ min' <= file'.size /\ min' = size'
    BY <1>1, <1>3, <1>6, Ranges
  <2>2. ASSUME NEW p \in Page PROVE ~(ChunkOf(p) >= Cut(min)')
    BY <2>1, Ranges DEF Cut
  <2>3. \A p \in Page : file'.data[p] = Total'.data[p]
    BY <1>1, <1>6, <1>7
  <2> QED
    BY <2>1, <2>2, <2>3 DEF LinkInv
<1>11. OrderInv'
  <2>1. stored.meta.n <= commits /\ file.n <= commits /\ stored.meta.n <= file.n
    BY <1>1 DEF IInv, OrderInv
  <2> QED
    BY <1>1, <1>3, <1>5, <1>6, <2>1 DEF OrderInv
<1>12. FlushInv'
  BY <1>1 DEF IInv, FlushInv, Drained
<1>13. FlushedMeansStored' /\ QuietMeansStored'
  BY <1>1 DEF IInv, FlushedMeansStored, QuietMeansStored
<1> QED
  BY <1>8, <1>9, <1>10, <1>11, <1>12, <1>13 DEF IInv

LEMMA DeletedStep ==
  ASSUME IInv, TypeOK', Deleted
  PROVE  IInv'
<1>1. /\ Drained /\ stored' = NothingStored /\ promised' = 0 /\ reported' = 0
      /\ UNCHANGED <<overlayVars, queueVars, flushing, wanted>>
  BY DEF Deleted
<1>2. /\ closed /\ ~scheduled /\ ~writing
      /\ UNCHANGED <<db, file, commits, pending, scheduled, writing, running, failed, closed>>
  BY <1>1 DEF Drained, overlayVars, queueVars
<1>3. QueueInv' /\ db' # "stored"
  BY <1>2 DEF IInv, QueueInv, HasPending
<1>4. Base' = stored' /\ Drained'
  BY <1>2 DEF IInv, QueueInv, Base, Then, Drained
<1>5. Exact(stored)' /\ stored'.meta.n = 0
  BY <1>1, Empties DEF Exact, Shaped
<1>6. StoreInv' /\ Shaped(file)'
  BY <1>2, <1>4, <1>5 DEF IInv, StoreInv, Shaped, Exact
<1>7. OrderInv'
  <2>1. commits \in Nat /\ file.n \in Nat /\ file.n <= commits
    BY Types DEF IInv, TypeOK, OrderInv
  <2> QED
    BY <1>1, <1>2, <1>4, <1>5, <2>1 DEF OrderInv
<1>8. LinkInv' /\ FlushInv' /\ FlushedMeansStored' /\ QuietMeansStored'
  BY <1>1, <1>2, <1>3, <1>5 DEF IInv, LinkInv, FlushInv, FlushedMeansStored, QuietMeansStored
<1> QED
  BY <1>3, <1>6, <1>7, <1>8 DEF IInv

LEMMA CrashStep ==
  ASSUME IInv, TypeOK', Crash
  PROVE  IInv'
<1>1. /\ stored' \in {stored} \union (IF writing THEN {Stored(stored, running)} ELSE {})
      /\ db' = "none" /\ file' = NoFile /\ pending' = EmptyBatch /\ scheduled' = FALSE
      /\ writing' = FALSE /\ running' = EmptyBatch /\ closed' = TRUE /\ flushing' = "none"
      /\ reported' = stored'.meta.n /\ UNCHANGED <<commits, wanted, promised>>
  BY DEF Crash
<1>2. stored' = stored \/ (stored' = Base /\ ~Drained)
  BY <1>1, QuietBase DEF IInv, Drained
<1>3. Base' = stored' /\ Drained' /\ db' # "stored"
  BY <1>1 DEF Base, Then, Drained
<1>4. QueueInv'
  BY <1>1 DEF QueueInv
<1>5. StoreInv' /\ Shaped(file)'
  BY <1>1, <1>2, <1>3, Empties DEF IInv, StoreInv, Exact, Shaped
<1>6. promised <= stored'.meta.n /\ stored'.meta.n <= commits /\ stored'.meta.n \in Nat
  <2>1. /\ stored.meta.n \in Nat /\ Base.meta.n \in Nat /\ Total.meta.n \in Nat
        /\ reported \in Nat /\ commits \in Nat /\ promised \in Nat
    BY Types DEF IInv, TypeOK
  <2>2. /\ promised <= stored.meta.n /\ stored.meta.n <= Base.meta.n /\ stored.meta.n <= commits
        /\ reported <= commits
        /\ ~Drained => Base.meta.n <= Total.meta.n /\ Total.meta.n = reported
    BY DEF IInv, FlushedMeansStored, OrderInv
  <2> QED
    BY <1>2, <2>1, <2>2
<1>7. OrderInv'
  <2>1. commits \in Nat /\ file'.n = 0
    BY <1>1, Empties DEF IInv, TypeOK
  <2> QED
    BY <1>1, <1>3, <1>6, <2>1 DEF OrderInv
<1>8. LinkInv' /\ FlushInv' /\ FlushedMeansStored' /\ QuietMeansStored'
  BY <1>1, <1>3, <1>6 DEF LinkInv, FlushInv, FlushedMeansStored, QuietMeansStored
<1> QED
  BY <1>4, <1>5, <1>7, <1>8 DEF IInv

(***************************************************************************)
(* Types                                                                   *)
(***************************************************************************)
LEMMA ReportType ==
  ASSUME TypeOK, NEW new \in File, NEW least \in Size, NEW listed \in SUBSET Chunk
  PROVE  Report(new, least, listed) \in Batch
<1> DEFINE rep == [truncate |-> IF least < size THEN Chunks(least) ELSE Infinity,
                   chunks |-> listed,
                   data |-> [p \in Page |-> IF ChunkOf(p) \in listed THEN new.data[p] ELSE 0],
                   meta |-> new]
<1>1. (IF least < size THEN Chunks(least) ELSE Infinity) \in 0 .. Infinity
  BY Ranges, NAssumption
<1>2. [p \in Page |-> IF ChunkOf(p) \in listed THEN new.data[p] ELSE 0] \in Data
  BY DEF Data, File
<1>3. rep \in Batch
  BY <1>1, <1>2 DEF Batch, Data
<1> HIDE DEF rep
<1>4. pending \in Batch
  BY DEF TypeOK
<1>5. Merge(pending, rep) \in Batch
  BY <1>3, <1>4, MergeFields
<1> QED
  BY <1>5 DEF Report, rep

LEMMA CommitType ==
  ASSUME TypeOK, Grow \/ Shrink
  PROVE  TypeOK'
<1>1. PICK written \in SUBSET Page, m \in Size, s \in Size :
        m <= file.size /\ m <= s /\ Commit(written, m, s)
  BY Commits
<1> DEFINE new == After(written, m, s)  changed == dirty \union Touched(written, m)
           least == Lesser(min, m)
<1>2. /\ file' = new /\ commits' = commits + 1
      /\ UNCHANGED <<db, writing, running, failed, closed, store, deleting, flushing, stored,
                     crashes, wanted, promised>>
  BY <1>1 DEF Commit
<1>3. new \in File /\ new.n = commits + 1 /\ new.size = s
  BY <1>1, AfterFile
<1>4. changed \in SUBSET Chunk /\ least \in Size
  BY TouchedChunks DEF TypeOK, Lesser
<1>5. commits + 1 \in Nat
  BY DEF TypeOK
<1> HIDE DEF new, changed, least
<1>6. /\ pending' \in Batch /\ size' \in Size \union {Infinity} /\ scheduled' \in BOOLEAN
      /\ dirty' \in SUBSET Chunk /\ min' \in Size /\ told' \in Size /\ reported' \in Nat
  <2>1. CASE Reported(new, changed, least)
    <3>1. Report(new, least, {c \in changed : c < Chunks(new.size)}) \in Batch
      BY <1>3, <1>4, ReportType
    <3> QED
      BY <1>3, <1>5, <2>1, <3>1 DEF Reported
  <2>2. CASE NotReported(changed, least)
    BY <1>4, <2>2 DEF NotReported, TypeOK
  <2>3. CASE UNCHANGED <<pending, size, scheduled, dirty, min, told, reported>>
    BY <2>3 DEF TypeOK
  <2> QED
    BY <1>1, <1>2, <2>1, <2>2, <2>3 DEF Commit, new, changed, least
<1> QED
  BY <1>2, <1>3, <1>5, <1>6 DEF TypeOK

LEMMA QueueTypes ==
  ASSUME TypeOK, Rollback \/ StartWrite \/ Written \/ WriteFails \/ Flush
  PROVE  TypeOK'
<1> USE DEF overlayVars, queueVars, historyVars
<1>1. CASE Rollback
  <2>1. PICK written \in SUBSET Page, m \in Size : RolledBack(written, m)
    BY <1>1 DEF Rollback
  <2>2. dirty \union Touched(written, m) \in SUBSET Chunk /\ Lesser(min, m) \in Size
    BY TouchedChunks DEF TypeOK, Lesser
  <2> QED
    BY <2>1, <2>2 DEF RolledBack, TypeOK
<1>2. CASE StartWrite
  BY <1>2, Empties DEF StartWrite, TypeOK
<1>3. CASE Written
  <2>1. Stored(stored, running) \in Contents
    <3>1. stored.data \in Data /\ running.data \in Data /\ running.meta \in File
      BY Types, BatchFields DEF Contents
    <3>2. Over(stored.data, running) \in Data
      BY <3>1, OverType
    <3> QED
      BY <3>1, <3>2 DEF Stored, Contents
  <2>2. running' = EmptyBatch /\ writing' = FALSE /\ failed' = FALSE
        /\ stored' = Stored(stored, running)
        /\ flushing' \in {"none", flushing} /\ promised' \in {wanted, promised}
        /\ UNCHANGED <<overlayVars, size, pending, scheduled, closed, store, deleting, crashes,
                       reported, wanted>>
    BY <1>3 DEF Written, Ended
  <2> QED
    BY <2>1, <2>2, Empties DEF TypeOK, Contents, Data
<1>4. CASE WriteFails
  <2>1. Merge(running, pending) \in Batch
    BY MergeFields DEF TypeOK
  <2>2. running' = EmptyBatch /\ writing' = FALSE /\ failed' = TRUE
        /\ pending' = Merge(running, pending) /\ flushing' \in {"none", flushing}
        /\ UNCHANGED <<overlayVars, size, scheduled, closed, store, deleting, stored, crashes,
                       historyVars>>
    BY <1>4 DEF WriteFails, Ended
  <2> QED
    BY <2>1, <2>2, Empties DEF TypeOK
<1>5. CASE Flush
  <2>1. /\ scheduled' \in BOOLEAN /\ wanted' = reported
        /\ flushing' \in {"none", "queued", "started"} /\ promised' \in {reported, promised}
        /\ UNCHANGED <<overlayVars, size, pending, writing, running, failed, closed, store,
                       deleting, stored, crashes, reported>>
    BY <1>5 DEF Flush, TypeOK
  <2> QED
    BY <2>1 DEF TypeOK
<1> QED
  BY <1>1, <1>2, <1>3, <1>4, <1>5

LEMMA NameTypes ==
  ASSUME TypeOK, \/ Detach \/ Close \/ Create \/ Discard \/ Store \/ Synced \/ Attached
                 \/ StoreFails \/ Delete \/ Deleted \/ Crash
  PROVE  TypeOK'
<1> USE DEF overlayVars, queueVars, historyVars
<1>1. 0 \in Size
  BY Ranges DEF Size
<1>2. CASE Detach \/ Close
  <2>1. PICK to \in {"memory", "none"} : Leave(to)
    BY <1>2 DEF Detach, Close
  <2>2. file' \in File /\ file'.size \in Size /\ scheduled' \in BOOLEAN
    <3>1. file' \in {NoFile, file} /\ scheduled' = (scheduled \/ HasPending)
      BY <2>1 DEF Leave, ClosePersistence
    <3>2. file' \in File
      BY <3>1, Empties DEF TypeOK
    <3> QED
      BY <3>1, <3>2 DEF File
  <2> QED
    BY <2>1, <2>2 DEF Leave, ClosePersistence, TypeOK
<1>3. CASE Create
  <2>1. commits + 1 \in Nat /\ [NoFile EXCEPT !.n = commits + 1] \in File
    BY Empties DEF TypeOK, File
  <2> QED
    BY <1>1, <1>3, <2>1 DEF Create, TypeOK
<1>4. CASE Discard
  BY <1>1, <1>4, Empties DEF Discard, TypeOK
<1>5. CASE Store \/ StoreFails \/ Delete
  BY <1>5 DEF Store, StoreFails, Delete, TypeOK
<1>6. CASE Synced
  <2>1. stored.meta \in File /\ stored.data \in Data
    BY Types DEF Contents
  <2>2. Loaded(stored) \in File
    BY <2>1 DEF Loaded, File, Data
  <2>3. file' \in File /\ file'.size \in Size /\ stored.meta.n \in Nat /\ stored.meta.size \in Size
    BY <1>6, <2>1, <2>2 DEF Synced, File
  <2> QED
    BY <1>6, <2>3, Empties DEF Synced, NewPersistence, TypeOK
<1>7. CASE Attached
  <2> DEFINE whole == [truncate |-> 0, chunks |-> {c \in Chunk : c < Chunks(file.size)},
                       data |-> file.data, meta |-> file]
  <2>1. file \in File /\ file.size \in Size /\ file.n \in Nat /\ file.data \in Data
    BY Types DEF TypeOK
  <2>2. whole \in Batch
    BY <2>1, Ranges DEF Batch, Data
  <2>3. pending' = whole
    BY <1>7 DEF Attached
  <2> HIDE DEF whole
  <2> QED
    BY <1>7, <2>1, <2>2, <2>3, Empties DEF Attached, NewPersistence, TypeOK
<1>8. CASE Deleted
  BY <1>8, Empties DEF Deleted, TypeOK, Contents, Data
<1>9. CASE Crash
  <2>1. Stored(stored, running) \in Contents
    <3>1. stored.data \in Data /\ running.data \in Data /\ running.meta \in File
      BY Types, BatchFields DEF Contents
    <3>2. Over(stored.data, running) \in Data
      BY <3>1, OverType
    <3> QED
      BY <3>1, <3>2 DEF Stored, Contents
  <2>2. stored' \in Contents /\ stored'.meta.n \in Nat
    <3>1. stored' = stored \/ stored' = Stored(stored, running)
      BY <1>9 DEF Crash
    <3>2. stored' \in Contents
      BY <2>1, <3>1, Types
    <3> QED
      BY <3>2 DEF Contents, File
  <2>3. crashes + 1 \in Nat
    BY DEF TypeOK
  <2> QED
    BY <1>1, <1>9, <2>2, <2>3, Empties DEF Crash, TypeOK, Contents, Data
<1> QED
  BY <1>2, <1>3, <1>4, <1>5, <1>6, <1>7, <1>8, <1>9

(***************************************************************************)
(* The theorems                                                            *)
(***************************************************************************)
LEMMA InitIInv == Init => IInv
<1> SUFFICES ASSUME Init PROVE IInv
  OBVIOUS
<1> USE DEF Init
<1>1. 0 \in Size
  BY Ranges DEF Size
<1>2. TypeOK
  BY <1>1, Empties DEF TypeOK, Contents, Data
<1>3. Base = stored /\ Total = stored
  BY DEF Base, Total, Then
<1>4. stored.meta.n = 0 /\ Exact(stored)
  BY Empties
<1> QED
  BY <1>2, <1>3, <1>4, Empties
  DEF IInv, QueueInv, StoreInv, LinkInv, OrderInv, FlushInv, FlushedMeansStored,
      QuietMeansStored, Drained

LEMMA IInvKept == IInv /\ [Next]_vars => IInv'
<1> SUFFICES ASSUME IInv, [Next]_vars PROVE IInv'
  OBVIOUS
<1>1. CASE UNCHANGED vars
  <2>1. UNCHANGED <<db, file, dirty, min, told, commits, size, pending, scheduled, writing,
                    running, failed, closed, store, deleting, flushing, stored, crashes,
                    reported, wanted, promised>>
    BY <1>1 DEF vars, overlayVars, queueVars, historyVars
  <2>2. Base' = Base /\ Total' = Total
    BY <2>1, SameBatches
  <2> QED
    BY <2>1, <2>2
    DEF IInv, TypeOK, QueueInv, HasPending, StoreInv, Exact, Shaped, LinkInv, Cut, OrderInv,
        Drained, FlushInv, FlushedMeansStored, QuietMeansStored
<1>2. CASE Grow \/ Shrink
  BY <1>2, CommitType, CommitStep DEF IInv
<1>3. CASE Rollback \/ StartWrite \/ Written \/ WriteFails \/ Flush
  <2>1. TypeOK'
    BY <1>3, QueueTypes DEF IInv
  <2> QED
    BY <1>3, <2>1, RollbackStep, StartWriteStep, WrittenStep, WriteFailsStep, FlushStep
<1>4. CASE \/ Detach \/ Close \/ Create \/ Discard \/ Store \/ Synced \/ Attached
           \/ StoreFails \/ Delete \/ Deleted \/ Crash
  <2>1. TypeOK'
    BY <1>4, NameTypes DEF IInv
  <2> QED
    BY <1>4, <2>1, LeaveStep, CreateStep, NameStep, SyncedStep, AttachedStep, DeletedStep, CrashStep
<1> QED
  BY <1>1, <1>2, <1>3, <1>4 DEF Next

LEMMA IInvHolds == Spec => []IInv
BY InitIInv, IInvKept, PTL DEF Spec

(* Every variable has its type: batches are merged into batches, and what   *)
(* is reported, stored and loaded back is a file (merge, ovReportCommit,    *)
(* writeBatch and loadInto).                                               *)
THEOREM TypeCorrect == Spec => []TypeOK
<1>1. IInv => TypeOK
  BY DEF IInv
<1> QED
  BY <1>1, IInvHolds, PTL

(* What IndexedDB holds is at all times one commit, whole, however large    *)
(* the chunks and the file are, whichever commits the hook could not report *)
(* and the queue merged, cut, retried or gave up (ovReportCommit, merge,   *)
(* writeBatch).                                                            *)
THEOREM AlwaysACommit == Spec => []StoredIsACommit
<1>1. IInv => StoredIsACommit
  BY Types, Loads DEF IInv, StoreInv, StoredIsACommit
<1> QED
  BY <1>1, IInvHolds, PTL

(* The commits that the listener took before a flush() that resolved are    *)
(* stored, in spite of close(), of another database under the name and of  *)
(* a page that dies (IndexedDBPersistence.flush and write).                *)
THEOREM FlushKeepsItsPromise == Spec => []FlushedMeansStored
<1>1. IInv => FlushedMeansStored
  BY DEF IInv
<1> QED
  BY <1>1, IInvHolds, PTL

(* No commit waits for a write that nobody schedules: when none is queued   *)
(* or under way and the last one went well, all are stored (commit, write  *)
(* and close of IndexedDBPersistence).                                     *)
THEOREM NothingIsLeftBehind == Spec => []QuietMeansStored
<1>1. IInv => QuietMeansStored
  BY DEF IInv
<1> QED
  BY <1>1, IInvHolds, PTL

=============================================================================
