-------------------------- MODULE RedoJournalProofs --------------------------
(***************************************************************************)
(* What module RedoJournal promises, for files of any number of chunks,    *)
(* journals of any length and any number of transactions.                  *)
(***************************************************************************)
EXTENDS RedoJournal, OverlayPagesProofs, WellFoundedInduction

-----------------------------------------------------------------------------
(* Types                                                                   *)

Left == [size : SUBSET Size, data : [Chunk -> SUBSET Nat]]
Entry == Record \union {Empty}

LEMMA Largest ==
  ASSUME NEW n \in Nat, NEW S \in SUBSET (0 .. n), S # {}
  PROVE  \E k \in S : \A m \in S : m <= k
<1> DEFINE T == {n - k : k \in S}
           R == OpToRel(<, Nat)
<1>1. \A k \in S : k \in 0 .. n /\ n - k \in T
  OBVIOUS
<1>2. IsWellFoundedOn(R, Nat)
  BY NatLessThanWellFounded
<1>3. \A x, y \in Nat : <<y, x>> \in R <=> y < x
  BY DEF OpToRel
<1>4. T \subseteq Nat
  BY <1>1
<1>5. T # {}
  BY <1>1
<1>6. PICK x \in T : \A y \in T : ~ (<<y, x>> \in R)
  <2> HIDE DEF T, R
  <2> QED
    BY <1>2, <1>4, <1>5, WFMin, Zenon
<1>7. PICK k \in S : x = n - k
  BY <1>6
<1>8. ASSUME NEW m \in S
      PROVE  m <= k
  <2>1. ~ (n - m < n - k)
    BY <1>1, <1>3, <1>4, <1>6, <1>7
  <2> QED
    BY <1>1, <2>1
<1> QED
  BY <1>8

(* The length of the base file once a record is written to it.             *)
LEMMA ExtendedIsLargest ==
  ASSUME base \in File, NEW r \in Record
  PROVE  /\ Extended(r) \in Size /\ base.size <= Extended(r)
         /\ \A i \in Held(r.page) : i + 1 <= Extended(r)
         /\ Extended(r) = base.size \/ \E i \in Held(r.page) : Extended(r) = i + 1
<1> DEFINE ends == {base.size} \union {i + 1 : i \in Held(r.page)}
<1>1. base.size \in 0 .. N /\ \A i \in Held(r.page) : i + 1 \in 0 .. N
  BY NAssumption DEF File, Size, Held, Chunk
<1>2. ends \in SUBSET (0 .. N) /\ ends # {}
  BY <1>1
<1>3. \E n \in ends : \A m \in ends : m <= n
  <2> HIDE DEF ends
  <2> QED
    BY <1>2, Largest, NAssumption
<1>4. Extended(r) \in ends /\ \A m \in ends : m <= Extended(r)
  BY <1>3 DEF Extended
<1> QED
  BY <1>1, <1>4 DEF Size

LEMMA WriteBaseType ==
  ASSUME base \in File, baseLeft \in Left, NEW i \in Chunk, NEW v \in Nat, WriteBase(i, v)
  PROVE  base' \in File /\ baseLeft' \in Left
<1>1. base'.size \in Size
  BY NAssumption DEF WriteBase, File, Size, Chunk
<1>2. base' \in File
  BY <1>1 DEF WriteBase, File
<1>3. Torn \in Nat
  BY BoundsAssumption
<1>4. [baseLeft.data EXCEPT ![i] = @ \union {v, Torn}] \in [Chunk -> SUBSET Nat]
  BY <1>3 DEF Left
<1>5. baseLeft.size \union {base'.size} \in SUBSET Size
  BY <1>1 DEF Left
<1>6. baseLeft' = [size |-> baseLeft.size \union {base'.size},
                   data |-> [baseLeft.data EXCEPT ![i] = @ \union {v, Torn}]]
  BY DEF WriteBase
<1> QED
  BY <1>2, <1>4, <1>5, <1>6 DEF Left

LEMMA CutBaseType ==
  ASSUME base \in File, baseLeft \in Left, NEW n \in Size, CutBase(n)
  PROVE  base' \in File /\ baseLeft' \in Left
<1>1. base' \in File
  BY CutType DEF CutBase, File
<1>2. baseLeft.size \union {n} \in SUBSET Size
  BY DEF Left
<1>3. [i \in Chunk |-> IF i < n THEN baseLeft.data[i] ELSE baseLeft.data[i] \union {0}]
        \in [Chunk -> SUBSET Nat]
  BY DEF Left
<1> QED
  BY <1>1, <1>2, <1>3 DEF CutBase, Left

LEMMA SyncBaseType ==
  ASSUME base \in File, SyncBase
  PROVE  base' \in File /\ baseLeft' \in Left
BY DEF SyncBase, File, Left

LEMMA WriteJournalType ==
  ASSUME journal \in [Slot -> Entry], journalLeft \in [Slot -> SUBSET Entry],
         NEW k \in Slot, NEW r \in Entry, WriteJournal(k, r)
  PROVE  journal' \in [Slot -> Entry] /\ journalLeft' \in [Slot -> SUBSET Entry]
<1>1. Empty \in Entry
  BY DEF Entry
<1>2. [journalLeft EXCEPT ![k] = @ \union {r, Empty}] \in [Slot -> SUBSET Entry]
  <2> HIDE DEF Entry
  <2> QED
    BY <1>1
<1> QED
  BY <1>2 DEF WriteJournal

LEMMA SyncJournalType ==
  ASSUME journal \in [Slot -> Entry], SyncJournal
  PROVE  journal' \in [Slot -> Entry] /\ journalLeft' \in [Slot -> SUBSET Entry]
BY DEF SyncJournal

LEMMA OpenJournalType ==
  ASSUME journal \in [Slot -> Entry], journalLeft \in [Slot -> SUBSET Entry], OpenJournal
  PROVE  journal' \in [Slot -> Entry] /\ journalLeft' \in [Slot -> SUBSET Entry]
BY SyncJournalType DEF OpenJournal

LEMMA NewRecordType ==
  ASSUME ov \in Overlay, salt \in Salts
  PROVE  NewRecord \in Record
BY DEF NewRecord, Record, Overlay, Page

LEMMA FillHolesFields ==
  ASSUME NEW o \in Overlay
  PROVE  /\ FillHoles(o) \in Overlay
         /\ FillHoles(o).size = o.size /\ FillHoles(o).visible = 0
         /\ FillHoles(o).head = o.head
         /\ \A i \in Chunk : FillHoles(o).page[i]
              = IF i < o.size /\ o.page[i] = NoPage THEN 0 ELSE o.page[i]
<1> DEFINE page == [i \in Chunk |-> IF i < o.size /\ o.page[i] = NoPage
                                  THEN 0 ELSE o.page[i]]
<1>1. page \in [Chunk -> Page]
  BY DEF Overlay, Page
<1>2. FillHoles(o) = [o EXCEPT !.visible = 0, !.page = page]
  BY DEF FillHoles
<1>3. 0 \in Size
  BY NAssumption DEF Size
<1>4. \A i \in Chunk : page[i] = IF i < o.size /\ o.page[i] = NoPage THEN 0 ELSE o.page[i]
  OBVIOUS
<1> HIDE DEF page
<1> QED
  BY <1>1, <1>2, <1>3, <1>4 DEF Overlay

LEMMA ClosedType ==
  ASSUME Closed
  PROVE  /\ mode' = "closed" /\ ov' \in Overlay /\ used' \in 0 .. MaxRecords
         /\ salt' \in Salts \union {0} /\ todo' \subseteq Chunk /\ at' \in 0 .. MaxRecords + 1
         /\ touched' \subseteq Chunk /\ committed' \in File
BY EmptyType, BoundsAssumption DEF Closed

(* A record is written to the base file. *)
LEMMA ReplayRecordType ==
  ASSUME base \in File, baseLeft \in Left, journal \in [Slot -> Entry], ReplayRecord
  PROVE  base' \in File /\ baseLeft' \in Left
<1> DEFINE r    == journal[at]
           size == IF Extended(r) > r.size THEN r.size ELSE Extended(r)
           data == [i \in Chunk |-> IF r.page[i] # NoPage THEN r.page[i] ELSE base.data[i]]
           cut  == Cut(data, size)
           sizes == baseLeft.size \union {size} \union base.size .. Extended(r)
           left == [i \in Chunk |-> baseLeft.data[i] \union {base'.data[i]}
                      \union IF r.page[i] = NoPage THEN {} ELSE {r.page[i], Torn}]
<1>1. r \in Record
  BY DEF ReplayRecord, Follows, Entry
<1>2. Extended(r) \in Size /\ base.size <= Extended(r)
  BY <1>1, ExtendedIsLargest
<1>3. r.page \in [Chunk -> Page] /\ r.size \in Size
  BY <1>1 DEF Record
<1>4. size \in Size
  BY <1>2, <1>3
<1>5. data \in [Chunk -> Nat]
  BY <1>3 DEF Page, File
<1>6. cut \in [Chunk -> Nat]
  <2> HIDE DEF data, size
  <2> QED
    BY <1>4, <1>5, CutType
<1>7. base' = [size |-> size, data |-> cut] /\ baseLeft' = [size |-> sizes, data |-> left]
  BY DEF ReplayRecord
<1>8. base' \in File
  <2> HIDE DEF size, cut
  <2> QED
    BY <1>4, <1>6, <1>7 DEF File
<1>9. sizes \in SUBSET Size
  <2> HIDE DEF size, r
  <2> QED
    BY <1>2, <1>4, NAssumption DEF Left, File, Size
<1>10. left \in [Chunk -> SUBSET Nat]
  <2>1. \A i \in Chunk : baseLeft.data[i] \in SUBSET Nat /\ base'.data[i] \in Nat
    BY <1>8 DEF Left, File
  <2>2. \A i \in Chunk : (IF r.page[i] = NoPage THEN {} ELSE {r.page[i], Torn}) \in SUBSET Nat
    <3> HIDE DEF r
    <3> QED
      BY <1>3, BoundsAssumption DEF Page
  <2> QED
    BY <2>1, <2>2
<1> HIDE DEF sizes, left
<1> QED
  BY <1>7, <1>8, <1>9, <1>10 DEF Left

(* What a crash leaves is one of the files, and one of the journals, that  *)
(* it may leave.                                                           *)
LEMMA CrashType ==
  ASSUME baseLeft \in Left, journalLeft \in [Slot -> SUBSET Entry], Crash
  PROVE  /\ base' \in File /\ baseLeft' \in Left
         /\ journal' \in [Slot -> Entry] /\ journalLeft' \in [Slot -> SUBSET Entry]
<1>1. PICK size \in baseLeft.size, data \in [Chunk -> UNION {baseLeft.data[i] : i \in Chunk}] :
        /\ \A i \in Chunk : data[i] \in baseLeft.data[i]
        /\ base' = [size |-> size, data |-> Cut(data, size)]
  BY DEF Crash
<1>2. size \in Size /\ data \in [Chunk -> Nat]
  BY <1>1 DEF Left
<1>3. base' \in File
  BY <1>1, <1>2, CutType DEF File
<1>4. baseLeft' \in Left
  BY <1>3 DEF Crash, File, Left
<1>5. journal' \in [Slot -> Entry]
  BY DEF Crash
<1>6. journalLeft' \in [Slot -> SUBSET Entry]
  BY <1>5 DEF Crash
<1> QED
  BY <1>3, <1>4, <1>5, <1>6

(* Each chunk is one that it may hold; past the end it reads as zero.      *)
LEMMA CrashFields ==
  ASSUME baseLeft \in Left, Crash
  PROVE  /\ base'.size \in baseLeft.size
         /\ \A i \in Chunk : i < base'.size => base'.data[i] \in baseLeft.data[i]
         /\ \A i \in Chunk : ~ (i < base'.size) => base'.data[i] = 0
<1>1. PICK size \in baseLeft.size, data \in [Chunk -> UNION {baseLeft.data[i] : i \in Chunk}] :
        /\ \A i \in Chunk : data[i] \in baseLeft.data[i]
        /\ base' = [size |-> size, data |-> Cut(data, size)]
  BY DEF Crash
<1>2. base'.size = size
      /\ \A i \in Chunk : base'.data[i] = IF i < size THEN data[i] ELSE 0
  BY <1>1 DEF Cut
<1> QED
  BY <1>1, <1>2

-----------------------------------------------------------------------------
(* Control: which call may be at which step, and on which kind of overlay. *)

Replaying == {"replay", "replaysync", "replayclear"}
Writing   == {"append", "journalsync", "apply", "settle"}
Stepping  == {"checkpoint", "clear"}
InTxn     == step \in {"txn", "cut"}

(* The overlay writes to its base file: also while it attaches to one.     *)
Live == mode = "open" \/ (mode = "memory" /\ step \in Writing \union Stepping \union {"letgo"})

Control ==
  /\ mode \in {"closed", "open", "memory"}
  /\ step \in {"idle", "txn", "cut", "copy", "letgo"}
             \union Writing \union Stepping \union Replaying
  /\ step \in {"idle", "txn", "cut"} <=> caller = "none"
  /\ step \in Writing => caller \in {"commit", "flush", "close", "detach", "attach"}
  /\ step \in Stepping => caller \in {"commit", "flush", "close", "closing", "detach",
                                      "detaching", "attach"}
  /\ step = "copy" => caller = "detach"
  /\ step = "letgo" => caller \in {"closing", "detaching", "attach"}
  /\ step \in Replaying => caller \in {"open", "attach"}
  /\ mode = "closed" => step \in {"idle"} \union Replaying /\ caller # "attach"
  /\ mode = "memory" => step \in {"idle", "txn", "cut"} \/ caller = "attach"
  /\ mode = "open" => caller \notin {"attach", "open"}

MemoryType ==
  /\ ov \in Overlay /\ dirty \subseteq Chunk /\ stored \in Size /\ rc \in {"ok", "error"}
  /\ todo \subseteq Chunk /\ touched \subseteq Chunk
  /\ txn \in 0 .. MaxTxn /\ committed \in File /\ allowed \subseteq File
CountType ==
  used \in 0 .. MaxRecords /\ salt \in Salts \union {0} /\ at \in 0 .. MaxRecords + 1
BaseType    == base \in File /\ baseLeft \in Left
JournalType == journal \in [Slot -> Entry] /\ journalLeft \in [Slot -> SUBSET Entry]

(* What a write-back starts with: a salt, room for its record; then chunks *)
(* to write that are held in memory.                                       *)
Ready ==
  /\ Live => salt \in Salts
  /\ step = "journalsync" => used < MaxRecords
  /\ step = "apply" => \A i \in todo : i \in dirty /\ i < ov.size /\ ov.page[i] # NoPage

Basics == Control /\ MemoryType /\ CountType /\ BaseType /\ JournalType /\ Ready

(* A call goes through its steps in order. *)
LEMMA ControlStep == Control /\ [Next]_vars => Control'
<1> SUFFICES ASSUME Control, [Next]_vars PROVE Control'
  OBVIOUS
<1> USE DEF Control, Replaying, Writing, Stepping
<1>1. CASE NothingToStore
  BY <1>1 DEF NothingToStore, AfterWriteBack
<1>2. CASE PreserveFails
  BY <1>2 DEF PreserveFails, AfterWriteBack
<1>3. CASE AppendFails
  BY <1>3 DEF AppendFails, AfterWriteBack
<1>4. CASE JournalSyncFails
  BY <1>4 DEF JournalSyncFails, AfterWriteBack
<1>5. ASSUME NEW i \in Chunk, NEW v \in {base.data[i], ov.page[i], Torn}, ApplyFails(i, v)
      PROVE  Control'
  BY <1>5 DEF ApplyFails, AfterWriteBack
<1>6. CASE ShrinkFails
  BY <1>6 DEF ShrinkFails, AfterWriteBack
<1>7. CASE SettleFails
  BY <1>7 DEF SettleFails, AfterWriteBack
<1>8. CASE Settle
  BY <1>8 DEF Settle, AfterWriteBack
<1>9. CASE CheckpointSkipped
  BY <1>9 DEF CheckpointSkipped, AfterCheckpoint, AfterWriteBack
<1>10. CASE Clear
  BY <1>10 DEF Clear, AfterCheckpoint, AfterWriteBack
<1>11. CASE ClearFails
  BY <1>11 DEF ClearFails, AfterCheckpoint, AfterWriteBack
<1>12. CASE Begin \/ Commit \/ Rollback \/ Flush \/ Detach
  BY <1>12
  DEF Begin, Commit, Rollback, Flush, Detach, CallWriteBack, Idle
<1>13. CASE Close \/ CloseMemory \/ Open \/ Attach \/ Append
  BY <1>13
  DEF Close, CloseMemory, Open, Attach, Append, CallWriteBack, Closed, Idle
<1>14. CASE JournalSynced \/ Shrink \/ CheckpointSync \/ CopyToMemory \/
            LetGo
  BY <1>14
  DEF JournalSynced, Shrink, CheckpointSync, CopyToMemory, LetGo, Closed,
      Idle
<1>15. CASE ReplayRecord \/ ReplayEnds \/ ReplaySync \/ ReplayClear \/
            OpenFails
  BY <1>15
  DEF ReplayRecord, ReplayEnds, ReplaySync, ReplayClear, OpenFails, Idle
<1>16. CASE Crash
  BY <1>16
  DEF Crash, Closed, Idle
<1>17. ASSUME NEW i \in Chunk, Write(i)
       PROVE  Control'
  BY <1>17
  DEF Write, Idle
<1>18. ASSUME NEW n \in Size \ {0}, Truncate(n)
       PROVE  Control'
  BY <1>18
  DEF Truncate, Idle
<1>19. ASSUME NEW i \in Chunk, Apply(i)
       PROVE  Control'
  BY <1>19
  DEF Apply, Idle
<1>20. ASSUME NEW chunks \in SUBSET Chunk, CopyFails(chunks)
       PROVE  Control'
  BY <1>20
  DEF CopyFails, Idle
<1>21. CASE UNCHANGED vars
  BY <1>21
  DEF vars, Idle
<1> QED
  BY <1>1, <1>2, <1>3, <1>4, <1>5, <1>6, <1>7, <1>8, <1>9, <1>10, <1>11,
     <1>12, <1>13, <1>14, <1>15, <1>16, <1>17, <1>18, <1>19, <1>20, <1>21
  DEF Next, Client, WriteBack, Recovery, Failure

(* The base file. *)
LEMMA BaseTypeStep == Basics /\ [Next]_vars => BaseType'
<1> SUFFICES ASSUME Basics, [Next]_vars PROVE BaseType'
  OBVIOUS
<1>1. CASE Shrink
  BY <1>1, CutBaseType DEF Basics, BaseType, MemoryType, Overlay, Shrink
<1>2. CASE CheckpointSync
  BY <1>2, SyncBaseType DEF Basics, BaseType, CheckpointSync
<1>3. CASE ReplaySync
  BY <1>3, SyncBaseType DEF Basics, BaseType, ReplaySync
<1>4. ASSUME NEW i \in Chunk, Apply(i)
      PROVE  BaseType'
  <2>1. ov.page[i] \in Nat
    BY <1>4 DEF Basics, Ready, MemoryType, Overlay, Page, Apply
  <2> QED
    BY <1>4, <2>1, WriteBaseType DEF Basics, BaseType, Apply
<1>5. ASSUME NEW i \in Chunk, NEW v \in {base.data[i], ov.page[i], Torn}, ApplyFails(i, v)
      PROVE  BaseType'
  <2>1. v \in Nat
    BY <1>5, BoundsAssumption
    DEF Basics, Ready, MemoryType, BaseType, Overlay, Page, File, ApplyFails
  <2> QED
    BY <1>5, <2>1, WriteBaseType DEF Basics, BaseType, ApplyFails
<1>6. CASE ReplayRecord
  BY <1>6, ReplayRecordType DEF Basics, BaseType, JournalType
<1>7. CASE Crash
  BY <1>7, CrashType DEF Basics, BaseType, JournalType
<1>8. CASE Begin \/ Commit \/ Rollback \/ Flush \/ Detach \/ Close \/
           CloseMemory
  BY <1>8
  DEF Begin, Commit, Rollback, Flush, Detach, Close, CloseMemory,
      CallWriteBack, Closed, Basics, BaseType, fileVars
<1>9. CASE Open \/ Attach \/ NothingToStore \/ Append \/ JournalSynced \/
           Settle \/ Clear
  BY <1>9
  DEF Open, Attach, NothingToStore, Append, JournalSynced, Settle, Clear,
      Basics, BaseType, fileVars, CallWriteBack
<1>10. CASE CopyToMemory \/ LetGo \/ CheckpointSkipped \/ ReplayEnds \/
            ReplayClear \/ PreserveFails \/ AppendFails
  BY <1>10
  DEF CopyToMemory, LetGo, CheckpointSkipped, ReplayEnds, ReplayClear,
      PreserveFails, AppendFails, Closed, Basics, BaseType, fileVars,
      CallWriteBack
<1>11. CASE JournalSyncFails \/ ShrinkFails \/ SettleFails \/ ClearFails \/
            OpenFails
  BY <1>11
  DEF JournalSyncFails, ShrinkFails, SettleFails, ClearFails, OpenFails,
      Basics, BaseType, fileVars, CallWriteBack
<1>12. ASSUME NEW i \in Chunk, Write(i)
       PROVE  BaseType'
  BY <1>12
  DEF Write, Basics, BaseType, fileVars, CallWriteBack
<1>13. ASSUME NEW n \in Size \ {0}, Truncate(n)
       PROVE  BaseType'
  BY <1>13
  DEF Truncate, Basics, BaseType, fileVars, CallWriteBack
<1>14. ASSUME NEW chunks \in SUBSET Chunk, CopyFails(chunks)
       PROVE  BaseType'
  BY <1>14
  DEF CopyFails, Basics, BaseType, fileVars, CallWriteBack
<1>15. CASE UNCHANGED vars
  BY <1>15
  DEF vars, Basics, BaseType, fileVars, CallWriteBack
<1> QED
  BY <1>1, <1>2, <1>3, <1>4, <1>5, <1>6, <1>7, <1>8, <1>9, <1>10, <1>11,
     <1>12, <1>13, <1>14, <1>15
  DEF Next, Client, WriteBack, Recovery, Failure

(* The journal. *)
LEMMA JournalTypeStep == Basics /\ [Next]_vars => JournalType'
<1> SUFFICES ASSUME Basics, [Next]_vars PROVE JournalType'
  OBVIOUS
<1>1. CASE Open \/ Attach
  BY <1>1, OpenJournalType DEF Basics, JournalType, Open, Attach
<1>2. CASE Append
  <2>1. NewRecord \in Entry /\ used + 1 \in Slot
    BY <1>2, NewRecordType, BoundsAssumption
    DEF Basics, Ready, Live, Control, MemoryType, CountType, Slot, Entry, Writing, Replaying, Append
  <2> QED
    BY <1>2, <2>1, WriteJournalType DEF Basics, JournalType, Append
<1>3. CASE AppendFails
  <2>1. NewRecord \in Entry /\ Empty \in Entry
    BY <1>3, NewRecordType
    DEF Basics, Ready, Live, Control, MemoryType, Entry, Writing, Replaying, AppendFails
  <2> HIDE DEF Entry
  <2> QED
    BY <1>3, <2>1 DEF Basics, JournalType, AppendFails
<1>4. CASE JournalSynced
  BY <1>4, SyncJournalType DEF Basics, JournalType, JournalSynced
<1>5. CASE Clear \/ ClearFails \/ ReplayClear
  <2>1. WriteJournal(1, Empty) \/ UNCHANGED <<journal, journalLeft>>
    BY <1>5 DEF Clear, ClearFails, ReplayClear
  <2>2. 1 \in Slot /\ Empty \in Entry
    BY BoundsAssumption DEF Slot, Entry
  <2> QED
    BY <2>1, <2>2, WriteJournalType DEF Basics, JournalType
<1>6. CASE Crash
  BY <1>6, CrashType DEF Basics, BaseType, JournalType
<1>7. CASE Begin \/ Commit \/ Rollback \/ Flush \/ Detach \/ Close \/
           CloseMemory
  BY <1>7
  DEF Begin, Commit, Rollback, Flush, Detach, Close, CloseMemory,
      CallWriteBack, Closed, Basics, JournalType, fileVars
<1>8. CASE NothingToStore \/ Shrink \/ Settle \/ CheckpointSync \/
           CopyToMemory \/ LetGo \/ CheckpointSkipped
  BY <1>8
  DEF NothingToStore, Shrink, Settle, CheckpointSync, CopyToMemory, LetGo,
      CheckpointSkipped, Closed, Basics, JournalType, fileVars,
      CallWriteBack
<1>9. CASE ReplayRecord \/ ReplayEnds \/ ReplaySync \/ PreserveFails \/
           JournalSyncFails \/ ShrinkFails \/ SettleFails
  BY <1>9
  DEF ReplayRecord, ReplayEnds, ReplaySync, PreserveFails, JournalSyncFails,
      ShrinkFails, SettleFails, Basics, JournalType, fileVars, CallWriteBack
<1>10. CASE OpenFails
  BY <1>10
  DEF OpenFails, Basics, JournalType, fileVars, CallWriteBack
<1>11. ASSUME NEW i \in Chunk, Write(i)
       PROVE  JournalType'
  BY <1>11
  DEF Write, Basics, JournalType, fileVars, CallWriteBack
<1>12. ASSUME NEW n \in Size \ {0}, Truncate(n)
       PROVE  JournalType'
  BY <1>12
  DEF Truncate, Basics, JournalType, fileVars, CallWriteBack
<1>13. ASSUME NEW i \in Chunk, Apply(i)
       PROVE  JournalType'
  BY <1>13
  DEF Apply, Basics, JournalType, fileVars, CallWriteBack
<1>14. ASSUME NEW i \in Chunk, NEW v \in {base.data[i], ov.page[i], Torn}, ApplyFails(i, v)
       PROVE  JournalType'
  BY <1>14
  DEF ApplyFails, Basics, JournalType, fileVars, CallWriteBack
<1>15. ASSUME NEW chunks \in SUBSET Chunk, CopyFails(chunks)
       PROVE  JournalType'
  BY <1>15
  DEF CopyFails, Basics, JournalType, fileVars, CallWriteBack
<1>16. CASE UNCHANGED vars
  BY <1>16
  DEF vars, Basics, JournalType, fileVars, CallWriteBack
<1> QED
  BY <1>1, <1>2, <1>3, <1>4, <1>5, <1>6, <1>7, <1>8, <1>9, <1>10, <1>11,
     <1>12, <1>13, <1>14, <1>15, <1>16
  DEF Next, Client, WriteBack, Recovery, Failure

(* The counters. *)
LEMMA CountTypeStep == Basics /\ [Next]_vars => CountType'
<1> SUFFICES ASSUME Basics, [Next]_vars PROVE CountType'
  OBVIOUS
<1>1. CASE JournalSynced
  BY <1>1, BoundsAssumption DEF Basics, CountType, Ready, JournalSynced
<1>2. CASE Clear \/ ReplayClear
  BY <1>2, BoundsAssumption DEF Basics, CountType, Clear, ReplayClear, NewJournal, FreshSalts
<1>3. CASE Open \/ Attach
  BY <1>3, BoundsAssumption DEF Basics, CountType, Open, Attach
<1>4. CASE ReplayRecord
  BY <1>4, BoundsAssumption DEF Basics, CountType, ReplayRecord, Follows, Slot
<1>5. CASE CloseMemory \/ LetGo \/ OpenFails \/ Crash
  BY <1>5, BoundsAssumption DEF Basics, CountType, CloseMemory, LetGo, OpenFails, Crash, Closed
<1>6. CASE Begin \/ Commit \/ Rollback \/ Flush \/ Detach \/ Close \/
           NothingToStore
  BY <1>6
  DEF Begin, Commit, Rollback, Flush, Detach, Close, NothingToStore,
      CallWriteBack, Basics, CountType
<1>7. CASE Append \/ Shrink \/ Settle \/ CheckpointSync \/ CopyToMemory \/
           CheckpointSkipped \/ ReplayEnds
  BY <1>7
  DEF Append, Shrink, Settle, CheckpointSync, CopyToMemory,
      CheckpointSkipped, ReplayEnds, Basics, CountType
<1>8. CASE ReplaySync \/ PreserveFails \/ AppendFails \/ JournalSyncFails \/
           ShrinkFails \/ SettleFails \/ ClearFails
  BY <1>8
  DEF ReplaySync, PreserveFails, AppendFails, JournalSyncFails, ShrinkFails,
      SettleFails, ClearFails, Basics, CountType
<1>9. ASSUME NEW i \in Chunk, Write(i)
      PROVE  CountType'
  BY <1>9
  DEF Write, Basics, CountType
<1>10. ASSUME NEW n \in Size \ {0}, Truncate(n)
       PROVE  CountType'
  BY <1>10
  DEF Truncate, Basics, CountType
<1>11. ASSUME NEW i \in Chunk, Apply(i)
       PROVE  CountType'
  BY <1>11
  DEF Apply, Basics, CountType
<1>12. ASSUME NEW i \in Chunk, NEW v \in {base.data[i], ov.page[i], Torn}, ApplyFails(i, v)
       PROVE  CountType'
  BY <1>12
  DEF ApplyFails, Basics, CountType
<1>13. ASSUME NEW chunks \in SUBSET Chunk, CopyFails(chunks)
       PROVE  CountType'
  BY <1>13
  DEF CopyFails, Basics, CountType
<1>14. CASE UNCHANGED vars
  BY <1>14
  DEF vars, Basics, CountType
<1> QED
  BY <1>1, <1>2, <1>3, <1>4, <1>5, <1>6, <1>7, <1>8, <1>9, <1>10, <1>11,
     <1>12, <1>13, <1>14
  DEF Next, Client, WriteBack, Recovery, Failure

(* What is in memory. *)
LEMMA MemoryTypeStep == Basics /\ [Next]_vars => MemoryType'
<1> SUFFICES ASSUME Basics, [Next]_vars PROVE MemoryType'
  OBVIOUS
<1>1. CASE Commit
  BY <1>1, ContentType DEF Basics, MemoryType, BaseType, memoryVars, Commit
<1>2. CASE Rollback
  BY <1>2, RestoreType DEF Basics, MemoryType, MarkDirty, Rollback
<1>3. CASE Begin
  BY <1>3, BoundsAssumption DEF Basics, MemoryType, memoryVars, Begin
<1>4. ASSUME NEW i \in Chunk, Write(i)
      PROVE  MemoryType'
  <2>1. ov' \in Overlay
    BY <1>4, WriteChunkType, BoundsAssumption DEF Basics, MemoryType, Write
  <2> QED
    BY <1>4, <2>1 DEF Basics, MemoryType, MarkDirty, Write
<1>5. ASSUME NEW n \in Size \ {0}, Truncate(n)
      PROVE  MemoryType'
  BY <1>5, TruncateToType DEF Basics, MemoryType, Truncate
<1>6. CASE Settle
  <2>1. ov' \in Overlay /\ ov.size \in Size
    BY <1>6, DropStoredType DEF Basics, MemoryType, Overlay, Settle
  <2> QED
    BY <1>6, <2>1 DEF Basics, MemoryType, clientVars, Settle, AfterWriteBack
<1>7. CASE CopyToMemory
  BY <1>7, PreserveType DEF Basics, MemoryType, BaseType, clientVars, CopyToMemory
<1>8. ASSUME NEW chunks \in SUBSET Chunk, CopyFails(chunks)
      PROVE  MemoryType'
  BY <1>8, PreserveType DEF Basics, MemoryType, BaseType, clientVars, CopyFails
<1>9. CASE LetGo
  <2>1. ov' \in Overlay /\ committed' \in File /\ todo' \subseteq Chunk /\ touched' \subseteq Chunk
    BY <1>9, NoBaseType, EmptyType DEF Basics, MemoryType, LetGo, Closed
  <2>2. 0 \in Size
    BY NAssumption DEF Size
  <2> QED
    BY <1>9, <2>1, <2>2 DEF Basics, MemoryType, LetGo, Closed
<1>10. CASE CloseMemory \/ Crash
  <2>1. ov' \in Overlay /\ committed' \in File /\ todo' = {} /\ touched' = {}
    BY <1>10, EmptyType DEF CloseMemory, Crash, Closed
  <2>2. 0 \in Size
    BY NAssumption DEF Size
  <2> QED
    BY <1>10, <2>1, <2>2 DEF Basics, MemoryType, CloseMemory, Crash
<1>11. CASE Attach
  BY <1>11, FillHolesFields DEF Basics, MemoryType, clientVars, Attach
<1>12. CASE ReplayClear
  <2>1. Opened(base) \in Overlay /\ base.size \in Size /\ base \in File
    BY OpenedType DEF Basics, BaseType, File
  <2>2. Content(Opened(base), base) \in File
    BY <2>1, ContentType
  <2>3. 0 .. ov.size - 1 \subseteq Chunk
    BY NAssumption DEF Basics, MemoryType, Overlay, Size, Chunk
  <2> QED
    BY <1>12, <2>1, <2>2, <2>3 DEF Basics, MemoryType, ReplayClear
<1>13. CASE JournalSynced
  <2>1. todo' \subseteq Chunk
    BY <1>13 DEF JournalSynced, Held
  <2> QED
    BY <1>13, <2>1 DEF Basics, MemoryType, memoryVars, JournalSynced
<1>14. CASE Flush \/ Detach \/ Close \/ Open \/ NothingToStore
  BY <1>14
  DEF Flush, Detach, Close, Open, NothingToStore, CallWriteBack,
      AfterWriteBack, Basics, MemoryType, memoryVars, clientVars
<1>15. CASE Append \/ Shrink \/ CheckpointSync \/ Clear \/ CheckpointSkipped
  BY <1>15
  DEF Append, Shrink, CheckpointSync, Clear, CheckpointSkipped,
      AfterCheckpoint, AfterWriteBack, Basics, MemoryType, memoryVars,
      clientVars
<1>16. CASE ReplayRecord \/ ReplayEnds \/ ReplaySync \/ PreserveFails \/
            AppendFails
  BY <1>16
  DEF ReplayRecord, ReplayEnds, ReplaySync, PreserveFails, AppendFails,
      AfterWriteBack, Basics, MemoryType, memoryVars, clientVars
<1>17. CASE JournalSyncFails \/ ShrinkFails \/ SettleFails \/ ClearFails \/
            OpenFails
  BY <1>17
  DEF JournalSyncFails, ShrinkFails, SettleFails, ClearFails, OpenFails,
      AfterWriteBack, AfterCheckpoint, Basics, MemoryType, memoryVars,
      clientVars
<1>18. ASSUME NEW i \in Chunk, Apply(i)
       PROVE  MemoryType'
  BY <1>18
  DEF Apply, Basics, MemoryType, memoryVars, clientVars
<1>19. ASSUME NEW i \in Chunk, NEW v \in {base.data[i], ov.page[i], Torn}, ApplyFails(i, v)
       PROVE  MemoryType'
  BY <1>19
  DEF ApplyFails, AfterWriteBack, Basics, MemoryType, memoryVars, clientVars
<1>20. CASE UNCHANGED vars
  BY <1>20
  DEF vars, Basics, MemoryType, memoryVars, clientVars
<1> QED
  BY <1>1, <1>2, <1>3, <1>4, <1>5, <1>6, <1>7, <1>8, <1>9, <1>10, <1>11,
     <1>12, <1>13, <1>14, <1>15, <1>16, <1>17, <1>18, <1>19, <1>20
  DEF Next, Client, WriteBack, Recovery, Failure

(* A write-back has what it needs. *)
LEMMA ReadyStep == Basics /\ [Next]_vars => Ready'
<1> SUFFICES ASSUME Basics, [Next]_vars PROVE Ready'
  OBVIOUS
<1>1. CASE JournalSynced
  <2>1. \A i \in todo' : i \in dirty /\ i < ov.size /\ ov.page[i] # NoPage
    BY <1>1 DEF JournalSynced, Held, NewRecord
  <2> QED
    BY <1>1, <2>1 DEF Basics, Ready, Live, Writing, JournalSynced, memoryVars
<1>2. CASE Clear \/ ReplayClear
  BY <1>2 DEF Basics, Ready, Live, Control, Writing, Stepping, Replaying, Clear, ReplayClear,
         NewJournal, FreshSalts, AfterCheckpoint, AfterWriteBack
<1>3. CASE Begin \/ Commit \/ Rollback \/ Flush
  BY <1>3
  DEF Begin, Commit, Rollback, Flush, CallWriteBack, Basics, Ready, Live,
      Control, Writing, Stepping, Replaying, Idle, memoryVars
<1>4. CASE Detach \/ Close \/ CloseMemory \/ Open
  BY <1>4
  DEF Detach, Close, CloseMemory, Open, CallWriteBack, Closed, Basics,
      Ready, Live, Control, Writing, Stepping, Replaying, Idle, memoryVars
<1>5. CASE Attach \/ NothingToStore \/ Append \/ Shrink
  BY <1>5
  DEF Attach, NothingToStore, Append, Shrink, AfterWriteBack, Basics, Ready,
      Live, Control, Writing, Stepping, Replaying, Idle, memoryVars
<1>6. CASE Settle \/ CheckpointSync \/ CopyToMemory \/ LetGo
  BY <1>6
  DEF Settle, CheckpointSync, CopyToMemory, LetGo, AfterWriteBack, Closed,
      Basics, Ready, Live, Control, Writing, Stepping, Replaying, Idle,
      memoryVars
<1>7. CASE CheckpointSkipped \/ ReplayRecord \/ ReplayEnds \/ ReplaySync
  BY <1>7
  DEF CheckpointSkipped, ReplayRecord, ReplayEnds, ReplaySync,
      AfterCheckpoint, AfterWriteBack, Basics, Ready, Live, Control,
      Writing, Stepping, Replaying, Idle, memoryVars
<1>8. CASE PreserveFails \/ AppendFails \/ JournalSyncFails \/ ShrinkFails
  BY <1>8
  DEF PreserveFails, AppendFails, JournalSyncFails, ShrinkFails,
      AfterWriteBack, Basics, Ready, Live, Control, Writing, Stepping,
      Replaying, Idle, memoryVars
<1>9. CASE SettleFails \/ ClearFails \/ OpenFails \/ Crash
  BY <1>9
  DEF SettleFails, ClearFails, OpenFails, Crash, AfterWriteBack,
      AfterCheckpoint, Closed, Basics, Ready, Live, Control, Writing,
      Stepping, Replaying, Idle, memoryVars
<1>10. ASSUME NEW i \in Chunk, Write(i)
       PROVE  Ready'
  BY <1>10
  DEF Write, Basics, Ready, Live, Control, Writing, Stepping, Replaying,
      Idle, memoryVars
<1>11. ASSUME NEW n \in Size \ {0}, Truncate(n)
       PROVE  Ready'
  BY <1>11
  DEF Truncate, Basics, Ready, Live, Control, Writing, Stepping, Replaying,
      Idle, memoryVars
<1>12. ASSUME NEW i \in Chunk, Apply(i)
       PROVE  Ready'
  BY <1>12
  DEF Apply, Basics, Ready, Live, Control, Writing, Stepping, Replaying,
      Idle, memoryVars
<1>13. ASSUME NEW i \in Chunk, NEW v \in {base.data[i], ov.page[i], Torn}, ApplyFails(i, v)
       PROVE  Ready'
  BY <1>13
  DEF ApplyFails, AfterWriteBack, Basics, Ready, Live, Control, Writing,
      Stepping, Replaying, Idle, memoryVars
<1>14. ASSUME NEW chunks \in SUBSET Chunk, CopyFails(chunks)
       PROVE  Ready'
  BY <1>14
  DEF CopyFails, Basics, Ready, Live, Control, Writing, Stepping, Replaying,
      Idle, memoryVars
<1>15. CASE UNCHANGED vars
  BY <1>15
  DEF vars, Basics, Ready, Live, Control, Writing, Stepping, Replaying,
      Idle, memoryVars
<1> QED
  BY <1>1, <1>2, <1>3, <1>4, <1>5, <1>6, <1>7, <1>8, <1>9, <1>10, <1>11,
     <1>12, <1>13, <1>14, <1>15
  DEF Next, Client, WriteBack, Recovery, Failure

LEMMA BasicsInit == Init => Basics
<1> SUFFICES ASSUME Init PROVE Basics
  OBVIOUS
<1>1. Old \in Nat /\ 0 \in Size /\ NoFile \in File /\ EmptyOverlay \in Overlay
  BY BoundsAssumption, EmptyType, NAssumption DEF Size
<1>2. base \in File
  BY <1>1, CutType DEF Init, File
<1>3. BaseType
  BY <1>2 DEF Init, BaseType, Left, File
<1>4. JournalType
  BY DEF Init, JournalType, Entry
<1>5. MemoryType
  BY <1>1, <1>2, BoundsAssumption DEF Init, MemoryType
<1>6. CountType
  BY BoundsAssumption DEF Init, CountType
<1>7. Control /\ Ready
  BY DEF Init, Control, Ready, Live, Writing, Stepping, Replaying
<1> QED
  BY <1>3, <1>4, <1>5, <1>6, <1>7 DEF Basics

LEMMA BasicsStep == Basics /\ [Next]_vars => Basics'
BY ControlStep, BaseTypeStep, JournalTypeStep, CountTypeStep, MemoryTypeStep, ReadyStep DEF Basics

LEMMA AlwaysBasics == Spec => []Basics
BY BasicsInit, BasicsStep, PTL DEF Spec

(* Every variable keeps its type, in a journal of any length: the counters *)
(* stay within it, and what is written to the base file is content.        *)
THEOREM TypeCorrect == Spec => []TypeOK
<1>1. Basics => TypeOK
  BY DEF Basics, Control, MemoryType, CountType, BaseType, JournalType, TypeOK, Entry, Left,
         Writing, Stepping, Replaying
<1> QED
  BY <1>1, AlwaysBasics, PTL

-----------------------------------------------------------------------------
(* What the database reads                                                 *)

(* SQLite writes every page that the file grows over.                      *)
NoLeaf == "leaf" \notin Rare

ZeroPast(f) == \A i \in Chunk : f.size <= i => f.data[i] = 0
ZeroPastEnd == ZeroPast(base) /\ ZeroPast(committed)

(* A chunk is held in memory or read from the base file.                   *)
NoHoles ==
  mode # "closed" =>
    \A i \in Chunk : i < ov.size => ov.page[i] # NoPage \/ i < ov.visible

(* Nothing is read from the base file before it holds the overlay's pages, *)
(* nor once they were copied.                                              *)
Detached ==
  /\ mode = "memory" /\ step \notin Stepping => ov.visible = 0
  /\ caller = "detaching" => \A i \in Chunk : i < ov.size => ov.page[i] # NoPage

DirtyHeld ==
  /\ Live => \A i \in dirty : i < ov.size => ov.page[i] # NoPage
  /\ ~Live => dirty = {}

(* How far a write-back got.                                               *)
Applied ==
  /\ step \in {"apply", "settle"} =>
       \A i \in dirty : i < ov.size /\ i \notin todo
                        => i < base.size /\ base.data[i] = ov.page[i]
  /\ step = "settle" => todo = {}

(* Chunks that the transaction did not touch read as the last commit.      *)
Unchanged ==
  mode # "closed" =>
    \A i \in Chunk : i \notin touched =>
      /\ i < ov.size <=> i < committed.size
      /\ i < ov.size => ReadChunk(ov, base, i) = committed.data[i]
Outside ==
  ~InTxn => touched = {} /\ (mode # "closed" => ov.size = committed.size)

ReadInv == /\ Basics /\ ZeroPastEnd /\ NoHoles /\ Detached /\ DirtyHeld /\ Applied
           /\ Unchanged /\ Outside

(* What a write to the base file, or a cut of it, leaves.                  *)
LEMMA WriteBaseFields ==
  ASSUME base \in File, NEW i \in Chunk, NEW v, WriteBase(i, v), ZeroPast(base)
  PROVE  /\ base.size <= base'.size /\ i < base'.size
         /\ base'.size = base.size \/ base'.size = i + 1
         /\ base'.data[i] = v
         /\ \A j \in Chunk : j # i => base'.data[j] = base.data[j]
         /\ \A j \in Chunk : j # i => FileRead(base', j) = FileRead(base, j)
         /\ \A j \in Chunk : base'.size <= j => base'.data[j] = 0
<1>1. /\ base'.size = IF i + 1 > base.size THEN i + 1 ELSE base.size
      /\ base'.data = [base.data EXCEPT ![i] = v]
  BY DEF WriteBase
<1>2. base.size \in Int /\ i \in Int /\ base.data \in [Chunk -> Nat]
  BY NAssumption DEF File, Size, Chunk
<1>3. base.size <= base'.size /\ i < base'.size /\ (base'.size = base.size \/ base'.size = i + 1)
  BY <1>1, <1>2
<1>4. base'.data[i] = v /\ \A j \in Chunk : j # i => base'.data[j] = base.data[j]
  BY <1>1, <1>2
<1>5. ASSUME NEW j \in Chunk, base'.size <= j
      PROVE  base'.data[j] = 0
  <2>1. base.size <= j /\ j # i
    BY <1>1, <1>2, <1>5 DEF Chunk
  <2> QED
    BY <1>4, <2>1 DEF ZeroPast
<1>6. ASSUME NEW j \in Chunk, j # i
      PROVE  FileRead(base', j) = FileRead(base, j)
  <2>1. base'.data[j] = base.data[j] /\ j \in Int
    BY <1>4, <1>6 DEF Chunk
  <2>2. base.size <= j => base.data[j] = 0
    BY DEF ZeroPast
  <2>3. base'.size <= j => base.size <= j
    BY <1>1, <1>2, <2>1
  <2> QED
    BY <1>1, <1>2, <2>1, <2>2, <2>3 DEF FileRead
<1> QED
  BY <1>3, <1>4, <1>5, <1>6

LEMMA CutBaseFields ==
  ASSUME base \in File, NEW n \in Size, CutBase(n), ZeroPast(base)
  PROVE  /\ base'.size = n
         /\ \A j \in Chunk : base'.data[j] = IF j < n THEN base.data[j] ELSE 0
         /\ \A j \in Chunk : j < n => FileRead(base', j) = FileRead(base, j)
<1>1. /\ base'.size = n
      /\ \A j \in Chunk : base'.data[j] = IF j < n THEN base.data[j] ELSE 0
  BY DEF CutBase, Cut
<1>2. ASSUME NEW j \in Chunk, j < n
      PROVE  FileRead(base', j) = FileRead(base, j)
  <2>1. base.size <= j => base.data[j] = 0
    BY DEF ZeroPast
  <2>2. base.size \in Int /\ j \in Int
    BY NAssumption DEF File, Size, Chunk
  <2> QED
    BY <1>1, <1>2, <2>1, <2>2 DEF FileRead
<1> QED
  BY <1>1, <1>2

(* A chunk that is held is read from memory, another one from the file.    *)
LEMMA ReadsSame ==
  ASSUME NEW o, NEW b, NEW c, NEW i,
         o.page[i] # NoPage \/ FileRead(b, i) = FileRead(c, i)
  PROVE  ReadChunk(o, b, i) = ReadChunk(o, c, i)
BY DEF ReadChunk, FillChunk, BaseRead

LEMMA ReadTypes ==
  ASSUME Basics
  PROVE  /\ ov \in Overlay /\ base \in File /\ committed \in File
         /\ ov.size \in 0 .. N /\ ov.visible \in 0 .. N
         /\ base.size \in 0 .. N /\ committed.size \in 0 .. N /\ txn \in Nat
         /\ dirty \subseteq Chunk /\ touched \subseteq Chunk /\ todo \subseteq Chunk
BY BoundsAssumption DEF Basics, MemoryType, BaseType, Overlay, File, Size

(* A file reads as zero past its end. *)
LEMMA ZeroPastEndStep == ReadInv /\ [Next]_vars => ZeroPastEnd'
<1> SUFFICES ASSUME ReadInv, [Next]_vars PROVE ZeroPastEnd'
  OBVIOUS
<1>1. CASE Commit
  <2>1. base \in File /\ ZeroPast(base) /\ ZeroPast(committed)
    BY ReadTypes DEF ReadInv, ZeroPastEnd
  <2>2. \A i \in Chunk : committed'.size <= i => committed'.data[i] = 0
    <3>1. committed'.size = ov.size
          /\ \A i \in Chunk : committed'.data[i]
                              = IF i < ov.size THEN ReadChunk(ov, base, i) ELSE 0
      BY <1>1 DEF Commit, Content
    <3>2. \A i \in Chunk : ov.size <= i => ~ (i < ov.size)
      BY ReadTypes DEF ReadInv, Chunk
    <3> QED
      BY <3>1, <3>2
  <2> QED
    BY <1>1, <2>1, <2>2 DEF Commit, fileVars, ZeroPastEnd, ZeroPast
<1>2. ASSUME NEW i \in Chunk, Apply(i)
      PROVE  ZeroPastEnd'
  <2>1. base \in File /\ ZeroPast(base) /\ ZeroPast(committed)
    BY ReadTypes DEF ReadInv, ZeroPastEnd
  <2> QED
    BY <1>2, <2>1, WriteBaseFields DEF Apply, clientVars, ZeroPastEnd, ZeroPast
<1>3. ASSUME NEW i \in Chunk, NEW v \in {base.data[i], ov.page[i], Torn}, ApplyFails(i, v)
      PROVE  ZeroPastEnd'
  <2>1. base \in File /\ ZeroPast(base) /\ ZeroPast(committed)
    BY ReadTypes DEF ReadInv, ZeroPastEnd
  <2> QED
    BY <1>3, <2>1, WriteBaseFields DEF ApplyFails, clientVars, ZeroPastEnd, ZeroPast
<1>4. CASE Shrink
  <2>1. base \in File /\ ZeroPast(base) /\ ZeroPast(committed)
    BY ReadTypes DEF ReadInv, ZeroPastEnd
  <2>2. ov.size \in Size
    BY ReadTypes DEF ReadInv, Size
  <2>3. CASE CutBase(ov.size)
    <3>1. \A i \in Chunk : base'.size <= i => ~ (i < base'.size)
      BY <2>1, <2>2, <2>3, CutBaseFields DEF Chunk, Size
    <3> QED
      BY <1>4, <2>1, <2>2, <2>3, <3>1, CutBaseFields DEF Shrink, clientVars, ZeroPastEnd, ZeroPast
  <2> QED
    BY <1>4, <2>1, <2>3 DEF Shrink, clientVars, ZeroPastEnd, ZeroPast
<1>5. CASE CheckpointSync \/ ReplaySync
  <2>1. base \in File /\ ZeroPast(base) /\ ZeroPast(committed)
    BY ReadTypes DEF ReadInv, ZeroPastEnd
  <2> QED
    BY <1>5, <2>1 DEF CheckpointSync, ReplaySync, SyncBase, clientVars, ZeroPastEnd, ZeroPast
<1>6. CASE CloseMemory \/ LetGo
  <2>1. base \in File /\ ZeroPast(base) /\ ZeroPast(committed)
    BY ReadTypes DEF ReadInv, ZeroPastEnd
  <2>2. NoFile.data = [i \in Chunk |-> 0]
    BY DEF NoFile
  <2> QED
    BY <1>6, <2>1, <2>2 DEF CloseMemory, LetGo, Closed, fileVars, ZeroPastEnd, ZeroPast
<1>7. CASE ReplayRecord
  <2>1. base \in File /\ ZeroPast(base) /\ ZeroPast(committed)
    BY ReadTypes DEF ReadInv, ZeroPastEnd
  <2>2. base' \in File /\ \E data : base'.data = Cut(data, base'.size)
    BY <1>7, ReplayRecordType DEF ReadInv, Basics, BaseType, JournalType, ReplayRecord
  <2>3. \A i \in Chunk : base'.size <= i => ~ (i < base'.size)
    BY <2>2 DEF File, Size, Chunk
  <2> QED
    BY <1>7, <2>1, <2>2, <2>3 DEF ReplayRecord, Cut, clientVars, ZeroPastEnd, ZeroPast
<1>8. CASE ReplayClear
  <2>1. base \in File /\ ZeroPast(base) /\ ZeroPast(committed)
    BY ReadTypes DEF ReadInv, ZeroPastEnd
  <2>2. CASE caller = "open"
    <3>1. committed'.size = base.size
          /\ \A i \in Chunk : ~ (i < base.size) => committed'.data[i] = 0
      BY <1>8, <2>2 DEF ReplayClear, Content, Opened
    <3>2. \A i \in Chunk : base.size <= i => ~ (i < base.size)
      BY ReadTypes DEF ReadInv, Chunk
    <3> QED
      BY <1>8, <2>1, <3>1, <3>2 DEF ReplayClear, ZeroPastEnd, ZeroPast
  <2> QED
    BY <1>8, <2>1, <2>2 DEF ReplayClear, ZeroPastEnd, ZeroPast
<1>9. CASE Crash
  <2>1. base' \in File
    BY <1>9, CrashType DEF ReadInv, Basics, BaseType, JournalType
  <2>2. \A i \in Chunk : base'.size <= i => ~ (i < base'.size)
    BY <2>1 DEF File, Size, Chunk
  <2>3. \A i \in Chunk : ~ (i < base'.size) => base'.data[i] = 0
    BY <1>9, CrashFields DEF ReadInv, Basics, BaseType
  <2>4. committed'.data = [i \in Chunk |-> 0]
    BY <1>9 DEF Crash, Closed, NoFile
  <2> QED
    BY <2>2, <2>3, <2>4 DEF ZeroPastEnd, ZeroPast
<1>10. CASE Begin \/ Rollback \/ Flush \/ Detach \/ Close \/ Open
  BY <1>10
  DEF Begin, Rollback, Flush, Detach, Close, Open, CallWriteBack, ReadInv,
      ZeroPastEnd, ZeroPast, memoryVars, fileVars, clientVars
<1>11. CASE Attach \/ NothingToStore \/ Append \/ JournalSynced \/ Settle \/
            Clear
  BY <1>11
  DEF Attach, NothingToStore, Append, JournalSynced, Settle, Clear, ReadInv,
      ZeroPastEnd, ZeroPast, memoryVars, fileVars, clientVars
<1>12. CASE CopyToMemory \/ CheckpointSkipped \/ ReplayEnds \/ PreserveFails
            \/ AppendFails \/ JournalSyncFails
  BY <1>12
  DEF CopyToMemory, CheckpointSkipped, ReplayEnds, PreserveFails,
      AppendFails, JournalSyncFails, ReadInv, ZeroPastEnd, ZeroPast,
      memoryVars, fileVars, clientVars
<1>13. CASE ShrinkFails \/ SettleFails \/ ClearFails \/ OpenFails
  BY <1>13
  DEF ShrinkFails, SettleFails, ClearFails, OpenFails, ReadInv, ZeroPastEnd,
      ZeroPast, memoryVars, fileVars, clientVars
<1>14. ASSUME NEW i \in Chunk, Write(i)
       PROVE  ZeroPastEnd'
  BY <1>14
  DEF Write, ReadInv, ZeroPastEnd, ZeroPast, memoryVars, fileVars,
      clientVars
<1>15. ASSUME NEW n \in Size \ {0}, Truncate(n)
       PROVE  ZeroPastEnd'
  BY <1>15
  DEF Truncate, ReadInv, ZeroPastEnd, ZeroPast, memoryVars, fileVars,
      clientVars
<1>16. ASSUME NEW chunks \in SUBSET Chunk, CopyFails(chunks)
       PROVE  ZeroPastEnd'
  BY <1>16
  DEF CopyFails, ReadInv, ZeroPastEnd, ZeroPast, memoryVars, fileVars,
      clientVars
<1>17. CASE UNCHANGED vars
  BY <1>17
  DEF vars, ReadInv, ZeroPastEnd, ZeroPast, memoryVars, fileVars, clientVars
<1> QED
  BY <1>1, <1>2, <1>3, <1>4, <1>5, <1>6, <1>7, <1>8, <1>9, <1>10, <1>11,
     <1>12, <1>13, <1>14, <1>15, <1>16, <1>17
  DEF Next, Client, WriteBack, Recovery, Failure

(* A file has no holes: every chunk is held, or in the base file. *)
LEMMA NoHolesStep == NoLeaf /\ ReadInv /\ [Next]_vars => NoHoles'
<1> SUFFICES ASSUME NoLeaf /\ ReadInv, [Next]_vars PROVE NoHoles'
  OBVIOUS
<1>1. ASSUME NEW i \in Chunk, Write(i)
      PROVE  NoHoles'
  <2>1. ov \in Overlay /\ ov.size \in 0 .. N /\ ov.visible \in 0 .. N /\ txn \in Nat
        /\ base \in File /\ committed \in File /\ committed.size \in 0 .. N
    BY ReadTypes DEF ReadInv
  <2>2. /\ ov'.size = IF i + 1 > ov.size THEN i + 1 ELSE ov.size
        /\ ov'.visible = ov.visible
        /\ \A j \in Chunk : ov'.page[j] = IF j = i THEN txn ELSE ov.page[j]
    BY <1>1, <2>1, WriteChunkFields DEF Write
  <2>3. i <= ov.size
    BY <1>1 DEF Write, NoLeaf
  <2>4. \A j \in Chunk : j < ov'.size /\ j # i => j < ov.size
    BY <2>1, <2>2, <2>3, NAssumption DEF Chunk
  <2> QED
    BY <1>1, <2>1, <2>2, <2>4, NoPageAssumption DEF ReadInv, NoHoles, Write
<1>2. ASSUME NEW n \in Size \ {0}, Truncate(n)
      PROVE  NoHoles'
  <2>1. ov \in Overlay /\ ov.size \in 0 .. N /\ ov.visible \in 0 .. N /\ txn \in Nat
        /\ base \in File /\ committed \in File /\ committed.size \in 0 .. N
    BY ReadTypes DEF ReadInv
  <2>2. /\ n \in Size /\ n < ov.size /\ mode' = mode
    BY <1>2 DEF Truncate
  <2>3. /\ ov'.size = n /\ ov'.visible = IF n < ov.visible THEN n ELSE ov.visible
        /\ \A j \in Chunk : ov'.page[j] = IF j < n THEN ov.page[j] ELSE NoPage
    BY <1>2, <2>1, <2>2, TruncateToFields DEF Truncate
  <2>4. \A j \in Chunk : j < n => j < ov.size
    BY <2>1, <2>2, NAssumption DEF Chunk, Size
  <2> QED
    BY <2>2, <2>3, <2>4 DEF ReadInv, NoHoles
<1>3. CASE Rollback
  <2>1. ov \in Overlay /\ ov.size \in 0 .. N /\ ov.visible \in 0 .. N /\ txn \in Nat
        /\ base \in File /\ committed \in File /\ committed.size \in 0 .. N
    BY ReadTypes DEF ReadInv
  <2>2. /\ ov'.size = committed.size
        /\ ov'.visible = IF committed.size < ov.visible THEN committed.size ELSE ov.visible
        /\ \A j \in Chunk : ov'.page[j] = IF committed.size <= j THEN NoPage
                            ELSE IF j \in touched THEN committed.data[j] ELSE ov.page[j]
    BY <1>3, <2>1, RestoreFields DEF Rollback
  <2>3. mode' = mode
    BY <1>3 DEF Rollback
  <2>4. ASSUME NEW j \in Chunk, j < committed.size, mode # "closed"
        PROVE  ov'.page[j] # NoPage \/ j < ov'.visible
    <3>1. ~ (committed.size <= j)
      BY <2>1, <2>4 DEF Chunk
    <3>2. CASE j \in touched
      BY <2>1, <2>2, <3>1, <3>2, NoPageAssumption DEF File
    <3>3. CASE j \notin touched
      <4>1. j < ov.size
        BY <2>4, <3>3 DEF ReadInv, Unchanged
      <4> QED
        BY <2>2, <2>4, <3>1, <3>3, <4>1 DEF ReadInv, NoHoles
    <3> QED
      BY <3>2, <3>3
  <2> QED
    BY <2>2, <2>3, <2>4 DEF NoHoles
<1>4. CASE Settle
  <2>1. ov \in Overlay /\ ov.size \in 0 .. N /\ ov.visible \in 0 .. N /\ txn \in Nat
        /\ base \in File /\ committed \in File /\ committed.size \in 0 .. N
    BY ReadTypes DEF ReadInv
  <2>2. ov'.size = ov.size /\ ov'.visible = ov.size
    BY <1>4, <2>1, DropStoredFields DEF Settle
  <2> QED
    BY <2>2 DEF NoHoles
<1>5. CASE CopyToMemory
  <2>1. ov \in Overlay /\ ov.size \in 0 .. N /\ ov.visible \in 0 .. N /\ txn \in Nat
        /\ base \in File /\ committed \in File /\ committed.size \in 0 .. N
    BY ReadTypes DEF ReadInv
  <2>2. /\ ov'.size = ov.size /\ ov'.visible = ov.visible /\ mode' = mode
        /\ \A j \in Chunk : ov.page[j] # NoPage => ov'.page[j] # NoPage
    BY <1>5, <2>1, PreserveFields DEF CopyToMemory
  <2> QED
    BY <2>2 DEF ReadInv, NoHoles
<1>6. ASSUME NEW chunks \in SUBSET Chunk, CopyFails(chunks)
      PROVE  NoHoles'
  <2>1. ov \in Overlay /\ ov.size \in 0 .. N /\ ov.visible \in 0 .. N /\ txn \in Nat
        /\ base \in File /\ committed \in File /\ committed.size \in 0 .. N
    BY ReadTypes DEF ReadInv
  <2>2. /\ ov'.size = ov.size /\ ov'.visible = ov.visible /\ mode' = mode
        /\ \A j \in Chunk : ov.page[j] # NoPage => ov'.page[j] # NoPage
    BY <1>6, <2>1, PreserveFields DEF CopyFails
  <2> QED
    BY <2>2 DEF ReadInv, NoHoles
<1>7. CASE LetGo
  <2>1. ov \in Overlay /\ ov.size \in 0 .. N /\ ov.visible \in 0 .. N /\ txn \in Nat
        /\ base \in File /\ committed \in File /\ committed.size \in 0 .. N
    BY ReadTypes DEF ReadInv
  <2>2. CASE caller = "closing"
    BY <1>7, <2>2 DEF LetGo, Closed, NoHoles
  <2>3. CASE caller # "closing"
    <3>1. ov'.size = ov.size /\ ov'.page = ov.page
      BY <1>7, <2>1, <2>3, NoBaseFields DEF LetGo
    <3>2. mode # "closed" /\ (caller = "detaching" \/ (mode = "memory" /\ step \notin Stepping))
      BY <1>7, <2>3 DEF LetGo, ReadInv, Basics, Control, Replaying, Stepping
    <3>3. \A i \in Chunk : i < ov.size => ov.page[i] # NoPage
      BY <2>1, <3>2, NAssumption DEF ReadInv, Detached, NoHoles, Chunk
    <3> QED
      BY <3>1, <3>3 DEF NoHoles
  <2> QED
    BY <2>2, <2>3
<1>8. CASE Attach
  <2>1. ov \in Overlay /\ ov.size \in 0 .. N /\ ov.visible \in 0 .. N /\ txn \in Nat
        /\ base \in File /\ committed \in File /\ committed.size \in 0 .. N
    BY ReadTypes DEF ReadInv
  <2>2. /\ ov'.size = ov.size
        /\ \A i \in Chunk : ov'.page[i] = IF i < ov.size /\ ov.page[i] = NoPage
                                          THEN 0 ELSE ov.page[i]
    BY <1>8, <2>1, FillHolesFields DEF Attach
  <2> QED
    BY <2>2, NoPageAssumption DEF NoHoles
<1>9. CASE ReplayClear
  <2>1. ov \in Overlay /\ ov.size \in 0 .. N /\ ov.visible \in 0 .. N /\ txn \in Nat
        /\ base \in File /\ committed \in File /\ committed.size \in 0 .. N
    BY ReadTypes DEF ReadInv
  <2>2. CASE caller = "open"
    <3>1. ov'.size = base.size /\ ov'.visible = base.size
      BY <1>9, <2>1, <2>2, OpenedFields DEF ReplayClear
    <3> QED
      BY <3>1 DEF NoHoles
  <2>3. CASE caller # "open"
    BY <1>9, <2>3 DEF ReplayClear, ReadInv, NoHoles
  <2> QED
    BY <2>2, <2>3
<1>10. CASE NothingToStore \/ PreserveFails \/ AppendFails \/
            JournalSyncFails \/ ShrinkFails \/ SettleFails \/
            CheckpointSkipped \/ Clear \/ ClearFails
  <2>1. ov' = ov /\ mode # "closed"
    BY <1>10 DEF NothingToStore, PreserveFails, AppendFails, JournalSyncFails, ShrinkFails,
            SettleFails, CheckpointSkipped, Clear, ClearFails, ReadInv, Basics, Control,
            Replaying
  <2> QED
    BY <2>1 DEF ReadInv, NoHoles
<1>11. ASSUME NEW i \in Chunk, NEW v \in {base.data[i], ov.page[i], Torn}, ApplyFails(i, v)
       PROVE  NoHoles'
  <2>1. ov' = ov /\ mode # "closed"
    BY <1>11 DEF ApplyFails, ReadInv, Basics, Control, Replaying
  <2> QED
    BY <2>1 DEF ReadInv, NoHoles
<1>12. CASE Begin \/ Commit \/ Flush \/ Detach \/ Close \/ CloseMemory
  BY <1>12
  DEF Begin, Commit, Flush, Detach, Close, CloseMemory, CallWriteBack,
      Closed, ReadInv, NoHoles, memoryVars, fileVars, clientVars
<1>13. CASE Open \/ Append \/ JournalSynced \/ Shrink \/ CheckpointSync \/
            ReplayRecord
  BY <1>13
  DEF Open, Append, JournalSynced, Shrink, CheckpointSync, ReplayRecord,
      ReadInv, NoHoles, memoryVars, fileVars, clientVars
<1>14. CASE ReplayEnds \/ ReplaySync \/ OpenFails \/ Crash
  BY <1>14
  DEF ReplayEnds, ReplaySync, OpenFails, Crash, Closed, ReadInv, NoHoles,
      memoryVars, fileVars, clientVars
<1>15. ASSUME NEW i \in Chunk, Apply(i)
       PROVE  NoHoles'
  BY <1>15
  DEF Apply, ReadInv, NoHoles, memoryVars, fileVars, clientVars
<1>16. CASE UNCHANGED vars
  BY <1>16
  DEF vars, ReadInv, NoHoles, memoryVars, fileVars, clientVars
<1> QED
  BY <1>1, <1>2, <1>3, <1>4, <1>5, <1>6, <1>7, <1>8, <1>9, <1>10, <1>11,
     <1>12, <1>13, <1>14, <1>15, <1>16
  DEF Next, Client, WriteBack, Recovery, Failure

(* A detached overlay reads nothing from the file it was on. *)
LEMMA DetachedStep == ReadInv /\ [Next]_vars => Detached'
<1> SUFFICES ASSUME ReadInv, [Next]_vars PROVE Detached'
  OBVIOUS
<1>1. ASSUME NEW i \in Chunk, Write(i)
      PROVE  Detached'
  <2>1. ov \in Overlay /\ ov.size \in 0 .. N /\ ov.visible \in 0 .. N /\ txn \in Nat
        /\ base \in File /\ committed \in File /\ committed.size \in 0 .. N
    BY ReadTypes DEF ReadInv
  <2>2. ov'.visible = ov.visible /\ caller # "detaching"
    BY <1>1, <2>1, WriteChunkFields DEF Write, ReadInv, Basics, Control
  <2> QED
    BY <1>1, <2>2 DEF Write, ReadInv, Detached, Stepping
<1>2. ASSUME NEW n \in Size \ {0}, Truncate(n)
      PROVE  Detached'
  <2>1. ov \in Overlay /\ ov.size \in 0 .. N /\ ov.visible \in 0 .. N /\ txn \in Nat
        /\ base \in File /\ committed \in File /\ committed.size \in 0 .. N
    BY ReadTypes DEF ReadInv
  <2>2. ov'.visible = IF n < ov.visible THEN n ELSE ov.visible
    BY <1>2, <2>1, TruncateToFields DEF Truncate
  <2>3. ov.visible = 0 => ov'.visible = 0
    BY <2>1, <2>2, NAssumption DEF Size
  <2> QED
    BY <1>2, <2>3 DEF Truncate, ReadInv, Detached, Basics, Control, Stepping
<1>3. CASE Rollback
  <2>1. ov \in Overlay /\ ov.size \in 0 .. N /\ ov.visible \in 0 .. N /\ txn \in Nat
        /\ base \in File /\ committed \in File /\ committed.size \in 0 .. N
    BY ReadTypes DEF ReadInv
  <2>2. ov'.visible = IF committed.size < ov.visible THEN committed.size ELSE ov.visible
    BY <1>3, <2>1, RestoreFields DEF Rollback
  <2>3. ov.visible = 0 => ov'.visible = 0
    BY <2>1, <2>2
  <2> QED
    BY <1>3, <2>3 DEF Rollback, ReadInv, Detached, Basics, Control, Stepping
<1>4. CASE Settle
  <2>1. mode = "memory" => caller = "attach"
    BY <1>4 DEF Settle, ReadInv, Basics, Control
  <2> QED
    BY <1>4, <2>1 DEF Settle, AfterWriteBack, ReadInv, Detached, Basics, Control, Writing, Stepping
<1>5. CASE CopyToMemory
  <2>1. ov \in Overlay /\ ov.size \in 0 .. N /\ ov.visible \in 0 .. N /\ txn \in Nat
        /\ base \in File /\ committed \in File /\ committed.size \in 0 .. N
    BY ReadTypes DEF ReadInv
  <2>2. mode' # "memory"
    BY <1>5 DEF CopyToMemory, ReadInv, Basics, Control
  <2>3. ASSUME NEW i \in Chunk, i < ov'.size
        PROVE  ov'.page[i] # NoPage
    <3>1. /\ ov'.size = ov.size /\ i \in 0 .. ov.size - 1
          /\ ov'.page[i] = IF i \in 0 .. ov.size - 1 /\ i < ov.visible /\ ov.page[i] = NoPage
                           THEN BaseRead(ov, base, i) ELSE ov.page[i]
      BY <1>5, <2>1, <2>3, PreserveFields DEF CopyToMemory, Chunk
    <3>2. BaseRead(ov, base, i) # NoPage
      BY <2>1, BaseReadType, NoPageAssumption
    <3>3. ov.page[i] # NoPage \/ i < ov.visible
      BY <1>5, <2>3, <3>1 DEF ReadInv, NoHoles, Basics, Control, Replaying, CopyToMemory
    <3> QED
      BY <3>1, <3>2, <3>3
  <2> QED
    BY <2>2, <2>3 DEF Detached
<1>6. ASSUME NEW chunks \in SUBSET Chunk, CopyFails(chunks)
      PROVE  Detached'
  <2>1. mode' # "memory" /\ caller' # "detaching"
    BY <1>6 DEF CopyFails, ReadInv, Basics, Control
  <2> QED
    BY <2>1 DEF Detached
<1>7. CASE LetGo
  <2>1. mode' # "memory" \/ ov'.visible = 0
    <3>1. ov \in Overlay
      BY ReadTypes DEF ReadInv
    <3> QED
      BY <1>7, <3>1, NoBaseFields DEF LetGo, Closed
  <2> QED
    BY <1>7, <2>1 DEF LetGo, Detached
<1>8. CASE Attach
  <2>1. ov \in Overlay
    BY ReadTypes DEF ReadInv
  <2>2. ov'.visible = 0 /\ caller' = "attach"
    BY <1>8, <2>1, FillHolesFields DEF Attach
  <2> QED
    BY <2>2 DEF Detached
<1>9. CASE ReplayClear
  <2>1. caller = "attach" => mode # "open" /\ step \notin Stepping
    BY <1>9 DEF ReplayClear, ReadInv, Basics, Control, Stepping
  <2> QED
    BY <1>9, <2>1 DEF ReplayClear, Detached, ReadInv, Basics, Control, Replaying
<1>10. CASE Begin \/ Commit \/ Flush \/ Detach
  BY <1>10
  DEF Begin, Commit, Flush, Detach, CallWriteBack, Detached, Idle, ReadInv,
      Basics, Control, Writing, Stepping, Replaying, memoryVars, fileVars,
      clientVars
<1>11. CASE Close \/ CloseMemory \/ Open \/ NothingToStore
  BY <1>11
  DEF Close, CloseMemory, Open, NothingToStore, CallWriteBack, Closed,
      AfterWriteBack, Detached, Idle, ReadInv, Basics, Control, Writing,
      Stepping, Replaying, memoryVars, fileVars, clientVars
<1>12. CASE Append \/ JournalSynced \/ Shrink \/ CheckpointSync
  BY <1>12
  DEF Append, JournalSynced, Shrink, CheckpointSync, Detached, Idle,
      ReadInv, Basics, Control, Writing, Stepping, Replaying, memoryVars,
      fileVars, clientVars
<1>13. CASE Clear \/ CheckpointSkipped \/ ReplayRecord \/ ReplayEnds
  BY <1>13
  DEF Clear, CheckpointSkipped, ReplayRecord, ReplayEnds, AfterCheckpoint,
      AfterWriteBack, Detached, Idle, ReadInv, Basics, Control, Writing,
      Stepping, Replaying, memoryVars, fileVars, clientVars
<1>14. CASE ReplaySync \/ PreserveFails \/ AppendFails \/ JournalSyncFails
  BY <1>14
  DEF ReplaySync, PreserveFails, AppendFails, JournalSyncFails,
      AfterWriteBack, Detached, Idle, ReadInv, Basics, Control, Writing,
      Stepping, Replaying, memoryVars, fileVars, clientVars
<1>15. CASE ShrinkFails \/ SettleFails \/ ClearFails \/ OpenFails
  BY <1>15
  DEF ShrinkFails, SettleFails, ClearFails, OpenFails, AfterWriteBack,
      AfterCheckpoint, Detached, Idle, ReadInv, Basics, Control, Writing,
      Stepping, Replaying, memoryVars, fileVars, clientVars
<1>16. CASE Crash
  BY <1>16
  DEF Crash, Closed, Detached, Idle, ReadInv, Basics, Control, Writing,
      Stepping, Replaying, memoryVars, fileVars, clientVars
<1>17. ASSUME NEW i \in Chunk, Apply(i)
       PROVE  Detached'
  BY <1>17
  DEF Apply, Detached, Idle, ReadInv, Basics, Control, Writing, Stepping,
      Replaying, memoryVars, fileVars, clientVars
<1>18. ASSUME NEW i \in Chunk, NEW v \in {base.data[i], ov.page[i], Torn}, ApplyFails(i, v)
       PROVE  Detached'
  BY <1>18
  DEF ApplyFails, AfterWriteBack, Detached, Idle, ReadInv, Basics, Control,
      Writing, Stepping, Replaying, memoryVars, fileVars, clientVars
<1>19. CASE UNCHANGED vars
  BY <1>19
  DEF vars, Detached, Idle, ReadInv, Basics, Control, Writing, Stepping,
      Replaying, memoryVars, fileVars, clientVars
<1> QED
  BY <1>1, <1>2, <1>3, <1>4, <1>5, <1>6, <1>7, <1>8, <1>9, <1>10, <1>11,
     <1>12, <1>13, <1>14, <1>15, <1>16, <1>17, <1>18, <1>19
  DEF Next, Client, WriteBack, Recovery, Failure

(* What is to be written back is held in memory. *)
LEMMA DirtyHeldStep == NoLeaf /\ ReadInv /\ [Next]_vars => DirtyHeld'
<1> SUFFICES ASSUME NoLeaf /\ ReadInv, [Next]_vars PROVE DirtyHeld'
  OBVIOUS
<1>1. ASSUME NEW i \in Chunk, Write(i)
      PROVE  DirtyHeld'
  <2>1. ov \in Overlay /\ ov.size \in 0 .. N /\ ov.visible \in 0 .. N /\ txn \in Nat
        /\ base \in File /\ committed \in File /\ committed.size \in 0 .. N
    BY ReadTypes DEF ReadInv
  <2>2. \A j \in Chunk : ov'.page[j] = IF j = i THEN txn ELSE ov.page[j]
    BY <1>1, <2>1, WriteChunkFields DEF Write
  <2>3. /\ ov'.size = IF i + 1 > ov.size THEN i + 1 ELSE ov.size
        /\ dirty \subseteq Chunk
    BY <1>1, <2>1, WriteChunkFields, ReadTypes DEF Write, ReadInv
  <2>4. mode' = mode /\ step = "txn" /\ step' = "txn"
        /\ dirty' = IF mode = "open" THEN dirty \union {i} ELSE dirty
    BY <1>1 DEF Write, MarkDirty
  <2>5. CASE mode = "open"
    <3>1. ASSUME NEW j \in dirty', j < ov'.size
          PROVE  ov'.page[j] # NoPage
      <4>1. CASE j = i
        BY <2>1, <2>2, <4>1, NoPageAssumption
      <4>2. CASE j # i
        <5>1. j \in dirty /\ ov'.page[j] = ov.page[j]
          BY <2>2, <2>3, <2>4, <2>5, <4>2
        <5>2. CASE j < ov.size
          BY <2>5, <5>1, <5>2 DEF ReadInv, DirtyHeld, Live
        <5>3. CASE ~ (j < ov.size)
          <6>1. i <= ov.size /\ i \in Int /\ j \in Int
            BY <2>3, <5>1, <1>1, NAssumption DEF Write, Chunk, NoLeaf
          <6>2. j = i
            BY <2>1, <2>3, <3>1, <5>3, <6>1
          <6> QED
            BY <4>2, <6>2
        <5> QED
          BY <5>2, <5>3
      <4> QED
        BY <4>1, <4>2
    <3> QED
      BY <2>4, <2>5, <3>1 DEF DirtyHeld, Live
  <2>6. CASE mode # "open"
    BY <2>4, <2>6 DEF ReadInv, DirtyHeld, Live, Writing, Stepping
  <2> QED
    BY <2>5, <2>6
<1>2. ASSUME NEW n \in Size \ {0}, Truncate(n)
      PROVE  DirtyHeld'
  <2>1. ov \in Overlay /\ ov.size \in 0 .. N /\ ov.visible \in 0 .. N /\ txn \in Nat
        /\ base \in File /\ committed \in File /\ committed.size \in 0 .. N
    BY ReadTypes DEF ReadInv
  <2>2. n \in Size /\ n < ov.size /\ mode' = mode /\ dirty' = dirty /\ dirty \subseteq Chunk
        /\ step = "txn" /\ step' = "cut"
    BY <1>2, ReadTypes DEF Truncate, ReadInv
  <2>3. /\ ov'.size = n
        /\ \A j \in Chunk : ov'.page[j] = IF j < n THEN ov.page[j] ELSE NoPage
    BY <1>2, <2>1, <2>2, TruncateToFields DEF Truncate
  <2>4. \A j \in Chunk : j < n => j < ov.size
    BY <2>1, <2>2, NAssumption DEF Chunk, Size
  <2> QED
    BY <2>2, <2>3, <2>4 DEF ReadInv, DirtyHeld, Live, Writing, Stepping
<1>3. CASE Rollback
  <2>1. ov \in Overlay /\ ov.size \in 0 .. N /\ ov.visible \in 0 .. N /\ txn \in Nat
        /\ base \in File /\ committed \in File /\ committed.size \in 0 .. N
    BY ReadTypes DEF ReadInv
  <2>2. /\ ov'.size = committed.size
        /\ \A j \in Chunk : ov'.page[j] = IF committed.size <= j THEN NoPage
                            ELSE IF j \in touched THEN committed.data[j] ELSE ov.page[j]
    BY <1>3, <2>1, RestoreFields DEF Rollback
  <2>3. mode' = mode /\ InTxn /\ step' = "idle" /\ dirty \subseteq Chunk
    BY <1>3, ReadTypes DEF Rollback, InTxn, ReadInv
  <2>4. CASE mode = "open"
    <3>1. ASSUME NEW j \in dirty', j < ov'.size
          PROVE  ov'.page[j] # NoPage
      <4>1. j \in Chunk /\ (j \in touched \/ j \in dirty)
        BY <1>3, <2>3, <2>4, <3>1, ReadTypes DEF Rollback, MarkDirty, ReadInv
      <4>2. ~ (committed.size <= j)
        BY <2>1, <2>2, <3>1, <4>1 DEF Chunk
      <4>3. CASE j \in touched
        BY <2>1, <2>2, <4>1, <4>2, <4>3, NoPageAssumption DEF File
      <4>4. CASE j \notin touched
        <5>1. j < ov.size
          BY <2>2, <2>4, <3>1, <4>1, <4>4 DEF ReadInv, Unchanged
        <5> QED
          BY <2>2, <2>4, <4>1, <4>2, <4>4, <5>1 DEF ReadInv, DirtyHeld, Live
      <4> QED
        BY <4>3, <4>4
    <3> QED
      BY <2>3, <2>4, <3>1 DEF DirtyHeld, Live
  <2>5. CASE mode # "open"
    BY <1>3, <2>3, <2>5 DEF Rollback, MarkDirty, ReadInv, DirtyHeld, Live, InTxn, Writing, Stepping
  <2> QED
    BY <2>4, <2>5
<1>4. CASE Settle
  <2>1. dirty' = {}
    BY <1>4 DEF Settle
  <2> QED
    BY <2>1 DEF DirtyHeld
<1>5. CASE LetGo \/ Crash
  <2>1. dirty' = {}
    BY <1>5 DEF LetGo, Crash
  <2> QED
    BY <2>1 DEF DirtyHeld
<1>6. CASE CloseMemory \/ Open \/ ReplayRecord \/ ReplayEnds \/ ReplaySync
           \/ OpenFails \/ Attach
  <2>1. dirty' = dirty /\ ~Live
    BY <1>6 DEF CloseMemory, Open, ReplayRecord, ReplayEnds, ReplaySync, OpenFails, Attach, Idle,
            Closed, memoryVars, ReadInv, Basics, Control, Live, Writing, Stepping, Replaying
  <2> QED
    BY <2>1 DEF ReadInv, DirtyHeld
<1>7. CASE ReplayClear
  <2>1. ov \in Overlay /\ ov.size \in 0 .. N /\ ov.visible \in 0 .. N /\ txn \in Nat
        /\ base \in File /\ committed \in File /\ committed.size \in 0 .. N
    BY ReadTypes DEF ReadInv
  <2>2. dirty = {}
    BY <1>7 DEF ReplayClear, ReadInv, DirtyHeld, Basics, Control, Live, Writing, Stepping, Replaying
  <2>3. CASE caller = "open"
    BY <1>7, <2>2, <2>3 DEF ReplayClear, DirtyHeld
  <2>4. CASE caller # "open"
    <3>1. mode = "memory" /\ mode' = mode /\ step' = "append" /\ ov' = ov /\ step \notin Stepping
      BY <1>7, <2>4 DEF ReplayClear, ReadInv, Basics, Control, Replaying, Stepping
    <3>2. \A i \in Chunk : i < ov.size => ov.page[i] # NoPage
      BY <2>1, <3>1, NAssumption DEF ReadInv, Detached, NoHoles, Chunk
    <3>3. dirty' \subseteq Chunk
      <4>1. dirty' = 0 .. ov.size - 1
        BY <1>7, <2>4 DEF ReplayClear
      <4>2. 0 .. ov.size - 1 \subseteq 0 .. N - 1
        BY <2>1, NAssumption
      <4> QED
        BY <4>1, <4>2 DEF Chunk
    <3> QED
      BY <3>1, <3>2, <3>3 DEF DirtyHeld, Live, Writing
  <2> QED
    BY <2>3, <2>4
<1>8. CASE CopyToMemory
  <2>1. ov \in Overlay /\ ov.size \in 0 .. N /\ ov.visible \in 0 .. N /\ txn \in Nat
        /\ base \in File /\ committed \in File /\ committed.size \in 0 .. N
    BY ReadTypes DEF ReadInv
  <2>2. /\ ov'.size = ov.size /\ mode' = mode /\ mode = "open" /\ dirty' = dirty
        /\ dirty \subseteq Chunk
        /\ \A j \in Chunk : ov.page[j] # NoPage => ov'.page[j] # NoPage
    BY <1>8, <2>1, PreserveFields, ReadTypes DEF CopyToMemory, ReadInv, Basics, Control, Replaying
  <2> QED
    BY <2>2 DEF ReadInv, DirtyHeld, Live
<1>9. ASSUME NEW chunks \in SUBSET Chunk, CopyFails(chunks)
      PROVE  DirtyHeld'
  <2>1. ov \in Overlay /\ ov.size \in 0 .. N /\ ov.visible \in 0 .. N /\ txn \in Nat
        /\ base \in File /\ committed \in File /\ committed.size \in 0 .. N
    BY ReadTypes DEF ReadInv
  <2>2. /\ ov'.size = ov.size /\ mode' = mode /\ mode = "open" /\ dirty' = dirty
        /\ dirty \subseteq Chunk
        /\ \A j \in Chunk : ov.page[j] # NoPage => ov'.page[j] # NoPage
    BY <1>9, <2>1, PreserveFields, ReadTypes DEF CopyFails, ReadInv, Basics, Control, Replaying
  <2> QED
    BY <2>2 DEF ReadInv, DirtyHeld, Live
<1>10. CASE Begin \/ Commit \/ Flush \/ Detach
  BY <1>10
  DEF Begin, Commit, Flush, Detach, CallWriteBack, DirtyHeld, Live, ReadInv,
      Basics, Control, Writing, Stepping, Replaying, memoryVars, fileVars,
      clientVars, Idle
<1>11. CASE Close \/ NothingToStore \/ Append \/ JournalSynced
  BY <1>11
  DEF Close, NothingToStore, Append, JournalSynced, CallWriteBack,
      AfterWriteBack, DirtyHeld, Live, ReadInv, Basics, Control, Writing,
      Stepping, Replaying, memoryVars, fileVars, clientVars, Idle
<1>12. CASE Shrink \/ CheckpointSync \/ Clear \/ CheckpointSkipped
  BY <1>12
  DEF Shrink, CheckpointSync, Clear, CheckpointSkipped, AfterCheckpoint,
      AfterWriteBack, DirtyHeld, Live, ReadInv, Basics, Control, Writing,
      Stepping, Replaying, memoryVars, fileVars, clientVars, Idle
<1>13. CASE PreserveFails \/ AppendFails \/ JournalSyncFails \/ ShrinkFails
  BY <1>13
  DEF PreserveFails, AppendFails, JournalSyncFails, ShrinkFails,
      AfterWriteBack, DirtyHeld, Live, ReadInv, Basics, Control, Writing,
      Stepping, Replaying, memoryVars, fileVars, clientVars, Idle
<1>14. CASE SettleFails \/ ClearFails
  BY <1>14
  DEF SettleFails, ClearFails, AfterWriteBack, AfterCheckpoint, DirtyHeld,
      Live, ReadInv, Basics, Control, Writing, Stepping, Replaying,
      memoryVars, fileVars, clientVars, Idle
<1>15. ASSUME NEW i \in Chunk, Apply(i)
       PROVE  DirtyHeld'
  BY <1>15
  DEF Apply, DirtyHeld, Live, ReadInv, Basics, Control, Writing, Stepping,
      Replaying, memoryVars, fileVars, clientVars, Idle
<1>16. ASSUME NEW i \in Chunk, NEW v \in {base.data[i], ov.page[i], Torn}, ApplyFails(i, v)
       PROVE  DirtyHeld'
  BY <1>16
  DEF ApplyFails, AfterWriteBack, DirtyHeld, Live, ReadInv, Basics, Control,
      Writing, Stepping, Replaying, memoryVars, fileVars, clientVars, Idle
<1>17. CASE UNCHANGED vars
  BY <1>17
  DEF vars, DirtyHeld, Live, ReadInv, Basics, Control, Writing, Stepping,
      Replaying, memoryVars, fileVars, clientVars, Idle
<1> QED
  BY <1>1, <1>2, <1>3, <1>4, <1>5, <1>6, <1>7, <1>8, <1>9, <1>10, <1>11,
     <1>12, <1>13, <1>14, <1>15, <1>16, <1>17
  DEF Next, Client, WriteBack, Recovery, Failure

(* The base file gets what the record says. *)
LEMMA AppliedStep == ReadInv /\ [Next]_vars => Applied'
<1> SUFFICES ASSUME ReadInv, [Next]_vars PROVE Applied'
  OBVIOUS
<1>1. CASE JournalSynced
  <2>1. Live /\ dirty \subseteq Chunk
    BY <1>1, ReadTypes DEF JournalSynced, ReadInv, Basics, Control, Live, Writing, Replaying
  <2>2. todo' = Held(NewRecord.page) /\ step' = "apply" /\ ov' = ov /\ dirty' = dirty
    BY <1>1 DEF JournalSynced, memoryVars
  <2>3. \A i \in dirty : i < ov.size => i \in Held(NewRecord.page)
    BY <2>1 DEF ReadInv, DirtyHeld, Held, NewRecord
  <2> QED
    BY <2>2, <2>3 DEF Applied
<1>2. ASSUME NEW i \in Chunk, Apply(i)
      PROVE  Applied'
  <2>1. base \in File /\ ZeroPast(base) /\ dirty \subseteq Chunk /\ base.size \in Int
    BY ReadTypes DEF ReadInv, ZeroPastEnd
  <2>2. /\ base.size <= base'.size /\ i < base'.size /\ base'.data[i] = ov.page[i]
        /\ base'.size \in Int
        /\ \A j \in Chunk : j # i => base'.data[j] = base.data[j]
    <3>1. WriteBase(i, ov.page[i]) /\ i \in Int
      BY <1>2, NAssumption DEF Apply, Chunk
    <3>2. base'.size \in Int
      BY <2>1, <3>1 DEF WriteBase
    <3> QED
      BY <2>1, <3>1, <3>2, WriteBaseFields
  <2>3. step = "apply" /\ step' = "apply" /\ todo' = todo \ {i} /\ ov' = ov /\ dirty' = dirty
    BY <1>2 DEF Apply, memoryVars
  <2>4. ASSUME NEW j \in dirty, j < ov.size, j \notin todo'
        PROVE  j < base'.size /\ base'.data[j] = ov.page[j]
    <3>1. CASE j = i
      BY <2>2, <3>1
    <3>2. CASE j # i
      <4>1. j < base.size /\ base.data[j] = ov.page[j]
        BY <2>3, <2>4, <3>2 DEF ReadInv, Applied
      <4> QED
        BY <2>1, <2>2, <3>2, <4>1 DEF Chunk
    <3> QED
      BY <3>1, <3>2
  <2> QED
    BY <2>3, <2>4 DEF Applied
<1>3. CASE Shrink
  <2>1. base \in File /\ ZeroPast(base) /\ dirty \subseteq Chunk /\ ov.size \in Size
    BY ReadTypes DEF ReadInv, ZeroPastEnd, Size
  <2>2. step = "apply" /\ todo = {} /\ todo' = {} /\ ov' = ov /\ dirty' = dirty
    BY <1>3 DEF Shrink, memoryVars
  <2>3. \A j \in dirty : j < ov.size => j < base.size /\ base.data[j] = ov.page[j]
    BY <2>2 DEF ReadInv, Applied
  <2>4. \A j \in dirty : j < ov.size => j < base'.size /\ base'.data[j] = ov.page[j]
    <3>1. CASE CutBase(ov.size)
      BY <2>1, <2>3, <3>1, CutBaseFields
    <3>2. CASE base' = base
      BY <2>3, <3>2
    <3> QED
      BY <1>3, <3>1, <3>2 DEF Shrink
  <2> QED
    BY <2>2, <2>4 DEF Applied
<1>4. CASE NothingToStore \/ PreserveFails \/ AppendFails \/
           JournalSyncFails \/ ShrinkFails \/ SettleFails \/ Settle \/
           CheckpointSkipped \/ Clear \/ ClearFails
  <2>1. step' \notin {"apply", "settle"}
    BY <1>4 DEF NothingToStore, PreserveFails, AppendFails, JournalSyncFails, ShrinkFails,
            SettleFails, Settle, CheckpointSkipped, Clear, ClearFails, AfterWriteBack,
            AfterCheckpoint
  <2> QED
    BY <2>1 DEF Applied
<1>5. ASSUME NEW i \in Chunk, NEW v \in {base.data[i], ov.page[i], Torn}, ApplyFails(i, v)
      PROVE  Applied'
  <2>1. step' \notin {"apply", "settle"}
    BY <1>5 DEF ApplyFails, AfterWriteBack
  <2> QED
    BY <2>1 DEF Applied
<1>6. CASE Begin \/ Commit \/ Rollback \/ Flush \/ Detach \/ Close \/
           CloseMemory \/ Open
  BY <1>6
  DEF Begin, Commit, Rollback, Flush, Detach, Close, CloseMemory, Open,
      CallWriteBack, Closed, Applied, Idle, ReadInv, memoryVars, fileVars,
      clientVars
<1>7. CASE Attach \/ Append \/ CheckpointSync \/ CopyToMemory \/ LetGo \/
           ReplayRecord \/ ReplayEnds \/ ReplaySync
  BY <1>7
  DEF Attach, Append, CheckpointSync, CopyToMemory, LetGo, ReplayRecord,
      ReplayEnds, ReplaySync, Closed, Applied, Idle, ReadInv, memoryVars,
      fileVars, clientVars
<1>8. CASE ReplayClear \/ OpenFails \/ Crash
  BY <1>8
  DEF ReplayClear, OpenFails, Crash, Closed, Applied, Idle, ReadInv,
      memoryVars, fileVars, clientVars
<1>9. ASSUME NEW i \in Chunk, Write(i)
      PROVE  Applied'
  BY <1>9
  DEF Write, Applied, Idle, ReadInv, memoryVars, fileVars, clientVars
<1>10. ASSUME NEW n \in Size \ {0}, Truncate(n)
       PROVE  Applied'
  BY <1>10
  DEF Truncate, Applied, Idle, ReadInv, memoryVars, fileVars, clientVars
<1>11. ASSUME NEW chunks \in SUBSET Chunk, CopyFails(chunks)
       PROVE  Applied'
  BY <1>11
  DEF CopyFails, Applied, Idle, ReadInv, memoryVars, fileVars, clientVars
<1>12. CASE UNCHANGED vars
  BY <1>12
  DEF vars, Applied, Idle, ReadInv, memoryVars, fileVars, clientVars
<1> QED
  BY <1>1, <1>2, <1>3, <1>4, <1>5, <1>6, <1>7, <1>8, <1>9, <1>10, <1>11,
     <1>12
  DEF Next, Client, WriteBack, Recovery, Failure

(* A step of a call that keeps the size of the file and what each chunk    *)
(* reads as.                                                               *)
LEMMA SameReads ==
  ASSUME ReadInv, mode # "closed", committed' = committed, touched' = touched,
         ov'.size = ov.size,
         \A i \in Chunk : i < ov.size => ReadChunk(ov', base', i) = ReadChunk(ov, base, i)
  PROVE  Unchanged'
BY DEF ReadInv, Unchanged

(* Overlays that hold the same page read the same; those that read the     *)
(* same file below do so as far as they read it.                           *)
LEMMA HeldReads ==
  ASSUME NEW o, NEW q, NEW b, NEW c, NEW i, o.page[i] # NoPage, q.page[i] = o.page[i]
  PROVE  ReadChunk(q, c, i) = ReadChunk(o, b, i)
BY DEF ReadChunk

LEMMA BelowReads ==
  ASSUME NEW o, NEW q, NEW b, NEW i, q.page[i] = o.page[i], q.head = o.head,
         i < q.visible <=> i < o.visible
  PROVE  ReadChunk(q, b, i) = ReadChunk(o, b, i)
BY DEF ReadChunk, FillChunk, BaseRead

(* Attached or detaching, an overlay holds all it reads.                   *)
LEMMA AllHeld ==
  ASSUME ReadInv, (mode = "memory" /\ step \notin Stepping) \/ caller = "detaching"
  PROVE  \A i \in Chunk : i < ov.size => ov.page[i] # NoPage
<1>1. CASE mode = "memory" /\ step \notin Stepping
  BY <1>1, ReadTypes, NAssumption DEF ReadInv, Detached, NoHoles, Chunk
<1>2. CASE caller = "detaching"
  BY <1>2 DEF ReadInv, Detached
<1> QED
  BY <1>1, <1>2

(* What a transaction did not touch reads as the last commit: at every step *)
(* of a write-back, of a failure of it, of a detach and of an attach.        *)
LEMMA UnchangedStep == NoLeaf /\ ReadInv /\ [Next]_vars => Unchanged'
<1> SUFFICES ASSUME NoLeaf /\ ReadInv, [Next]_vars PROVE Unchanged'
  OBVIOUS
<1>1. ASSUME NEW i \in Chunk, Write(i)
      PROVE  Unchanged'
  <2>1. ov \in Overlay /\ ov.size \in 0 .. N /\ ov.visible \in 0 .. N /\ txn \in Nat
        /\ base \in File /\ committed \in File /\ committed.size \in 0 .. N
    BY ReadTypes DEF ReadInv
  <2>2. CASE mode = "closed"
    BY <1>1, <2>2 DEF Write, Unchanged
  <2>3. CASE mode # "closed"
    <3>1. /\ ov'.size = IF i + 1 > ov.size THEN i + 1 ELSE ov.size
          /\ ov'.visible = ov.visible /\ ov'.head = ov.head
          /\ \A j \in Chunk : ov'.page[j] = IF j = i THEN txn ELSE ov.page[j]
      BY <1>1, <2>1, WriteChunkFields DEF Write
    <3>2. /\ touched' = touched \union {i} /\ base' = base /\ committed' = committed
          /\ i <= ov.size
      BY <1>1 DEF Write, fileVars, NoLeaf
    <3>3. ASSUME NEW j \in Chunk, j \notin touched'
          PROVE  /\ j < ov'.size <=> j < committed'.size
                 /\ j < ov'.size => ReadChunk(ov', base', j) = committed'.data[j]
      <4>1. j # i /\ j \notin touched /\ j \in Int /\ i \in Int
        BY <3>2, <3>3, NAssumption DEF Chunk
      <4>2. j < ov'.size <=> j < ov.size
        BY <2>1, <3>1, <3>2, <4>1
      <4>3. ReadChunk(ov', base', j) = ReadChunk(ov, base, j)
        BY <3>1, <3>2, <4>1, BelowReads
      <4> QED
        BY <2>3, <3>2, <4>1, <4>2, <4>3 DEF ReadInv, Unchanged
    <3> QED
      BY <3>3 DEF Unchanged
  <2> QED
    BY <2>2, <2>3
<1>2. ASSUME NEW n \in Size \ {0}, Truncate(n)
      PROVE  Unchanged'
  <2>1. ov \in Overlay /\ ov.size \in 0 .. N /\ ov.visible \in 0 .. N /\ txn \in Nat
        /\ base \in File /\ committed \in File /\ committed.size \in 0 .. N
    BY ReadTypes DEF ReadInv
  <2>2. CASE mode = "closed"
    BY <1>2, <2>2 DEF Truncate, Unchanged
  <2>3. CASE mode # "closed"
    <3>1. /\ n \in Size /\ n < ov.size /\ base' = base /\ committed' = committed
          /\ touched' = touched \union {i \in Chunk : n <= i}
      BY <1>2 DEF Truncate, fileVars
    <3>2. /\ ov'.size = n /\ ov'.head = ov.head
          /\ ov'.visible = IF n < ov.visible THEN n ELSE ov.visible
          /\ \A j \in Chunk : ov'.page[j] = IF j < n THEN ov.page[j] ELSE NoPage
      BY <1>2, <2>1, <3>1, TruncateToFields DEF Truncate
    <3>3. ASSUME NEW j \in Chunk, j \notin touched'
          PROVE  /\ j < ov'.size <=> j < committed'.size
                 /\ j < ov'.size => ReadChunk(ov', base', j) = committed'.data[j]
      <4>1. j \notin touched /\ j \in Int /\ n \in Int /\ ~ (n <= j)
        BY <3>1, <3>3, NAssumption DEF Chunk, Size
      <4>2. j < n /\ j < ov.size /\ (j < ov'.visible <=> j < ov.visible)
        BY <2>1, <3>1, <3>2, <4>1
      <4>3. ReadChunk(ov', base', j) = ReadChunk(ov, base, j)
        BY <3>1, <3>2, <4>2, BelowReads
      <4> QED
        BY <2>3, <3>1, <3>2, <4>1, <4>2, <4>3 DEF ReadInv, Unchanged
    <3> QED
      BY <3>3 DEF Unchanged
  <2> QED
    BY <2>2, <2>3
<1>3. CASE Commit
  <2>1. ov \in Overlay /\ ov.size \in 0 .. N /\ ov.visible \in 0 .. N /\ txn \in Nat
        /\ base \in File /\ committed \in File /\ committed.size \in 0 .. N
    BY ReadTypes DEF ReadInv
  <2>2. committed' = Content(ov, base) /\ ov' = ov /\ base' = base
    BY <1>3 DEF Commit, memoryVars, fileVars
  <2>3. /\ committed'.size = ov.size
        /\ \A j \in Chunk : committed'.data[j] = IF j < ov.size THEN ReadChunk(ov, base, j) ELSE 0
    BY <2>1, <2>2, ContentFields
  <2> QED
    BY <2>2, <2>3 DEF Unchanged
<1>4. CASE Rollback
  <2>1. ov \in Overlay /\ ov.size \in 0 .. N /\ ov.visible \in 0 .. N /\ txn \in Nat
        /\ base \in File /\ committed \in File /\ committed.size \in 0 .. N
    BY ReadTypes DEF ReadInv
  <2>2. CASE mode = "closed"
    BY <1>4, <2>2 DEF Rollback, Unchanged
  <2>3. CASE mode # "closed"
    <3>1. /\ ov'.size = committed.size /\ ov'.head = ov.head
          /\ ov'.visible = IF committed.size < ov.visible THEN committed.size ELSE ov.visible
          /\ \A j \in Chunk : ov'.page[j] = IF committed.size <= j THEN NoPage
                            ELSE IF j \in touched THEN committed.data[j] ELSE ov.page[j]
      BY <1>4, <2>1, RestoreFields DEF Rollback
    <3>2. base' = base /\ committed' = committed
      BY <1>4 DEF Rollback, fileVars
    <3>3. ASSUME NEW j \in Chunk, j < committed.size
          PROVE  ReadChunk(ov', base', j) = committed.data[j]
      <4>1. ~ (committed.size <= j) /\ (j < ov'.visible <=> j < ov.visible)
        BY <2>1, <3>1, <3>3 DEF Chunk
      <4>2. CASE j \in touched
        <5>1. ov'.page[j] = committed.data[j] /\ committed.data[j] # NoPage
          BY <2>1, <3>1, <4>1, <4>2, NoPageAssumption DEF File
        <5> QED
          BY <5>1 DEF ReadChunk
      <4>3. CASE j \notin touched
        <5>1. ov'.page[j] = ov.page[j]
          BY <3>1, <4>1, <4>3
        <5>2. ReadChunk(ov', base', j) = ReadChunk(ov, base, j)
          BY <3>1, <3>2, <4>1, <5>1, BelowReads
        <5> QED
          BY <2>3, <3>3, <4>3, <5>2 DEF ReadInv, Unchanged
      <4> QED
        BY <4>2, <4>3
    <3> QED
      BY <3>1, <3>2, <3>3 DEF Unchanged
  <2> QED
    BY <2>2, <2>3
<1>5. ASSUME NEW i \in Chunk, Apply(i)
      PROVE  Unchanged'
  <2>1. base \in File /\ ZeroPast(base) /\ ov.page[i] # NoPage /\ mode # "closed"
    BY <1>5 DEF Apply, ReadInv, ZeroPastEnd, Basics, BaseType, Ready, Control, Replaying
  <2>2. /\ ov' = ov /\ committed' = committed /\ touched' = touched
        /\ WriteBase(i, ov.page[i])
    BY <1>5 DEF Apply, memoryVars, clientVars
  <2>3. \A j \in Chunk : j # i => FileRead(base', j) = FileRead(base, j)
    BY <2>1, <2>2, WriteBaseFields
  <2>4. \A j \in Chunk : ReadChunk(ov', base', j) = ReadChunk(ov, base, j)
    BY <2>1, <2>2, <2>3, ReadsSame
  <2> QED
    BY <2>1, <2>2, <2>4, SameReads
<1>6. ASSUME NEW i \in Chunk, NEW v \in {base.data[i], ov.page[i], Torn}, ApplyFails(i, v)
      PROVE  Unchanged'
  <2>1. base \in File /\ ZeroPast(base) /\ ov.page[i] # NoPage /\ mode # "closed"
    BY <1>6 DEF ApplyFails, ReadInv, ZeroPastEnd, Basics, BaseType, Ready, Control, Replaying
  <2>2. /\ ov' = ov /\ committed' = committed /\ touched' = touched
        /\ WriteBase(i, v)
    BY <1>6 DEF ApplyFails, memoryVars, clientVars
  <2>3. \A j \in Chunk : j # i => FileRead(base', j) = FileRead(base, j)
    BY <2>1, <2>2, WriteBaseFields
  <2>4. \A j \in Chunk : ReadChunk(ov', base', j) = ReadChunk(ov, base, j)
    BY <2>1, <2>2, <2>3, ReadsSame
  <2> QED
    BY <2>1, <2>2, <2>4, SameReads
<1>7. CASE Shrink
  <2>1. base \in File /\ ZeroPast(base) /\ mode # "closed" /\ ov.size \in Size
    BY <1>7, ReadTypes DEF Shrink, ReadInv, ZeroPastEnd, Basics, BaseType, Control, Replaying, Size
  <2>2. /\ ov' = ov /\ committed' = committed /\ touched' = touched
        /\ CutBase(ov.size) \/ base' = base
    BY <1>7 DEF Shrink, memoryVars, clientVars
  <2>3. \A j \in Chunk : j < ov.size => FileRead(base', j) = FileRead(base, j)
    BY <2>1, <2>2, CutBaseFields
  <2>4. \A j \in Chunk : j < ov.size => ReadChunk(ov', base', j) = ReadChunk(ov, base, j)
    BY <2>2, <2>3, ReadsSame
  <2> QED
    BY <2>1, <2>2, <2>4, SameReads
<1>8. CASE Settle
  <2>1. ov \in Overlay /\ ov.size \in 0 .. N /\ ov.visible \in 0 .. N /\ txn \in Nat
        /\ base \in File /\ committed \in File /\ committed.size \in 0 .. N
    BY ReadTypes DEF ReadInv
  <2>2. /\ ov' = DropStored(ov, dirty) /\ base' = base /\ mode # "closed" /\ step = "settle"
        /\ committed' = committed /\ touched' = touched /\ Live /\ dirty \subseteq Chunk
    BY <1>8, ReadTypes DEF Settle, fileVars, clientVars, ReadInv, Basics, Control, Replaying, Live,
               Writing
  <2>3. /\ ov'.size = ov.size /\ ov'.visible = ov.size
        /\ ov'.head = IF 0 < ov.size /\ ov.page[0] # NoPage THEN ov.page[0] ELSE ov.head
        /\ \A j \in Chunk : ov'.page[j] = IF j \in dirty THEN NoPage ELSE ov.page[j]
    BY <2>1, <2>2, DropStoredFields
  <2>4. ASSUME NEW j \in Chunk, j < ov.size
        PROVE  ReadChunk(ov', base', j) = ReadChunk(ov, base, j)
    <3>1. CASE j \in dirty
      <4>1. /\ ov.page[j] # NoPage /\ j < base.size /\ base.data[j] = ov.page[j]
        BY <2>2, <2>4, <3>1 DEF ReadInv, DirtyHeld, Applied
      <4>2. ReadChunk(ov', base', j) = BaseRead(ov', base', j)
        BY <2>3, <2>4, <3>1 DEF ReadChunk, FillChunk
      <4>3. FileRead(base', j) = ov.page[j]
        BY <2>2, <4>1 DEF FileRead
      <4>4. j = 0 => ov'.head = ov.page[0]
        BY <2>3, <2>4, <4>1
      <4> QED
        BY <4>1, <4>2, <4>3, <4>4 DEF BaseRead, ReadChunk
    <3>2. CASE j \notin dirty /\ ov.page[j] # NoPage
      BY <2>3, <3>2, HeldReads
    <3>3. CASE j \notin dirty /\ ov.page[j] = NoPage
      <4>1. j < ov.visible
        BY <2>2, <2>4, <3>3 DEF ReadInv, NoHoles
      <4>2. j = 0 => ov'.head = ov.head
        BY <2>3, <3>3
      <4>3. BaseRead(ov', base', j) = BaseRead(ov, base, j)
        BY <2>2, <4>2 DEF BaseRead
      <4>4. ov'.page[j] = NoPage /\ j < ov'.visible
        BY <2>3, <2>4, <3>3
      <4> QED
        BY <3>3, <4>1, <4>3, <4>4 DEF ReadChunk, FillChunk
    <3> QED
      BY <3>1, <3>2, <3>3
  <2> QED
    BY <2>2, <2>3, <2>4, SameReads
<1>9. CASE CopyToMemory
  <2>1. ov \in Overlay /\ ov.size \in 0 .. N /\ ov.visible \in 0 .. N /\ txn \in Nat
        /\ base \in File /\ committed \in File /\ committed.size \in 0 .. N
    BY ReadTypes DEF ReadInv
  <2>2. /\ ov' = Preserve(ov, base, 0 .. ov.size - 1) /\ base' = base /\ mode # "closed"
        /\ committed' = committed /\ touched' = touched
    BY <1>9 DEF CopyToMemory, fileVars, clientVars, ReadInv, Basics, Control, Replaying
  <2>3. ov'.size = ov.size
    BY <2>1, <2>2, PreserveFields
  <2>4. \A i \in Chunk : ReadChunk(ov', base', i) = ReadChunk(ov, base, i)
    BY <2>1, <2>2, PreserveReads
  <2> QED
    BY <2>2, <2>3, <2>4, SameReads
<1>10. ASSUME NEW chunks \in SUBSET Chunk, CopyFails(chunks)
       PROVE  Unchanged'
  <2>1. ov \in Overlay /\ ov.size \in 0 .. N /\ ov.visible \in 0 .. N /\ txn \in Nat
        /\ base \in File /\ committed \in File /\ committed.size \in 0 .. N
    BY ReadTypes DEF ReadInv
  <2>2. /\ ov' = Preserve(ov, base, chunks) /\ base' = base /\ mode # "closed"
        /\ committed' = committed /\ touched' = touched
    BY <1>10 DEF CopyFails, fileVars, clientVars, ReadInv, Basics, Control, Replaying
  <2>3. ov'.size = ov.size
    BY <2>1, <2>2, PreserveFields
  <2>4. \A i \in Chunk : ReadChunk(ov', base', i) = ReadChunk(ov, base, i)
    BY <2>1, <2>2, PreserveReads
  <2> QED
    BY <2>2, <2>3, <2>4, SameReads
<1>11. CASE LetGo
  <2>1. ov \in Overlay /\ ov.size \in 0 .. N /\ ov.visible \in 0 .. N /\ txn \in Nat
        /\ base \in File /\ committed \in File /\ committed.size \in 0 .. N
    BY ReadTypes DEF ReadInv
  <2>2. CASE caller = "closing"
    BY <1>11, <2>2 DEF LetGo, Closed, Unchanged
  <2>3. CASE caller # "closing"
    <3>1. ov'.size = ov.size /\ ov'.page = ov.page /\ committed' = committed /\ touched' = touched
      BY <1>11, <2>1, <2>3, NoBaseFields DEF LetGo
    <3>2. mode # "closed" /\ ((mode = "memory" /\ step \notin Stepping) \/ caller = "detaching")
      BY <1>11, <2>3 DEF LetGo, ReadInv, Basics, Control, Replaying, Stepping
    <3>3. \A i \in Chunk : i < ov.size => ReadChunk(ov', base', i) = ReadChunk(ov, base, i)
      BY <3>1, <3>2, AllHeld, HeldReads
    <3> QED
      BY <3>1, <3>2, <3>3, SameReads
  <2> QED
    BY <2>2, <2>3
<1>12. CASE Attach
  <2>1. ov \in Overlay /\ ov.size \in 0 .. N /\ ov.visible \in 0 .. N /\ txn \in Nat
        /\ base \in File /\ committed \in File /\ committed.size \in 0 .. N
    BY ReadTypes DEF ReadInv
  <2>2. /\ mode = "memory" /\ step \notin Stepping
        /\ committed' = committed /\ touched' = touched
    BY <1>12 DEF Attach, clientVars, Idle, Stepping
  <2>3. /\ ov'.size = ov.size
        /\ \A i \in Chunk : ov'.page[i] = IF i < ov.size /\ ov.page[i] = NoPage
                                          THEN 0 ELSE ov.page[i]
    BY <1>12, <2>1, FillHolesFields DEF Attach
  <2>4. \A i \in Chunk : i < ov.size => ReadChunk(ov', base', i) = ReadChunk(ov, base, i)
    BY <2>2, <2>3, AllHeld, HeldReads
  <2> QED
    BY <2>2, <2>3, <2>4, SameReads
<1>13. CASE ReplayRecord
  <2>1. mode' = mode /\ ov' = ov /\ committed' = committed /\ touched' = touched
        /\ (mode = "closed" \/ (mode = "memory" /\ step \notin Stepping))
    BY <1>13 DEF ReplayRecord, memoryVars, clientVars, ReadInv, Basics, Control, Replaying, Stepping
  <2>2. CASE mode = "closed"
    BY <2>1, <2>2 DEF Unchanged
  <2>3. CASE mode # "closed"
    <3>1. \A i \in Chunk : i < ov.size => ReadChunk(ov', base', i) = ReadChunk(ov, base, i)
      BY <2>1, <2>3, AllHeld, HeldReads
    <3> QED
      BY <2>1, <2>3, <3>1, SameReads
  <2> QED
    BY <2>2, <2>3
<1>14. CASE ReplayClear
  <2>1. ov \in Overlay /\ ov.size \in 0 .. N /\ ov.visible \in 0 .. N /\ txn \in Nat
        /\ base \in File /\ committed \in File /\ committed.size \in 0 .. N
    BY ReadTypes DEF ReadInv
  <2>2. CASE caller = "open"
    <3>1. ov' = Opened(base) /\ base' = base /\ committed' = Content(Opened(base), base)
      BY <1>14, <2>2 DEF ReplayClear
    <3>2. Opened(base) \in Overlay
      BY <2>1, OpenedType
    <3>3. /\ committed'.size = ov'.size
          /\ \A i \in Chunk : committed'.data[i]
                              = IF i < ov'.size THEN ReadChunk(ov', base', i) ELSE 0
      BY <2>1, <3>1, <3>2, ContentFields
    <3> QED
      BY <3>3 DEF Unchanged
  <2>3. CASE caller # "open"
    BY <1>14, <2>3 DEF ReplayClear, ReadInv, Unchanged
  <2> QED
    BY <2>2, <2>3
<1>15. CASE CheckpointSync \/ ReplaySync
  <2>1. base' = base /\ mode' = mode /\ ov' = ov /\ committed' = committed /\ touched' = touched
    BY <1>15 DEF CheckpointSync, ReplaySync, SyncBase, memoryVars, clientVars
  <2> QED
    BY <2>1 DEF ReadInv, Unchanged
<1>16. CASE NothingToStore \/ PreserveFails \/ AppendFails \/
            JournalSyncFails \/ ShrinkFails \/ SettleFails \/
            CheckpointSkipped \/ Clear \/ ClearFails
  <2>1. /\ ov' = ov /\ base' = base /\ mode # "closed"
        /\ committed' = committed /\ touched' = touched
    BY <1>16 DEF NothingToStore, PreserveFails, AppendFails, JournalSyncFails, ShrinkFails,
            SettleFails, CheckpointSkipped, Clear, ClearFails, fileVars, clientVars, ReadInv,
            Basics, Control, Replaying
  <2> QED
    BY <2>1, SameReads
<1>17. CASE Begin \/ Flush \/ Detach \/ Close
  BY <1>17
  DEF Begin, Flush, Detach, Close, CallWriteBack, Unchanged, Idle, ReadInv,
      memoryVars, fileVars, clientVars
<1>18. CASE CloseMemory \/ Open \/ Append \/ JournalSynced
  BY <1>18
  DEF CloseMemory, Open, Append, JournalSynced, Closed, Unchanged, Idle,
      ReadInv, memoryVars, fileVars, clientVars
<1>19. CASE ReplayEnds \/ OpenFails \/ Crash
  BY <1>19
  DEF ReplayEnds, OpenFails, Crash, Closed, Unchanged, Idle, ReadInv,
      memoryVars, fileVars, clientVars
<1>20. CASE UNCHANGED vars
  BY <1>20
  DEF vars, Unchanged, Idle, ReadInv, memoryVars, fileVars, clientVars
<1> QED
  BY <1>1, <1>2, <1>3, <1>4, <1>5, <1>6, <1>7, <1>8, <1>9, <1>10, <1>11,
     <1>12, <1>13, <1>14, <1>15, <1>16, <1>17, <1>18, <1>19, <1>20
  DEF Next, Client, WriteBack, Recovery, Failure

(* Between transactions, nothing is touched. *)
LEMMA OutsideStep == ReadInv /\ [Next]_vars => Outside'
<1> SUFFICES ASSUME ReadInv, [Next]_vars PROVE Outside'
  OBVIOUS
<1>1. CASE Begin
  BY <1>1 DEF Begin, Outside, InTxn
<1>2. ASSUME NEW i \in Chunk, Write(i)
      PROVE  Outside'
  BY <1>2 DEF Write, Outside, InTxn
<1>3. ASSUME NEW n \in Size \ {0}, Truncate(n)
      PROVE  Outside'
  BY <1>3 DEF Truncate, Outside, InTxn
<1>4. CASE Commit
  <2>1. ov \in Overlay /\ ov.size \in 0 .. N /\ ov.visible \in 0 .. N /\ txn \in Nat
        /\ base \in File /\ committed \in File /\ committed.size \in 0 .. N
    BY ReadTypes DEF ReadInv
  <2>2. committed'.size = ov.size /\ ov' = ov
    BY <1>4, <2>1, ContentFields DEF Commit, memoryVars
  <2> QED
    BY <1>4, <2>2 DEF Commit, Outside
<1>5. CASE Rollback
  <2>1. ov \in Overlay /\ ov.size \in 0 .. N /\ ov.visible \in 0 .. N /\ txn \in Nat
        /\ base \in File /\ committed \in File /\ committed.size \in 0 .. N
    BY ReadTypes DEF ReadInv
  <2>2. ov'.size = committed.size
    BY <1>5, <2>1, RestoreFields DEF Rollback
  <2> QED
    BY <1>5, <2>2 DEF Rollback, Outside
<1>6. CASE Settle
  <2>1. ov'.size = ov.size
    <3>1. ov \in Overlay /\ base \in File
      BY ReadTypes DEF ReadInv
    <3> QED
      BY <1>6, <3>1, DropStoredFields DEF Settle
  <2> QED
    BY <1>6, <2>1 DEF Settle, AfterWriteBack, clientVars, ReadInv, Outside, InTxn, Basics, Control,
            Replaying
<1>7. CASE CopyToMemory
  <2>1. ov'.size = ov.size
    <3>1. ov \in Overlay /\ base \in File
      BY ReadTypes DEF ReadInv
    <3> QED
      BY <1>7, <3>1, PreserveFields DEF CopyToMemory
  <2> QED
    BY <1>7, <2>1 DEF CopyToMemory, clientVars, ReadInv, Outside, InTxn
<1>8. ASSUME NEW chunks \in SUBSET Chunk, CopyFails(chunks)
      PROVE  Outside'
  <2>1. ov'.size = ov.size
    <3>1. ov \in Overlay /\ base \in File
      BY ReadTypes DEF ReadInv
    <3> QED
      BY <1>8, <3>1, PreserveFields DEF CopyFails
  <2> QED
    BY <1>8, <2>1 DEF CopyFails, clientVars, ReadInv, Outside, InTxn
<1>9. CASE LetGo
  <2>1. caller # "closing" => ov'.size = ov.size
    <3>1. ov \in Overlay /\ base \in File
      BY ReadTypes DEF ReadInv
    <3> QED
      BY <1>9, <3>1, NoBaseFields DEF LetGo
  <2> QED
    BY <1>9, <2>1 DEF LetGo, Closed, ReadInv, Outside, InTxn, Basics, Control, Replaying
<1>10. CASE Attach
  <2>1. ov'.size = ov.size
    <3>1. ov \in Overlay /\ base \in File
      BY ReadTypes DEF ReadInv
    <3> QED
      BY <1>10, <3>1, FillHolesFields DEF Attach
  <2> QED
    BY <1>10, <2>1 DEF Attach, clientVars, ReadInv, Outside, InTxn, Idle
<1>11. CASE ReplayClear
  <2>1. caller = "open" => ov'.size = committed'.size
    <3>1. base \in File
      BY ReadTypes DEF ReadInv
    <3> QED
      BY <1>11, <3>1 DEF ReplayClear, Content
  <2> QED
    BY <1>11, <2>1 DEF ReplayClear, ReadInv, Outside, InTxn
<1>12. CASE NothingToStore \/ PreserveFails \/ AppendFails \/
            JournalSyncFails \/ ShrinkFails \/ SettleFails \/
            CheckpointSkipped \/ Clear \/ ClearFails
  <2>1. /\ ov' = ov /\ mode # "closed" /\ ~InTxn
        /\ committed' = committed /\ touched' = touched
    BY <1>12 DEF NothingToStore, PreserveFails, AppendFails, JournalSyncFails, ShrinkFails,
            SettleFails, CheckpointSkipped, Clear, ClearFails, fileVars, clientVars, ReadInv,
            Basics, Control, Replaying, InTxn
  <2> QED
    BY <2>1 DEF ReadInv, Outside
<1>13. ASSUME NEW i \in Chunk, NEW v \in {base.data[i], ov.page[i], Torn}, ApplyFails(i, v)
       PROVE  Outside'
  <2>1. /\ ov' = ov /\ mode # "closed" /\ ~InTxn
        /\ committed' = committed /\ touched' = touched
    BY <1>13 DEF ApplyFails, clientVars, ReadInv, Basics, Control, Replaying, InTxn
  <2> QED
    BY <2>1 DEF ReadInv, Outside
<1>14. CASE Flush \/ Detach \/ Close \/ CloseMemory \/ Open
  BY <1>14
  DEF Flush, Detach, Close, CloseMemory, Open, CallWriteBack, Closed,
      Outside, InTxn, Idle, ReadInv, memoryVars, clientVars
<1>15. CASE Append \/ JournalSynced \/ Shrink \/ CheckpointSync \/
            ReplayRecord
  BY <1>15
  DEF Append, JournalSynced, Shrink, CheckpointSync, ReplayRecord, Outside,
      InTxn, Idle, ReadInv, memoryVars, clientVars
<1>16. CASE ReplayEnds \/ ReplaySync \/ OpenFails \/ Crash
  BY <1>16
  DEF ReplayEnds, ReplaySync, OpenFails, Crash, Closed, Outside, InTxn,
      Idle, ReadInv, memoryVars, clientVars
<1>17. ASSUME NEW i \in Chunk, Apply(i)
       PROVE  Outside'
  BY <1>17
  DEF Apply, Outside, InTxn, Idle, ReadInv, memoryVars, clientVars
<1>18. CASE UNCHANGED vars
  BY <1>18
  DEF vars, Outside, InTxn, Idle, ReadInv, memoryVars, clientVars
<1> QED
  BY <1>1, <1>2, <1>3, <1>4, <1>5, <1>6, <1>7, <1>8, <1>9, <1>10, <1>11,
     <1>12, <1>13, <1>14, <1>15, <1>16, <1>17, <1>18
  DEF Next, Client, WriteBack, Recovery, Failure

LEMMA ReadInvInit == Init => ReadInv
<1> SUFFICES ASSUME Init PROVE ReadInv
  OBVIOUS
<1>1. Basics
  BY BasicsInit
<1>2. NoHoles /\ Detached /\ DirtyHeld /\ Applied /\ Unchanged /\ Outside
  BY EmptyType DEF Init, NoHoles, Detached, DirtyHeld, Applied, Unchanged, Outside, Live,
                   Writing, Stepping, EmptyOverlay, InTxn
<1>3. ZeroPast(base)
  <2>1. PICK n \in Size : base = [size |-> n, data |-> Cut([i \in Chunk |-> Old], n)]
    BY DEF Init
  <2>2. \A i \in Chunk : n <= i => ~ (i < n)
    BY NAssumption DEF Size, Chunk
  <2> QED
    BY <2>1, <2>2 DEF ZeroPast, Cut
<1>4. ZeroPast(committed)
  BY DEF Init, ZeroPast, NoFile
<1> QED
  BY <1>1, <1>2, <1>3, <1>4 DEF ReadInv, ZeroPastEnd

LEMMA ReadInvStep == NoLeaf /\ ReadInv /\ [Next]_vars => ReadInv'
<1>1. ReadInv => Basics
  BY DEF ReadInv
<1> QED
  BY <1>1, BasicsStep, ZeroPastEndStep, NoHolesStep, DetachedStep, DirtyHeldStep, AppliedStep,
     UnchangedStep, OutsideStep, Zenon DEF ReadInv

LEMMA AlwaysReadInv == ASSUME NoLeaf PROVE Spec => []ReadInv
<1>1. ReadInv /\ [Next]_vars => ReadInv'
  BY ReadInvStep
<1> QED
  BY <1>1, ReadInvInit, PTL DEF Spec

(* Outside a transaction, an open file reads as the last commit.           *)
LEMMA ReadsCommitted ==
  ASSUME ReadInv, mode # "closed", ~InTxn
  PROVE  Content(ov, base) = committed
<1>1. ov \in Overlay /\ base \in File /\ committed \in File
  BY ReadTypes DEF ReadInv
<1>2. /\ Content(ov, base) \in File /\ Content(ov, base).size = ov.size
      /\ \A i \in Chunk : Content(ov, base).data[i]
                          = IF i < ov.size THEN ReadChunk(ov, base, i) ELSE 0
  BY <1>1, ContentType, ContentFields
<1>3. touched = {} /\ ov.size = committed.size
  BY DEF ReadInv, Outside
<1>4. ASSUME NEW i \in Chunk
      PROVE  Content(ov, base).data[i] = committed.data[i]
  <2>1. CASE i < ov.size
    BY <1>2, <1>3, <2>1 DEF ReadInv, Unchanged
  <2>2. CASE ~ (i < ov.size)
    <3>1. committed.size <= i
      BY <1>3, <2>2, ReadTypes DEF ReadInv, Chunk
    <3> QED
      BY <1>2, <2>2, <3>1 DEF ReadInv, ZeroPastEnd, ZeroPast
  <2> QED
    BY <2>1, <2>2
<1> QED
  BY <1>1, <1>2, <1>3, <1>4, SameFile

(* At every step of a commit's write-back, of a flush, a checkpoint, a     *)
(* detach and an attach, and after any of them failed, the database reads  *)
(* as its last commit, if SQLite leaves no page unwritten.                 *)
THEOREM AlwaysReadsLastCommit ==
  ASSUME NoLeaf
  PROVE  Spec => []ReadsLastCommit
<1>1. ReadInv => ReadsLastCommit
  BY ReadsCommitted DEF ReadsLastCommit, Seen, InTxn
<1> QED
  BY <1>1, AlwaysReadInv, PTL

-----------------------------------------------------------------------------
(* What is stored                                                          *)

(* Chunks that need no write-back are in the base file.                    *)
CleanIsStored ==
  /\ Live => \A i \in Chunk : i < ov.size /\ i \notin dirty => i < stored
  /\ Live /\ dirty = {} => committed.size <= stored

(* What a transaction touches will be written back, or is past the end.    *)
TouchedIsDirty ==
  mode = "open" /\ InTxn => \A i \in touched : i \in dirty \/ ov.size <= i

(* Only the last commit may be found in the file, or there is work to do.  *)
StoredOrNot ==
  /\ Live => allowed = {committed} \/ dirty # {} \/ committed.size < stored
  /\ step \in {"apply", "settle"} => allowed = {committed}

(* What rcWrite says at each step.                                         *)
OkIsStored ==
  /\ Live /\ rc = "ok" =>
       /\ step \in {"idle", "txn", "cut"} => allowed = {committed}
       /\ step \in {"copy", "checkpoint", "clear"} => dirty = {} /\ ov.size = stored
  /\ step \in Stepping /\ caller \notin {"closing", "detaching"} => rc = "ok"

StoreInv == ReadInv /\ CleanIsStored /\ TouchedIsDirty /\ StoredOrNot /\ OkIsStored

(* Only a recovery that succeeded brings a base file to an overlay.        *)
LEMMA LiveStep == Basics /\ [Next]_vars => (Live' => Live \/ step = "replayclear")
<1> SUFFICES ASSUME Basics, [Next]_vars PROVE (Live' => Live \/ step = "replayclear")
  OBVIOUS
<1>1. CASE ReplayClear
  BY <1>1 DEF ReplayClear
<1>2. CASE Begin \/ Commit \/ Rollback \/ Flush
  BY <1>2
  DEF Begin, Commit, Rollback, Flush, CallWriteBack, Live, Idle, Basics,
      Control, Writing, Stepping, Replaying, memoryVars, fileVars,
      clientVars
<1>3. CASE Detach \/ Close \/ CloseMemory \/ Open
  BY <1>3
  DEF Detach, Close, CloseMemory, Open, CallWriteBack, Closed, Live, Idle,
      Basics, Control, Writing, Stepping, Replaying, memoryVars, fileVars,
      clientVars
<1>4. CASE Attach \/ NothingToStore \/ Append \/ JournalSynced
  BY <1>4
  DEF Attach, NothingToStore, Append, JournalSynced, AfterWriteBack, Live,
      Idle, Basics, Control, Writing, Stepping, Replaying, memoryVars,
      fileVars, clientVars
<1>5. CASE Shrink \/ Settle \/ CheckpointSync \/ Clear
  BY <1>5
  DEF Shrink, Settle, CheckpointSync, Clear, AfterWriteBack,
      AfterCheckpoint, Live, Idle, Basics, Control, Writing, Stepping,
      Replaying, memoryVars, fileVars, clientVars
<1>6. CASE CopyToMemory \/ LetGo \/ CheckpointSkipped \/ ReplayRecord
  BY <1>6
  DEF CopyToMemory, LetGo, CheckpointSkipped, ReplayRecord, Closed,
      AfterCheckpoint, AfterWriteBack, Live, Idle, Basics, Control, Writing,
      Stepping, Replaying, memoryVars, fileVars, clientVars
<1>7. CASE ReplayEnds \/ ReplaySync \/ PreserveFails \/ AppendFails
  BY <1>7
  DEF ReplayEnds, ReplaySync, PreserveFails, AppendFails, AfterWriteBack,
      Live, Idle, Basics, Control, Writing, Stepping, Replaying, memoryVars,
      fileVars, clientVars
<1>8. CASE JournalSyncFails \/ ShrinkFails \/ SettleFails \/ ClearFails
  BY <1>8
  DEF JournalSyncFails, ShrinkFails, SettleFails, ClearFails,
      AfterWriteBack, AfterCheckpoint, Live, Idle, Basics, Control, Writing,
      Stepping, Replaying, memoryVars, fileVars, clientVars
<1>9. CASE OpenFails \/ Crash
  BY <1>9
  DEF OpenFails, Crash, Closed, Live, Idle, Basics, Control, Writing,
      Stepping, Replaying, memoryVars, fileVars, clientVars
<1>10. ASSUME NEW i \in Chunk, Write(i)
       PROVE  (Live' => Live \/ step = "replayclear")
  BY <1>10
  DEF Write, Live, Idle, Basics, Control, Writing, Stepping, Replaying,
      memoryVars, fileVars, clientVars
<1>11. ASSUME NEW n \in Size \ {0}, Truncate(n)
       PROVE  (Live' => Live \/ step = "replayclear")
  BY <1>11
  DEF Truncate, Live, Idle, Basics, Control, Writing, Stepping, Replaying,
      memoryVars, fileVars, clientVars
<1>12. ASSUME NEW i \in Chunk, Apply(i)
       PROVE  (Live' => Live \/ step = "replayclear")
  BY <1>12
  DEF Apply, Live, Idle, Basics, Control, Writing, Stepping, Replaying,
      memoryVars, fileVars, clientVars
<1>13. ASSUME NEW i \in Chunk, NEW v \in {base.data[i], ov.page[i], Torn}, ApplyFails(i, v)
       PROVE  (Live' => Live \/ step = "replayclear")
  BY <1>13
  DEF ApplyFails, AfterWriteBack, Live, Idle, Basics, Control, Writing,
      Stepping, Replaying, memoryVars, fileVars, clientVars
<1>14. ASSUME NEW chunks \in SUBSET Chunk, CopyFails(chunks)
       PROVE  (Live' => Live \/ step = "replayclear")
  BY <1>14
  DEF CopyFails, Live, Idle, Basics, Control, Writing, Stepping, Replaying,
      memoryVars, fileVars, clientVars
<1>15. CASE UNCHANGED vars
  BY <1>15
  DEF vars, Live, Idle, Basics, Control, Writing, Stepping, Replaying,
      memoryVars, fileVars, clientVars
<1> QED
  BY <1>1, <1>2, <1>3, <1>4, <1>5, <1>6, <1>7, <1>8, <1>9, <1>10, <1>11,
     <1>12, <1>13, <1>14, <1>15
  DEF Next, Client, WriteBack, Recovery, Failure

LEMMA StoreTypes ==
  ASSUME ReadInv
  PROVE  /\ ov \in Overlay /\ ov.size \in 0 .. N /\ stored \in 0 .. N /\ dirty \subseteq Chunk
         /\ txn \in Nat /\ touched \subseteq Chunk
         /\ base \in File /\ committed \in File /\ committed.size \in 0 .. N
         /\ base.size \in 0 .. N
BY ReadTypes DEF ReadInv, Basics, MemoryType, Size

(* With nothing to write back, the base file is as long as the overlay. *)
LEMMA CleanSize ==
  ASSUME StoreInv, Live, dirty = {}
  PROVE  ov.size <= stored
<1>1. ov.size \in 0 .. N /\ stored \in 0 .. N
  BY StoreTypes DEF StoreInv
<1>2. CASE ov.size > 0
  <2>1. ov.size - 1 \in Chunk /\ ov.size - 1 < ov.size
    BY <1>1, <1>2, NAssumption DEF Chunk
  <2>2. ov.size - 1 < stored
    BY <2>1 DEF StoreInv, CleanIsStored
  <2> QED
    BY <1>1, <2>2
<1> QED
  BY <1>1, <1>2

(* What is not dirty is stored. *)
LEMMA CleanIsStoredStep == NoLeaf /\ StoreInv /\ [Next]_vars => CleanIsStored'
<1> SUFFICES ASSUME NoLeaf /\ StoreInv, [Next]_vars PROVE CleanIsStored'
  OBVIOUS
<1>0. Live' => Live \/ step = "replayclear"
  BY LiveStep DEF StoreInv, ReadInv
<1>1. ASSUME NEW i \in Chunk, Write(i)
      PROVE  CleanIsStored'
  <2>1. ov \in Overlay /\ ov.size \in 0 .. N /\ stored \in 0 .. N /\ dirty \subseteq Chunk /\ txn \in Nat
        /\ touched \subseteq Chunk
        /\ base \in File /\ committed \in File /\ committed.size \in 0 .. N
    BY StoreTypes DEF StoreInv
  <2>2. /\ ov'.size = IF i + 1 > ov.size THEN i + 1 ELSE ov.size
        /\ i <= ov.size /\ stored' = stored /\ committed' = committed
        /\ mode' = mode /\ step = "txn" /\ step' = "txn"
        /\ dirty' = IF mode = "open" THEN dirty \union {i} ELSE dirty
    BY <1>1, <2>1, WriteChunkFields DEF Write, MarkDirty, NoLeaf
  <2>3. ASSUME Live'
        PROVE  Live /\ mode = "open"
    BY <2>2, <2>3 DEF Live, Writing, Stepping
  <2>4. ASSUME Live', NEW j \in Chunk, j < ov'.size, j \notin dirty'
        PROVE  j < stored
    <3>1. j # i /\ j \notin dirty /\ j \in Int /\ i \in Int
      BY <2>2, <2>3, <2>4, NAssumption DEF Chunk
    <3>2. j < ov.size
      BY <2>1, <2>2, <2>4, <3>1
    <3> QED
      BY <2>3, <2>4, <3>1, <3>2 DEF StoreInv, CleanIsStored
  <2>5. ~ (Live' /\ dirty' = {})
    BY <2>2, <2>3
  <2> QED
    BY <2>2, <2>4, <2>5 DEF CleanIsStored
<1>2. ASSUME NEW n \in Size \ {0}, Truncate(n)
      PROVE  CleanIsStored'
  <2>1. ov \in Overlay /\ ov.size \in 0 .. N /\ stored \in 0 .. N /\ dirty \subseteq Chunk /\ txn \in Nat
        /\ touched \subseteq Chunk
        /\ base \in File /\ committed \in File /\ committed.size \in 0 .. N
    BY StoreTypes DEF StoreInv
  <2>2. /\ n \in Size /\ n < ov.size /\ ov'.size = n
        /\ stored' = stored /\ committed' = committed /\ dirty' = dirty
    BY <1>2, <2>1, TruncateToFields DEF Truncate
  <2>3. Live' => Live
    BY <1>2, <1>0 DEF Truncate
  <2>4. \A j \in Chunk : j < n => j < ov.size
    BY <2>1, <2>2, NAssumption DEF Chunk, Size
  <2> QED
    BY <2>2, <2>3, <2>4 DEF StoreInv, CleanIsStored
<1>3. CASE Commit
  <2>1. ov \in Overlay /\ ov.size \in 0 .. N /\ stored \in 0 .. N /\ dirty \subseteq Chunk /\ txn \in Nat
        /\ touched \subseteq Chunk
        /\ base \in File /\ committed \in File /\ committed.size \in 0 .. N
    BY StoreTypes DEF StoreInv
  <2>2. committed'.size = ov.size /\ ov' = ov /\ dirty' = dirty /\ stored' = stored
    BY <1>3, <2>1, ContentFields DEF Commit, memoryVars
  <2>3. Live' => Live
    BY <1>3, <1>0 DEF Commit
  <2> QED
    BY <2>2, <2>3, CleanSize DEF StoreInv, CleanIsStored
<1>4. CASE Rollback
  <2>1. ov \in Overlay /\ ov.size \in 0 .. N /\ stored \in 0 .. N /\ dirty \subseteq Chunk /\ txn \in Nat
        /\ touched \subseteq Chunk
        /\ base \in File /\ committed \in File /\ committed.size \in 0 .. N
    BY StoreTypes DEF StoreInv
  <2>2. /\ ov'.size = committed.size /\ stored' = stored /\ committed' = committed
        /\ mode' = mode /\ step' = "idle" /\ step \in {"txn", "cut"}
        /\ dirty' = IF mode = "open" THEN dirty \union {i \in touched : i < committed.size}
                    ELSE dirty
    BY <1>4, <2>1, RestoreFields DEF Rollback, MarkDirty
  <2>3. ASSUME Live'
        PROVE  Live /\ mode = "open"
    BY <2>2, <2>3 DEF Live, Writing, Stepping
  <2>4. ASSUME Live', NEW j \in Chunk, j < ov'.size, j \notin dirty'
        PROVE  j < stored
    <3>1. j \notin touched /\ j \notin dirty
      BY <2>2, <2>3, <2>4
    <3>2. j < ov.size
      BY <2>2, <2>3, <2>4, <3>1 DEF StoreInv, ReadInv, Unchanged
    <3> QED
      BY <2>3, <2>4, <3>1, <3>2 DEF StoreInv, CleanIsStored
  <2>5. Live' /\ dirty' = {} => dirty = {}
    BY <2>2, <2>3
  <2> QED
    BY <2>2, <2>3, <2>4, <2>5 DEF StoreInv, CleanIsStored
<1>5. CASE Settle
  <2>1. ov \in Overlay /\ ov.size \in 0 .. N /\ stored \in 0 .. N /\ dirty \subseteq Chunk /\ txn \in Nat
        /\ touched \subseteq Chunk
        /\ base \in File /\ committed \in File /\ committed.size \in 0 .. N
    BY StoreTypes DEF StoreInv
  <2>2. ov'.size = ov.size /\ stored' = ov.size /\ committed' = committed /\ ~InTxn
        /\ mode # "closed"
    BY <1>5, <2>1, DropStoredFields DEF Settle, clientVars, InTxn, StoreInv, ReadInv, Basics, Control,
              Replaying
  <2>3. committed.size = ov.size
    BY <2>2 DEF StoreInv, ReadInv, Outside
  <2> QED
    BY <2>1, <2>2, <2>3 DEF CleanIsStored
<1>6. CASE LetGo \/ Crash \/ CloseMemory \/ Attach \/ Open \/ OpenFails
  <2>1. ~ Live'
    BY <1>6 DEF CloseMemory, LetGo, Crash, Attach, Open, OpenFails, Closed, Idle, Live, Writing, Stepping, StoreInv,
            ReadInv, Basics, Control, Replaying
  <2> QED
    BY <2>1 DEF CleanIsStored
<1>7. CASE CopyToMemory
  <2>1. ov \in Overlay /\ ov.size \in 0 .. N /\ stored \in 0 .. N /\ dirty \subseteq Chunk /\ txn \in Nat
        /\ touched \subseteq Chunk
        /\ base \in File /\ committed \in File /\ committed.size \in 0 .. N
    BY StoreTypes DEF StoreInv
  <2>2. ov'.size = ov.size /\ dirty' = dirty /\ stored' = stored /\ committed' = committed
        /\ Live
    BY <1>7, <2>1, PreserveFields DEF CopyToMemory, clientVars, StoreInv, ReadInv, Basics, Control, Replaying, Live
  <2> QED
    BY <2>2 DEF StoreInv, CleanIsStored
<1>8. ASSUME NEW chunks \in SUBSET Chunk, CopyFails(chunks)
      PROVE  CleanIsStored'
  <2>1. ov \in Overlay /\ ov.size \in 0 .. N /\ stored \in 0 .. N /\ dirty \subseteq Chunk /\ txn \in Nat
        /\ touched \subseteq Chunk
        /\ base \in File /\ committed \in File /\ committed.size \in 0 .. N
    BY StoreTypes DEF StoreInv
  <2>2. ov'.size = ov.size /\ dirty' = dirty /\ stored' = stored /\ committed' = committed
        /\ Live
    BY <1>8, <2>1, PreserveFields DEF CopyFails, clientVars, StoreInv, ReadInv, Basics, Control, Replaying, Live
  <2> QED
    BY <2>2 DEF StoreInv, CleanIsStored
<1>9. CASE ReplayClear
  <2>1. ov \in Overlay /\ ov.size \in 0 .. N /\ stored \in 0 .. N /\ dirty \subseteq Chunk /\ txn \in Nat
        /\ touched \subseteq Chunk
        /\ base \in File /\ committed \in File /\ committed.size \in 0 .. N
    BY StoreTypes DEF StoreInv
  <2>2. stored' = base.size
    BY <1>9 DEF ReplayClear
  <2>3. CASE caller = "open"
    <3>1. ov'.size = base.size /\ committed'.size = base.size
      BY <1>9, <2>3 DEF ReplayClear, Opened, Content
    <3> QED
      BY <2>1, <2>2, <3>1, StoreTypes DEF CleanIsStored, StoreInv
  <2>4. CASE caller # "open"
    <3>1. /\ ov' = ov /\ committed' = committed /\ dirty' = 0 .. ov.size - 1 /\ ~InTxn
          /\ mode # "closed"
      BY <1>9, <2>4 DEF ReplayClear, InTxn, StoreInv, ReadInv, Basics, Control, Replaying
    <3>2. \A j \in Chunk : j < ov.size => j \in dirty'
      BY <2>1, <3>1, NAssumption DEF Chunk
    <3>3. committed.size = ov.size
      BY <3>1 DEF StoreInv, ReadInv, Outside
    <3>4. dirty' = {} => ov.size = 0
      <4>1. ov.size > 0 => 0 \in 0 .. ov.size - 1
        BY <2>1
      <4> QED
        BY <2>1, <3>1, <4>1
    <3>5. base.size \in 0 .. N
      BY StoreTypes DEF StoreInv
    <3> QED
      BY <2>2, <3>1, <3>2, <3>3, <3>4, <3>5 DEF CleanIsStored
  <2> QED
    BY <2>3, <2>4
<1>10. CASE Begin \/ Flush \/ Detach \/ Close
  BY <1>10, <1>0
  DEF Begin, Flush, Detach, Close, CallWriteBack, CleanIsStored, StoreInv,
      Idle, memoryVars, fileVars, clientVars
<1>11. CASE NothingToStore \/ Append \/ JournalSynced \/ Shrink
  BY <1>11, <1>0
  DEF NothingToStore, Append, JournalSynced, Shrink, CleanIsStored,
      StoreInv, Idle, memoryVars, fileVars, clientVars
<1>12. CASE CheckpointSync \/ Clear \/ CheckpointSkipped \/ ReplayRecord
  BY <1>12, <1>0
  DEF CheckpointSync, Clear, CheckpointSkipped, ReplayRecord, CleanIsStored,
      StoreInv, Idle, memoryVars, fileVars, clientVars
<1>13. CASE ReplayEnds \/ ReplaySync \/ PreserveFails \/ AppendFails
  BY <1>13, <1>0
  DEF ReplayEnds, ReplaySync, PreserveFails, AppendFails, CleanIsStored,
      StoreInv, Idle, memoryVars, fileVars, clientVars
<1>14. CASE JournalSyncFails \/ ShrinkFails \/ SettleFails \/ ClearFails
  BY <1>14, <1>0
  DEF JournalSyncFails, ShrinkFails, SettleFails, ClearFails, CleanIsStored,
      StoreInv, Idle, memoryVars, fileVars, clientVars
<1>15. ASSUME NEW i \in Chunk, Apply(i)
       PROVE  CleanIsStored'
  BY <1>15, <1>0
  DEF Apply, CleanIsStored, StoreInv, Idle, memoryVars, fileVars, clientVars
<1>16. ASSUME NEW i \in Chunk, NEW v \in {base.data[i], ov.page[i], Torn}, ApplyFails(i, v)
       PROVE  CleanIsStored'
  BY <1>16, <1>0
  DEF ApplyFails, CleanIsStored, StoreInv, Idle, memoryVars, fileVars,
      clientVars
<1>17. CASE UNCHANGED vars
  BY <1>17, <1>0
  DEF vars, CleanIsStored, StoreInv, Idle, memoryVars, fileVars, clientVars,
      Live
<1> QED
  BY <1>1, <1>2, <1>3, <1>4, <1>5, <1>6, <1>7, <1>8, <1>9, <1>10, <1>11,
     <1>12, <1>13, <1>14, <1>15, <1>16, <1>17
  DEF Next, Client, WriteBack, Recovery, Failure

(* A transaction marks what it writes. *)
LEMMA TouchedIsDirtyStep == NoLeaf /\ StoreInv /\ [Next]_vars => TouchedIsDirty'
<1> SUFFICES ASSUME NoLeaf /\ StoreInv, [Next]_vars PROVE TouchedIsDirty'
  OBVIOUS
<1>1. CASE Begin
  BY <1>1 DEF Begin, clientVars, StoreInv, ReadInv, Outside, InTxn, Idle, TouchedIsDirty
<1>2. ASSUME NEW i \in Chunk, Write(i)
      PROVE  TouchedIsDirty'
  <2>1. ov \in Overlay /\ ov.size \in 0 .. N /\ stored \in 0 .. N /\ dirty \subseteq Chunk /\ txn \in Nat
        /\ touched \subseteq Chunk
        /\ base \in File /\ committed \in File /\ committed.size \in 0 .. N
    BY StoreTypes DEF StoreInv
  <2>2. /\ ov'.size = IF i + 1 > ov.size THEN i + 1 ELSE ov.size
        /\ i <= ov.size /\ touched' = touched \union {i}
        /\ mode' = mode /\ InTxn
        /\ dirty' = IF mode = "open" THEN dirty \union {i} ELSE dirty
    BY <1>2, <2>1, WriteChunkFields DEF Write, MarkDirty, NoLeaf, InTxn
  <2>3. ASSUME mode = "open", NEW j \in touched'
        PROVE  j \in dirty' \/ ov'.size <= j
    <3>1. CASE j = i
      BY <2>2, <2>3, <3>1
    <3>2. CASE j # i
      <4>1. j \in dirty \/ ov.size <= j
        BY <2>2, <2>3, <3>2 DEF StoreInv, TouchedIsDirty
      <4>2. j \in Int /\ i \in Int
        BY <2>1, <2>2, <2>3, NAssumption DEF Chunk
      <4> QED
        BY <2>1, <2>2, <2>3, <3>2, <4>1, <4>2
    <3> QED
      BY <3>1, <3>2
  <2> QED
    BY <2>2, <2>3 DEF TouchedIsDirty
<1>3. ASSUME NEW n \in Size \ {0}, Truncate(n)
      PROVE  TouchedIsDirty'
  <2>1. ov \in Overlay /\ ov.size \in 0 .. N /\ stored \in 0 .. N /\ dirty \subseteq Chunk /\ txn \in Nat
        /\ touched \subseteq Chunk
        /\ base \in File /\ committed \in File /\ committed.size \in 0 .. N
    BY StoreTypes DEF StoreInv
  <2>2. /\ n \in Int /\ n < ov.size /\ ov'.size = n /\ mode' = mode /\ InTxn
        /\ touched' = touched \union {i \in Chunk : n <= i} /\ dirty' = dirty
    BY <1>3, <2>1, TruncateToFields, NAssumption DEF Truncate, InTxn, Size
  <2>3. ASSUME mode = "open", NEW j \in touched'
        PROVE  j \in dirty' \/ n <= j
    <3>1. CASE j \in touched
      <4>1. j \in dirty \/ ov.size <= j
        BY <2>2, <2>3, <3>1 DEF StoreInv, TouchedIsDirty
      <4>2. j \in Int
        BY <2>1, <3>1, NAssumption DEF Chunk
      <4> QED
        BY <2>1, <2>2, <4>1, <4>2
    <3>2. CASE j \notin touched
      BY <2>2, <2>3, <3>2
    <3> QED
      BY <3>1, <3>2
  <2> QED
    BY <2>2, <2>3 DEF TouchedIsDirty
<1>4. CASE NothingToStore \/ PreserveFails \/ AppendFails \/
           JournalSyncFails \/ ShrinkFails \/ SettleFails \/ Settle \/
           CheckpointSkipped \/ Clear \/ ClearFails
  <2>1. ~InTxn'
    BY <1>4 DEF NothingToStore, PreserveFails, AppendFails, JournalSyncFails, ShrinkFails,
            SettleFails, Settle, CheckpointSkipped, Clear, ClearFails, AfterWriteBack, AfterCheckpoint, InTxn
  <2> QED
    BY <2>1 DEF TouchedIsDirty
<1>5. ASSUME NEW i \in Chunk, NEW v \in {base.data[i], ov.page[i], Torn}, ApplyFails(i, v)
      PROVE  TouchedIsDirty'
  <2>1. ~InTxn'
    BY <1>5 DEF ApplyFails, AfterWriteBack, AfterCheckpoint, InTxn
  <2> QED
    BY <2>1 DEF TouchedIsDirty
<1>6. CASE Commit \/ Rollback \/ Flush \/ Detach \/ Close \/ CloseMemory
  BY <1>6
  DEF Commit, Rollback, Flush, Detach, Close, CloseMemory, CallWriteBack,
      Closed, TouchedIsDirty, StoreInv, memoryVars, fileVars, clientVars,
      InTxn, Idle
<1>7. CASE Open \/ Attach \/ Append \/ JournalSynced \/ Shrink \/
           CheckpointSync
  BY <1>7
  DEF Open, Attach, Append, JournalSynced, Shrink, CheckpointSync,
      TouchedIsDirty, StoreInv, memoryVars, fileVars, clientVars, InTxn,
      Idle
<1>8. CASE CopyToMemory \/ LetGo \/ ReplayRecord \/ ReplayEnds \/ ReplaySync
           \/ ReplayClear
  BY <1>8
  DEF CopyToMemory, LetGo, ReplayRecord, ReplayEnds, ReplaySync,
      ReplayClear, Closed, TouchedIsDirty, StoreInv, memoryVars, fileVars,
      clientVars, InTxn, Idle
<1>9. CASE OpenFails \/ Crash
  BY <1>9
  DEF OpenFails, Crash, Closed, TouchedIsDirty, StoreInv, memoryVars,
      fileVars, clientVars, InTxn, Idle
<1>10. ASSUME NEW i \in Chunk, Apply(i)
       PROVE  TouchedIsDirty'
  BY <1>10
  DEF Apply, TouchedIsDirty, StoreInv, memoryVars, fileVars, clientVars,
      InTxn, Idle
<1>11. ASSUME NEW chunks \in SUBSET Chunk, CopyFails(chunks)
       PROVE  TouchedIsDirty'
  BY <1>11
  DEF CopyFails, TouchedIsDirty, StoreInv, memoryVars, fileVars, clientVars,
      InTxn, Idle
<1>12. CASE UNCHANGED vars
  BY <1>12
  DEF vars, TouchedIsDirty, StoreInv, memoryVars, fileVars, clientVars,
      InTxn, Idle
<1> QED
  BY <1>1, <1>2, <1>3, <1>4, <1>5, <1>6, <1>7, <1>8, <1>9, <1>10, <1>11,
     <1>12
  DEF Next, Client, WriteBack, Recovery, Failure

(* A transaction that leaves nothing to write back changed nothing.        *)
LEMMA CommitsTheSame ==
  ASSUME StoreInv, mode = "open", InTxn, dirty = {}, ov.size = stored
  PROVE  Content(ov, base) = committed
<1>1. ov \in Overlay /\ base \in File /\ committed \in File /\ ov.size \in 0 .. N
      /\ committed.size \in 0 .. N
  BY StoreTypes DEF StoreInv
<1>2. \A i \in Chunk : i < ov.size => i \notin touched
  <2>1. \A i \in touched : ov.size <= i
    BY DEF StoreInv, TouchedIsDirty
  <2> QED
    BY <1>1, <2>1 DEF Chunk
<1>3. committed.size <= ov.size
  BY DEF StoreInv, CleanIsStored, Live
<1>4. ov.size <= committed.size
  <2>1. CASE ov.size > 0
    <3>1. ov.size - 1 \in Chunk /\ ov.size - 1 < ov.size
      BY <1>1, <2>1, NAssumption DEF Chunk
    <3>2. ov.size - 1 < committed.size
      BY <1>2, <3>1 DEF StoreInv, ReadInv, Unchanged
    <3> QED
      BY <1>1, <3>2
  <2> QED
    BY <1>1, <2>1
<1>5. ov.size = committed.size
  BY <1>1, <1>3, <1>4
<1>6. /\ Content(ov, base) \in File /\ Content(ov, base).size = ov.size
      /\ \A i \in Chunk : Content(ov, base).data[i]
                          = IF i < ov.size THEN ReadChunk(ov, base, i) ELSE 0
  BY <1>1, ContentType, ContentFields
<1>7. ASSUME NEW i \in Chunk
      PROVE  Content(ov, base).data[i] = committed.data[i]
  <2>1. CASE i < ov.size
    BY <1>2, <1>6, <2>1 DEF StoreInv, ReadInv, Unchanged
  <2>2. CASE ~ (i < ov.size)
    <3>1. committed.size <= i
      BY <1>1, <1>5, <2>2 DEF Chunk
    <3> QED
      BY <1>6, <2>2, <3>1 DEF StoreInv, ReadInv, ZeroPastEnd, ZeroPast
  <2> QED
    BY <2>1, <2>2
<1> QED
  BY <1>1, <1>5, <1>6, <1>7, SameFile

(* Nothing is left to store once the last commit is.                       *)
LEMMA AllStored ==
  ASSUME StoreInv, Live, ~InTxn, dirty = {}, ov.size = stored
  PROVE  allowed = {committed}
<1>1. mode # "closed"
  BY DEF Live
<1>2. committed.size = stored /\ stored \in Int
  BY <1>1, StoreTypes DEF StoreInv, ReadInv, Outside
<1> QED
  BY <1>2 DEF StoreInv, StoredOrNot

(* A commit stays to be stored until it is. *)
LEMMA StoredOrNotStep == StoreInv /\ [Next]_vars => StoredOrNot'
<1> SUFFICES ASSUME StoreInv, [Next]_vars PROVE StoredOrNot'
  OBVIOUS
<1>0. Live' => Live \/ step = "replayclear"
  BY LiveStep DEF StoreInv, ReadInv
<1>1. CASE Commit
  <2>1. ov \in Overlay /\ ov.size \in 0 .. N /\ stored \in 0 .. N /\ dirty \subseteq Chunk /\ txn \in Nat
        /\ touched \subseteq Chunk
        /\ base \in File /\ committed \in File /\ committed.size \in 0 .. N
    BY StoreTypes DEF StoreInv
  <2>2. /\ committed' = Content(ov, base) /\ committed'.size = ov.size /\ step' \notin {"apply", "settle"}
        /\ dirty' = dirty /\ stored' = stored /\ mode' = mode /\ InTxn
        /\ allowed' = IF mode = "open" THEN allowed \union {committed'} ELSE allowed
    BY <1>1, <2>1, ContentFields DEF Commit, memoryVars, InTxn
  <2>3. CASE mode = "open" /\ dirty = {} /\ ov.size = stored
    <3>1. committed' = committed
      BY <2>2, <2>3, CommitsTheSame
    <3>2. allowed = {committed}
      <4>1. committed.size = stored
        BY <2>2, <2>3, <3>1
      <4> QED
        BY <2>1, <2>3, <4>1 DEF StoreInv, StoredOrNot, Live
    <3> QED
      BY <2>2, <2>3, <3>1, <3>2 DEF StoredOrNot
  <2>4. CASE mode = "open" /\ dirty = {} /\ ov.size # stored
    <3>1. ov.size < stored
      BY <2>1, <2>4, CleanSize DEF Live
    <3> QED
      BY <2>2, <3>1 DEF StoredOrNot
  <2>5. CASE dirty # {}
    BY <2>2, <2>5 DEF StoredOrNot
  <2>6. CASE mode # "open"
    <3>1. ~ Live'
      BY <1>1, <2>2, <2>6 DEF Commit, Live, Writing, Stepping
    <3> QED
      BY <2>2, <3>1 DEF StoredOrNot
  <2> QED
    BY <2>3, <2>4, <2>5, <2>6
<1>2. ASSUME NEW i \in Chunk, Write(i)
      PROVE  StoredOrNot'
  <2>1. /\ dirty \subseteq dirty' /\ stored' = stored /\ allowed' = allowed /\ committed' = committed
        /\ step' = "txn" /\ step # "replayclear"
    BY <1>2 DEF Write, MarkDirty
  <2> QED
    BY <1>0, <2>1 DEF StoreInv, StoredOrNot
<1>3. CASE Rollback
  <2>1. /\ dirty \subseteq dirty' /\ stored' = stored /\ allowed' = allowed /\ committed' = committed
        /\ step' = "idle" /\ step # "replayclear"
    BY <1>3 DEF Rollback, MarkDirty
  <2> QED
    BY <1>0, <2>1 DEF StoreInv, StoredOrNot
<1>4. CASE JournalSynced
  BY <1>4 DEF JournalSynced, StoredOrNot
<1>5. CASE Settle
  BY <1>5 DEF Settle, clientVars, StoreInv, StoredOrNot
<1>6. CASE LetGo \/ Crash \/ CloseMemory \/ Attach \/ Open \/ OpenFails
  <2>1. ~ Live' /\ step' \notin {"apply", "settle", "checkpoint", "clear"}
    BY <1>6 DEF CloseMemory, LetGo, Crash, Attach, Open, OpenFails, Closed, Idle, Live, Writing, Stepping,
            StoreInv, ReadInv, Basics, Control, Replaying
  <2> QED
    BY <2>1 DEF StoredOrNot
<1>7. CASE ReplayClear
  <2>1. ov \in Overlay /\ ov.size \in 0 .. N /\ stored \in 0 .. N /\ dirty \subseteq Chunk /\ txn \in Nat
        /\ touched \subseteq Chunk
        /\ base \in File /\ committed \in File /\ committed.size \in 0 .. N
    BY StoreTypes DEF StoreInv
  <2>2. step' \notin {"apply", "settle"} /\ stored' = base.size /\ base.size \in 0 .. N
    BY <1>7, StoreTypes DEF ReplayClear, StoreInv
  <2>3. CASE caller = "open"
    BY <1>7, <2>2, <2>3 DEF ReplayClear, StoredOrNot
  <2>4. CASE caller # "open"
    <3>1. /\ ov' = ov /\ committed' = committed /\ dirty' = 0 .. ov.size - 1 /\ ~InTxn
          /\ mode # "closed" /\ allowed' = {base, committed}
      BY <1>7, <2>4 DEF ReplayClear, InTxn, StoreInv, ReadInv, Basics, Control, Replaying
    <3>2. committed.size = ov.size
      BY <3>1 DEF StoreInv, ReadInv, Outside
    <3>3. CASE ov.size > 0
      <4>1. 0 \in dirty'
        BY <2>1, <3>1, <3>3
      <4> QED
        BY <2>2, <4>1 DEF StoredOrNot
    <3>4. CASE ov.size = 0 /\ base.size > 0
      BY <2>2, <3>1, <3>2, <3>4 DEF StoredOrNot
    <3>5. CASE ov.size = 0 /\ base.size = 0
      <4>1. \A i \in Chunk : base.size <= i /\ committed.size <= i
        BY <3>2, <3>5, NAssumption DEF Chunk
      <4>2. \A i \in Chunk : base.data[i] = committed.data[i]
        BY <4>1 DEF StoreInv, ReadInv, ZeroPastEnd, ZeroPast
      <4>3. base = committed
        BY <2>1, <3>2, <3>5, <4>2, SameFile
      <4> QED
        BY <2>2, <3>1, <4>3 DEF StoredOrNot
    <3> QED
      BY <2>1, <2>2, <3>3, <3>4, <3>5
  <2> QED
    BY <2>3, <2>4
<1>8. CASE NothingToStore \/ PreserveFails \/ AppendFails \/
           JournalSyncFails \/ ShrinkFails \/ SettleFails \/
           CheckpointSkipped \/ Clear \/ ClearFails
  <2>1. /\ step' \notin {"apply", "settle"} /\ step # "replayclear" /\ dirty' = dirty /\ stored' = stored
        /\ committed' = committed /\ allowed' = allowed
    BY <1>8 DEF NothingToStore, PreserveFails, AppendFails, JournalSyncFails, ShrinkFails,
            SettleFails, CheckpointSkipped, Clear, ClearFails, AfterWriteBack, AfterCheckpoint, clientVars
  <2> QED
    BY <1>0, <2>1 DEF StoreInv, StoredOrNot
<1>9. ASSUME NEW i \in Chunk, NEW v \in {base.data[i], ov.page[i], Torn}, ApplyFails(i, v)
      PROVE  StoredOrNot'
  <2>1. /\ step' \notin {"apply", "settle"} /\ step # "replayclear" /\ dirty' = dirty /\ stored' = stored
        /\ committed' = committed /\ allowed' = allowed
    BY <1>9 DEF ApplyFails, AfterWriteBack, AfterCheckpoint, clientVars
  <2> QED
    BY <1>0, <2>1 DEF StoreInv, StoredOrNot
<1>10. CASE Begin \/ Flush \/ Detach \/ Close
  BY <1>10, <1>0
  DEF Begin, Flush, Detach, Close, CallWriteBack, StoredOrNot, StoreInv,
      Idle, memoryVars, fileVars, clientVars
<1>11. CASE Append \/ Shrink \/ CheckpointSync \/ CopyToMemory
  BY <1>11, <1>0
  DEF Append, Shrink, CheckpointSync, CopyToMemory, StoredOrNot, StoreInv,
      Idle, memoryVars, fileVars, clientVars
<1>12. CASE ReplayRecord \/ ReplayEnds \/ ReplaySync
  BY <1>12, <1>0
  DEF ReplayRecord, ReplayEnds, ReplaySync, StoredOrNot, StoreInv, Idle,
      memoryVars, fileVars, clientVars
<1>13. ASSUME NEW n \in Size \ {0}, Truncate(n)
       PROVE  StoredOrNot'
  BY <1>13, <1>0
  DEF Truncate, StoredOrNot, StoreInv, Idle, memoryVars, fileVars,
      clientVars
<1>14. ASSUME NEW i \in Chunk, Apply(i)
       PROVE  StoredOrNot'
  BY <1>14, <1>0
  DEF Apply, StoredOrNot, StoreInv, Idle, memoryVars, fileVars, clientVars
<1>15. ASSUME NEW chunks \in SUBSET Chunk, CopyFails(chunks)
       PROVE  StoredOrNot'
  BY <1>15, <1>0
  DEF CopyFails, StoredOrNot, StoreInv, Idle, memoryVars, fileVars,
      clientVars
<1>16. CASE UNCHANGED vars
  BY <1>16, <1>0
  DEF vars, StoredOrNot, StoreInv, Idle, memoryVars, fileVars, clientVars,
      Live
<1> QED
  BY <1>1, <1>2, <1>3, <1>4, <1>5, <1>6, <1>7, <1>8, <1>9, <1>10, <1>11,
     <1>12, <1>13, <1>14, <1>15, <1>16
  DEF Next, Client, WriteBack, Recovery, Failure

(* A write-back that succeeded left nothing to store. *)
LEMMA OkIsStoredStep == StoreInv /\ [Next]_vars => OkIsStored'
<1> SUFFICES ASSUME StoreInv, [Next]_vars PROVE OkIsStored'
  OBVIOUS
<1>0. Live' => Live \/ step = "replayclear"
  BY LiveStep DEF StoreInv, ReadInv
<1>1. CASE Commit
  <2>1. step' \notin Stepping /\ (Live' => step' = "append")
    BY <1>1 DEF Commit, Live, Writing, Stepping
  <2> QED
    BY <2>1 DEF OkIsStored
<1>2. ASSUME NEW i \in Chunk, Write(i)
      PROVE  OkIsStored'
  <2>1. /\ mode' = mode /\ rc' = rc /\ allowed' = allowed /\ committed' = committed
        /\ step' = "txn" /\ step = "txn"
    BY <1>2 DEF Write
  <2> QED
    BY <1>0, <2>1 DEF StoreInv, OkIsStored, Stepping
<1>3. ASSUME NEW n \in Size \ {0}, Truncate(n)
      PROVE  OkIsStored'
  <2>1. /\ mode' = mode /\ rc' = rc /\ allowed' = allowed /\ committed' = committed
        /\ step' = "cut" /\ step = "txn"
    BY <1>3 DEF Truncate
  <2> QED
    BY <1>0, <2>1 DEF StoreInv, OkIsStored, Stepping
<1>4. CASE NothingToStore
  <2>1. /\ ov' = ov /\ dirty' = dirty /\ stored' = stored /\ allowed' = allowed /\ committed' = committed
        /\ Live /\ ~InTxn
    BY <1>4 DEF NothingToStore, clientVars, Live, StoreInv, ReadInv, Basics, Control, Writing, Stepping,
            Replaying, InTxn
  <2>2. dirty = {} /\ ov.size = stored /\ step' # "clear" /\ (step' = "checkpoint" => caller' = "closing")
    BY <1>4 DEF NothingToStore, AfterWriteBack
  <2> QED
    BY <2>1, <2>2, AllStored DEF OkIsStored, Stepping
<1>5. CASE PreserveFails \/ AppendFails \/ JournalSyncFails \/ ShrinkFails
           \/ SettleFails
  <2>1. /\ ov' = ov /\ dirty' = dirty /\ stored' = stored /\ allowed' = allowed /\ committed' = committed
        /\ Live /\ ~InTxn
    BY <1>5 DEF PreserveFails, AppendFails, JournalSyncFails, ShrinkFails, SettleFails, clientVars, Live, StoreInv, ReadInv, Basics, Control, Writing, Stepping,
            Replaying, InTxn
  <2>2. rc' = "error" /\ (step' = "checkpoint" => caller' = "closing") /\ step' # "clear"
    BY <1>5 DEF PreserveFails, AppendFails, JournalSyncFails, ShrinkFails, SettleFails, AfterWriteBack
  <2> QED
    BY <2>2 DEF OkIsStored, Stepping
<1>6. ASSUME NEW i \in Chunk, NEW v \in {base.data[i], ov.page[i], Torn}, ApplyFails(i, v)
      PROVE  OkIsStored'
  <2>1. /\ ov' = ov /\ dirty' = dirty /\ stored' = stored /\ allowed' = allowed /\ committed' = committed
        /\ Live /\ ~InTxn
    BY <1>6 DEF ApplyFails, clientVars, Live, StoreInv, ReadInv, Basics, Control, Writing, Stepping,
            Replaying, InTxn
  <2>2. rc' = "error" /\ (step' = "checkpoint" => caller' = "closing") /\ step' # "clear"
    BY <1>6 DEF ApplyFails, AfterWriteBack
  <2> QED
    BY <2>2 DEF OkIsStored, Stepping
<1>7. CASE Settle
  <2>1. ov \in Overlay /\ ov.size \in 0 .. N /\ stored \in 0 .. N /\ dirty \subseteq Chunk /\ txn \in Nat
        /\ touched \subseteq Chunk
        /\ base \in File /\ committed \in File /\ committed.size \in 0 .. N
    BY StoreTypes DEF StoreInv
  <2>2. ov'.size = stored' /\ dirty' = {} /\ rc' = "ok"
    BY <1>7, <2>1, DropStoredFields DEF Settle, AfterWriteBack
  <2>3. allowed' = {committed'}
    BY <1>7 DEF Settle, clientVars, StoreInv, StoredOrNot
  <2> QED
    BY <2>2, <2>3 DEF OkIsStored
<1>8. CASE CheckpointSkipped \/ Clear \/ ClearFails
  <2>1. /\ ov' = ov /\ dirty' = dirty /\ stored' = stored /\ allowed' = allowed /\ committed' = committed
        /\ Live /\ ~InTxn
    BY <1>8 DEF CheckpointSkipped, Clear, ClearFails, clientVars, Live, StoreInv, ReadInv, Basics, Control, Writing, Stepping,
            Replaying, InTxn
  <2>2. CASE caller \in {"closing", "detaching"}
    BY <1>8, <2>2 DEF CheckpointSkipped, Clear, ClearFails, AfterCheckpoint, OkIsStored, Stepping
  <2>3. CASE caller \notin {"closing", "detaching"}
    <3>1. rc' = "ok" /\ step' # "clear" /\ (step' = "checkpoint" => caller' = "closing")
      BY <1>8, <2>3 DEF CheckpointSkipped, Clear, ClearFails, AfterCheckpoint, AfterWriteBack
    <3>2. dirty = {} /\ ov.size = stored
      BY <1>8, <2>1, <2>3 DEF CheckpointSkipped, Clear, ClearFails, StoreInv, OkIsStored, Stepping
    <3> QED
      BY <2>1, <3>1, <3>2, AllStored DEF OkIsStored, Stepping
  <2> QED
    BY <2>2, <2>3
<1>9. CASE CopyToMemory
  <2>1. ov \in Overlay /\ ov.size \in 0 .. N /\ stored \in 0 .. N /\ dirty \subseteq Chunk /\ txn \in Nat
        /\ touched \subseteq Chunk
        /\ base \in File /\ committed \in File /\ committed.size \in 0 .. N
    BY StoreTypes DEF StoreInv
  <2>2. /\ ov'.size = ov.size /\ dirty' = dirty /\ stored' = stored /\ rc' = rc /\ Live
        /\ step = "copy" /\ step' = "checkpoint" /\ caller' = "detaching"
    BY <1>9, <2>1, PreserveFields DEF CopyToMemory, StoreInv, ReadInv, Basics, Control, Replaying, Live
  <2> QED
    BY <2>2 DEF StoreInv, OkIsStored
<1>10. ASSUME NEW chunks \in SUBSET Chunk, CopyFails(chunks)
       PROVE  OkIsStored'
  <2>1. /\ rc' = rc /\ Live /\ step = "copy" /\ step' = "idle" /\ ~InTxn
        /\ allowed' = allowed /\ committed' = committed
    BY <1>10 DEF CopyFails, clientVars, StoreInv, ReadInv, Basics, Control, Replaying, Live, InTxn
  <2> QED
    BY <2>1, AllStored DEF StoreInv, OkIsStored, Stepping
<1>11. CASE LetGo \/ Crash \/ CloseMemory \/ Attach \/ Open \/ OpenFails
  <2>1. ~ Live' /\ step' \notin {"apply", "settle", "checkpoint", "clear"}
    BY <1>11 DEF CloseMemory, LetGo, Crash, Attach, Open, OpenFails, Closed, Idle, Live, Writing, Stepping,
            StoreInv, ReadInv, Basics, Control, Replaying
  <2> QED
    BY <2>1 DEF OkIsStored, Stepping
<1>12. CASE ReplayClear
  <2>1. CASE caller = "open"
    BY <1>12, <2>1 DEF ReplayClear, OkIsStored, Stepping
  <2>2. CASE caller # "open"
    BY <1>12, <2>2 DEF ReplayClear, OkIsStored, Stepping
  <2> QED
    BY <2>1, <2>2
<1>13. CASE Begin \/ Rollback \/ Flush \/ Detach
  BY <1>13, <1>0
  DEF Begin, Rollback, Flush, Detach, CallWriteBack, OkIsStored, StoreInv,
      Idle, Stepping, memoryVars, fileVars, clientVars
<1>14. CASE Close \/ Append \/ JournalSynced \/ Shrink
  BY <1>14, <1>0
  DEF Close, Append, JournalSynced, Shrink, CallWriteBack, OkIsStored,
      StoreInv, Idle, Stepping, memoryVars, fileVars, clientVars
<1>15. CASE CheckpointSync \/ ReplayRecord \/ ReplayEnds \/ ReplaySync
  BY <1>15, <1>0
  DEF CheckpointSync, ReplayRecord, ReplayEnds, ReplaySync, OkIsStored,
      StoreInv, Idle, Stepping, memoryVars, fileVars, clientVars
<1>16. ASSUME NEW i \in Chunk, Apply(i)
       PROVE  OkIsStored'
  BY <1>16, <1>0
  DEF Apply, OkIsStored, StoreInv, Idle, Stepping, memoryVars, fileVars,
      clientVars
<1>17. CASE UNCHANGED vars
  BY <1>17, <1>0
  DEF vars, OkIsStored, StoreInv, Idle, Stepping, memoryVars, fileVars,
      clientVars, Live
<1> QED
  BY <1>1, <1>2, <1>3, <1>4, <1>5, <1>6, <1>7, <1>8, <1>9, <1>10, <1>11,
     <1>12, <1>13, <1>14, <1>15, <1>16, <1>17
  DEF Next, Client, WriteBack, Recovery, Failure

LEMMA StoreInvInit == Init => StoreInv
<1> SUFFICES ASSUME Init PROVE StoreInv
  OBVIOUS
<1>1. ReadInv
  BY ReadInvInit
<1>2. ~Live /\ ~InTxn /\ step = "idle"
  BY DEF Init, Live, Writing, Stepping, InTxn
<1> QED
  BY <1>1, <1>2 DEF StoreInv, CleanIsStored, TouchedIsDirty, StoredOrNot, OkIsStored, Stepping

LEMMA StoreInvStep == NoLeaf /\ StoreInv /\ [Next]_vars => StoreInv'
<1>1. StoreInv => ReadInv
  BY DEF StoreInv
<1> QED
  BY <1>1, ReadInvStep, CleanIsStoredStep, TouchedIsDirtyStep, StoredOrNotStep, OkIsStoredStep,
     Zenon DEF StoreInv

(* A flush that reports success left only the last commit to be found in   *)
(* the file, and so did every write-back up to a rcWrite without error, of *)
(* transactions that write, grow and cut the file, if SQLite leaves no     *)
(* page unwritten.                                                         *)
THEOREM AlwaysFlushedIsStored ==
  ASSUME NoLeaf
  PROVE  Spec => []FlushedIsStored
<1>1. StoreInv => FlushedIsStored
  BY DEF StoreInv, OkIsStored, FlushedIsStored, Idle, Live
<1>2. StoreInv /\ [Next]_vars => StoreInv'
  BY StoreInvStep
<1> QED
  BY <1>1, <1>2, StoreInvInit, PTL DEF Spec

-----------------------------------------------------------------------------
(* What recovery finds                                                     *)

(* The disk and SQLite do nothing that is rare.                            *)
NothingRare == Rare = {}

(* A file of which everything is on disk.                                  *)
Synced(f) == [size |-> {f.size}, data |-> [i \in Chunk |-> {f.data[i]}]]

(* The journals that a crash may leave, and the records of one of them     *)
(* that recovery replays.                                                  *)
Journals == {j \in [Slot -> Entry] : \A k \in Slot : j[k] \in journalLeft[k]}
Valid(j) == {k \in Slot : \A m \in 1 .. k : j[m] # Empty /\ j[m].salt = j[1].salt}

(* What replaying the records in the slots V leaves of chunk i: what the   *)
(* last of them that holds it says, or what a crash leaves of the file,    *)
(* which is certain.                                                       *)
Leaves(r, i) == r.page[i] = NoPage /\ i < r.size
FromRecord(j, V, i, v) ==
  \E k \in V : j[k].page[i] = v /\ \A m \in V : m > k => Leaves(j[m], i)
FromBase(j, V, left, i, v) ==
  (\A k \in V : Leaves(j[k], i)) /\ left.data[i] = {v} /\ \A n \in left.size : i < n
Durably(j, V, left, i, v) == FromRecord(j, V, i, v) \/ FromBase(j, V, left, i, v)

(* Replaying them turns whatever a crash leaves of the file into f.        *)
Recovers(j, V, left, f) ==
  /\ V = {} => left = Synced(f)
  /\ \A k \in V : (\A m \in V : m <= k) => j[k].size = f.size
  /\ \A i \in Chunk : i < f.size => Durably(j, V, left, i, f.data[i])

LEMMA SyncedFields ==
  ASSUME NEW f
  PROVE  /\ Synced(f).size = {f.size}
         /\ \A i \in Chunk : Synced(f).data[i] = {f.data[i]}
BY DEF Synced

(* What is certain stays so when some of it is found on disk.              *)
LEMMA FoundDurably ==
  ASSUME NEW j, NEW V, NEW left, NEW b, NEW i \in Chunk, NEW v,
         b.size \in left.size,
         i < b.size => b.data[i] \in left.data[i],
         Durably(j, V, left, i, v)
  PROVE  Durably(j, V, Synced(b), i, v)
<1>1. CASE FromRecord(j, V, i, v)
  BY <1>1 DEF Durably
<1>2. CASE FromBase(j, V, left, i, v)
  <2>1. i < b.size /\ b.data[i] = v
    BY <1>2 DEF FromBase
  <2> QED
    BY <1>2, <2>1, SyncedFields DEF FromBase, Durably
<1> QED
  BY <1>1, <1>2 DEF Durably

(* A file that holds f for certain is found to hold it.                    *)
LEMMA FoundFile ==
  ASSUME NEW f \in File, NEW b \in File, ZeroPast(f), ZeroPast(b),
         b.size \in Synced(f).size,
         \A i \in Chunk : i < b.size => b.data[i] \in Synced(f).data[i]
  PROVE  b = f
<1>1. b.size = f.size /\ b.size \in 0 .. N
  BY SyncedFields DEF File, Size
<1>2. ASSUME NEW i \in Chunk
      PROVE  b.data[i] = f.data[i]
  <2>1. CASE i < b.size
    BY <2>1, SyncedFields
  <2>2. CASE ~ (i < b.size)
    <3>1. b.size <= i /\ f.size <= i
      BY <1>1, <2>2 DEF Chunk
    <3> QED
      BY <3>1 DEF ZeroPast
  <2> QED
    BY <2>1, <2>2
<1> QED
  BY <1>1, <1>2, SameFile

LEMMA FoundRecovers ==
  ASSUME NEW j, NEW V, NEW left, NEW b \in File, NEW f \in File,
         ZeroPast(b), ZeroPast(f), b.size \in left.size,
         \A i \in Chunk : i < b.size => b.data[i] \in left.data[i],
         Recovers(j, V, left, f)
  PROVE  Recovers(j, V, Synced(b), f)
<1>1. V = {} => Synced(b) = Synced(f)
  <2>1. V = {} => b = f
    BY FoundFile DEF Recovers
  <2> QED
    BY <2>1
<1>2. \A i \in Chunk : i < f.size => Durably(j, V, Synced(b), i, f.data[i])
  BY FoundDurably DEF Recovers
<1> QED
  BY <1>1, <1>2 DEF Recovers

(* With nothing to replay, the file is what is found.                      *)
LEMMA NothingToReplay ==
  ASSUME NEW j, NEW f
  PROVE  Recovers(j, {}, Synced(f), f)
BY SyncedFields DEF Recovers, Durably, FromBase

LEMMA RecoversFound ==
  ASSUME NEW j, NEW b \in File, NEW f \in File, ZeroPast(b), ZeroPast(f),
         Recovers(j, {}, Synced(b), f)
  PROVE  b = f
<1>1. Synced(b) = Synced(f)
  BY DEF Recovers
<1> QED
  BY <1>1, FoundFile, SyncedFields

(* Only the records that are replayed matter.                              *)
LEMMA SameRecords ==
  ASSUME NEW j, NEW h, NEW V, NEW left, \A k \in V : h[k] = j[k]
  PROVE  /\ \A i, v : Durably(j, V, left, i, v) => Durably(h, V, left, i, v)
         /\ \A f : Recovers(j, V, left, f) => Recovers(h, V, left, f)
<1>1. \A i, v : Durably(j, V, left, i, v) => Durably(h, V, left, i, v)
  BY DEF Durably, FromRecord, FromBase
<1> QED
  BY <1>1 DEF Recovers

(* One more record leaves of a chunk what was there.                       *)
LEMMA OneMoreRecord ==
  ASSUME NEW j, NEW n \in Nat, NEW left, NEW i, NEW v, Leaves(j[n + 1], i),
         Durably(j, 1 .. n, left, i, v)
  PROVE  Durably(j, 1 .. n + 1, left, i, v)
<1>1. CASE FromRecord(j, 1 .. n, i, v)
  <2>1. PICK k \in 1 .. n : j[k].page[i] = v /\ \A m \in 1 .. n : m > k => Leaves(j[m], i)
    BY <1>1 DEF FromRecord
  <2>2. k \in 1 .. n + 1 /\ \A m \in 1 .. n + 1 : m > k => Leaves(j[m], i)
    <3>1. \A m \in 1 .. n + 1 : m \in 1 .. n \/ m = n + 1
      OBVIOUS
    <3> QED
      BY <2>1, <3>1
  <2> QED
    BY <2>1, <2>2 DEF FromRecord, Durably
<1>2. CASE FromBase(j, 1 .. n, left, i, v)
  <2>1. \A m \in 1 .. n + 1 : m \in 1 .. n \/ m = n + 1
    OBVIOUS
  <2> QED
    BY <1>2, <2>1 DEF FromBase, Durably
<1> QED
  BY <1>1, <1>2 DEF Durably

(* What the last record holds is what replay leaves.                       *)
LEMMA LastRecord ==
  ASSUME NEW j, NEW n \in Nat, n > 0, NEW left, NEW i
  PROVE  Durably(j, 1 .. n, left, i, j[n].page[i])
<1>1. n \in 1 .. n /\ \A m \in 1 .. n : ~ (m > n)
  OBVIOUS
<1> QED
  BY <1>1 DEF Durably, FromRecord

LEMMA OneJournal ==
  ASSUME NEW j \in [Slot -> Entry], NEW h \in [Slot -> Entry], \A k \in Slot : j[k] = h[k]
  PROVE  j = h
OBVIOUS

(* Replay goes on up to the first slot that does not follow.               *)
LEMMA ValidRecords ==
  ASSUME NEW j, NEW n \in 0 .. MaxRecords,
         \A k \in 1 .. n : j[k] # Empty /\ j[k].salt = j[1].salt,
         n < MaxRecords => j[n + 1] = Empty \/ (n > 0 /\ j[n + 1].salt # j[1].salt)
  PROVE  Valid(j) = 1 .. n
<1>1. MaxRecords \in Nat
  BY BoundsAssumption
<1>2. ASSUME NEW k \in 1 .. n
      PROVE  k \in Valid(j)
  <2>1. k \in Slot /\ \A m \in 1 .. k : m \in 1 .. n
    BY <1>1 DEF Slot
  <2>2. 1 \in 1 .. n
    BY <1>1
  <2> QED
    BY <2>1, <2>2 DEF Valid
<1>3. ASSUME NEW k \in Valid(j), k \notin 1 .. n
      PROVE  FALSE
  <2>1. k \in Slot /\ \A m \in 1 .. k : j[m] # Empty /\ j[m].salt = j[1].salt
    BY DEF Valid
  <2>2. n + 1 \in 1 .. k /\ n < MaxRecords
    BY <1>1, <1>3, <2>1 DEF Slot
  <2>3. n > 0 => 1 \in 1 .. n
    OBVIOUS
  <2> QED
    BY <2>1, <2>2, <2>3
<1> QED
  BY <1>2, <1>3

(* What each write leaves on disk, and may leave there.                    *)
LEMMA WriteBaseLeft ==
  ASSUME baseLeft \in Left, NEW i \in Chunk, NEW v, WriteBase(i, v)
  PROVE  /\ baseLeft'.size = baseLeft.size \union {base'.size}
         /\ baseLeft'.data[i] = baseLeft.data[i] \union {v, Torn}
         /\ \A j \in Chunk : j # i => baseLeft'.data[j] = baseLeft.data[j]
<1>1. baseLeft' = [size |-> baseLeft.size \union {base'.size},
                   data |-> [baseLeft.data EXCEPT ![i] = @ \union {v, Torn}]]
  BY DEF WriteBase
<1>2. baseLeft.data \in [Chunk -> SUBSET Nat]
  BY DEF Left
<1> QED
  BY <1>1, <1>2

LEMMA CutBaseLeft ==
  ASSUME NEW n, CutBase(n)
  PROVE  /\ baseLeft'.size = baseLeft.size \union {n}
         /\ \A j \in Chunk : j < n => baseLeft'.data[j] = baseLeft.data[j]
         /\ \A j \in Chunk : ~ (j < n) => baseLeft'.data[j] = baseLeft.data[j] \union {0}
BY DEF CutBase

LEMMA SyncBaseLeft ==
  ASSUME SyncBase
  PROVE  base' = base /\ baseLeft' = Synced(base)
BY DEF SyncBase, Synced

LEMMA WriteJournalFields ==
  ASSUME journal \in [Slot -> Entry], journalLeft \in [Slot -> SUBSET Entry],
         NEW k \in Slot, NEW r, WriteJournal(k, r)
  PROVE  /\ journal'[k] = r
         /\ journalLeft'[k] = journalLeft[k] \union {r, Empty}
         /\ \A m \in Slot : m # k => journal'[m] = journal[m] /\ journalLeft'[m] = journalLeft[m]
<1> HIDE DEF Entry
<1> QED
  BY DEF WriteJournal

LEMMA AppendFailsFields ==
  ASSUME journal \in [Slot -> Entry], journalLeft \in [Slot -> SUBSET Entry], AppendFails,
         used \in 0 .. MaxRecords
  PROVE  /\ used + 1 \in Slot
         /\ journal'[used + 1] = Empty
         /\ journalLeft'[used + 1] = journalLeft[used + 1] \union {NewRecord, Empty}
         /\ \A m \in Slot : m # used + 1 => /\ journal'[m] = journal[m]
                                           /\ journalLeft'[m] = journalLeft[m]
<1>1. used + 1 \in Slot
  BY BoundsAssumption DEF AppendFails, Slot
<1>2. /\ journal' = [journal EXCEPT ![used + 1] = Empty]
      /\ journalLeft' = [journalLeft EXCEPT ![used + 1] = @ \union {NewRecord, Empty}]
  BY DEF AppendFails
<1> QED
  <2> HIDE DEF Entry
  <2> QED
    BY <1>1, <1>2

LEMMA SyncJournalFields ==
  ASSUME SyncJournal
  PROVE  journal' = journal /\ \A k \in Slot : journalLeft'[k] = {journal[k]}
BY DEF SyncJournal

(* A record is written to the base file, which is cut if it is longer.     *)
LEMMA ReplayRecordFields ==
  ASSUME base \in File, journal \in [Slot -> Entry], at \in 0 .. MaxRecords + 1, ReplayRecord
  PROVE  LET r == journal[at]
         IN /\ at \in Slot /\ r \in Record /\ Extended(r) \in Size /\ base.size <= Extended(r)
            /\ \A i \in Chunk : r.page[i] # NoPage => i + 1 <= Extended(r)
            /\ base'.size = IF Extended(r) > r.size THEN r.size ELSE Extended(r)
            /\ \A i \in Chunk : i < base'.size =>
                 base'.data[i] = IF r.page[i] # NoPage THEN r.page[i] ELSE base.data[i]
            /\ \A i \in Chunk : ~ (i < base'.size) => base'.data[i] = 0
            /\ baseLeft'.size = baseLeft.size \union {base'.size} \union base.size .. Extended(r)
            /\ \A i \in Chunk : baseLeft'.data[i] = baseLeft.data[i] \union {base'.data[i]}
                 \union IF r.page[i] = NoPage THEN {} ELSE {r.page[i], Torn}
<1> DEFINE r == journal[at]
<1>1. at \in Slot /\ r \in Record
  BY DEF ReplayRecord, Follows, Entry
<1>2. /\ Extended(r) \in Size /\ base.size <= Extended(r)
      /\ \A i \in Chunk : r.page[i] # NoPage => i + 1 <= Extended(r)
  BY <1>1, ExtendedIsLargest DEF Held
<1>3. base'.size = IF Extended(r) > r.size THEN r.size ELSE Extended(r)
  BY DEF ReplayRecord
<1>4. /\ \A i \in Chunk : i < base'.size =>
           base'.data[i] = IF r.page[i] # NoPage THEN r.page[i] ELSE base.data[i]
      /\ \A i \in Chunk : ~ (i < base'.size) => base'.data[i] = 0
  BY <1>3 DEF ReplayRecord, Cut
<1>5. /\ baseLeft'.size = baseLeft.size \union {base'.size} \union base.size .. Extended(r)
      /\ \A i \in Chunk : baseLeft'.data[i] = baseLeft.data[i] \union {base'.data[i]}
           \union IF r.page[i] = NoPage THEN {} ELSE {r.page[i], Torn}
  BY <1>3 DEF ReplayRecord
<1> QED
  BY <1>1, <1>2, <1>3, <1>4, <1>5

-----------------------------------------------------------------------------
(* The invariant of the disk                                               *)

(* What a read returns is one of what a crash may leave.                   *)
Current ==
  /\ base.size \in baseLeft.size
  /\ \A i \in Chunk : base.data[i] \in baseLeft.data[i]
  /\ \A k \in Slot : journal[k] \in journalLeft[k]

WellFormed ==
  /\ \A k \in Slot : \A r \in journalLeft[k] : \A i \in Chunk : r.page[i] # NoPage => i < r.size
  /\ \A f \in allowed : ZeroPast(f)

(* Whatever a crash leaves, recovery finds one of the commits.             *)
OnDisk == \A j \in Journals : \E f \in allowed : Recovers(j, Valid(j), baseLeft, f)

(* The records since the last checkpoint are certain, and no other record  *)
(* has their salt, but for one that failed and may come next.              *)
Generation ==
  Live =>
    /\ \A k \in 1 .. used : /\ journalLeft[k] = {journal[k]}
                             /\ journal[k] # Empty /\ journal[k].salt = salt
    /\ \A k \in Slot : k > used + 1 => \A r \in journalLeft[k] : r.salt # salt

(* The record of the write-back that runs.                                 *)
Staged ==
  /\ step = "journalsync" => journal[used + 1] = NewRecord
  /\ step \in {"apply", "settle"} =>
       /\ used > 0 /\ \A k \in Slot : journalLeft[k] = {journal[k]}
       /\ \A k \in Slot : k > used => journal[k].salt # salt
       /\ journal[used].size = ov.size
       /\ \A i \in dirty : i < ov.size => journal[used].page[i] = ov.page[i]

(* Without a record that may be lost, a commit is found as well.           *)
Kept ==
  Live => /\ committed \in allowed
          /\ \E f \in allowed : Recovers(journal, 1 .. used, baseLeft, f)

(* What needs no write-back is found, with these records.                  *)
WriteAhead ==
  Live => \A i \in Chunk : i < ov.size /\ i \notin dirty =>
    /\ i < base.size /\ base.data[i] = committed.data[i]
    /\ Durably(journal, 1 .. used, baseLeft, i, base.data[i])

BaseSize ==
  /\ Live /\ step \notin {"apply", "settle"} => base.size <= stored
  /\ step = "apply" => base.size <= stored \/ base.size <= ov.size
  /\ step = "settle" => base.size = ov.size

Clearing == step = "clear" => baseLeft = Synced(base) /\ rc = "ok"

(* Replay goes through the records, towards one of the commits.            *)
Recovering ==
  /\ step \in Replaying => \A k \in Slot : journalLeft[k] = {journal[k]}
  /\ step = "replay" =>
       /\ at > 0 /\ \A k \in 1 .. at - 1 : k \in Valid(journal)
       /\ \E f \in allowed :
            /\ Recovers(journal, Valid(journal), baseLeft, f)
            /\ Recovers(journal, {k \in Valid(journal) : at <= k}, Synced(base), f)
  /\ step \in {"replaysync", "replayclear"} =>
       base \in allowed /\ Recovers(journal, Valid(journal), baseLeft, base)
  /\ step = "replayclear" => baseLeft = Synced(base)

DiskInv == /\ StoreInv /\ Current /\ WellFormed /\ OnDisk /\ Generation /\ Staged /\ Kept
           /\ WriteAhead /\ BaseSize /\ Clearing /\ Recovering

LEMMA DiskTypes ==
  ASSUME ReadInv
  PROVE  /\ base \in File /\ baseLeft \in Left
         /\ journal \in [Slot -> Entry] /\ journalLeft \in [Slot -> SUBSET Entry]
         /\ used \in 0 .. MaxRecords /\ at \in 0 .. MaxRecords + 1
         /\ allowed \subseteq File /\ committed \in File /\ MaxRecords \in Nat \ {0}
         /\ ov \in Overlay /\ ov.size \in 0 .. N /\ base.size \in 0 .. N
BY ReadTypes, BoundsAssumption DEF ReadInv, Basics, BaseType, JournalType, CountType, MemoryType

(* A read returns what was last written or found. *)
LEMMA CurrentStep == NothingRare /\ DiskInv /\ [Next]_vars => Current'
<1> SUFFICES ASSUME NothingRare /\ DiskInv, [Next]_vars PROVE Current'
  OBVIOUS
<1>1. CASE Append
  <2>1. /\ base \in File /\ baseLeft \in Left /\ journal \in [Slot -> Entry]
        /\ journalLeft \in [Slot -> SUBSET Entry] /\ used \in 0 .. MaxRecords
        /\ at \in 0 .. MaxRecords + 1 /\ MaxRecords \in Nat \ {0}
    BY DiskTypes DEF DiskInv, StoreInv
  <2>2. used + 1 \in Slot
    BY <1>1, <2>1 DEF Append, Slot
  <2> QED
    BY <1>1, <2>1, <2>2, WriteJournalFields DEF Append, DiskInv, Current
<1>2. CASE AppendFails
  <2>1. /\ base \in File /\ baseLeft \in Left /\ journal \in [Slot -> Entry]
        /\ journalLeft \in [Slot -> SUBSET Entry] /\ used \in 0 .. MaxRecords
        /\ at \in 0 .. MaxRecords + 1 /\ MaxRecords \in Nat \ {0}
    BY DiskTypes DEF DiskInv, StoreInv
  <2> QED
    BY <1>2, <2>1, AppendFailsFields DEF AppendFails, DiskInv, Current
<1>3. CASE JournalSynced
  BY <1>3, SyncJournalFields DEF JournalSynced, DiskInv, Current
<1>4. ASSUME NEW i \in Chunk, Apply(i)
      PROVE  Current'
  <2>1. /\ base \in File /\ baseLeft \in Left /\ journal \in [Slot -> Entry]
        /\ journalLeft \in [Slot -> SUBSET Entry] /\ used \in 0 .. MaxRecords
        /\ at \in 0 .. MaxRecords + 1 /\ MaxRecords \in Nat \ {0}
    BY DiskTypes DEF DiskInv, StoreInv
  <2>2. base'.data = [base.data EXCEPT ![i] = ov.page[i]] /\ base.data \in [Chunk -> Nat]
    BY <1>4, <2>1 DEF Apply, WriteBase, File
  <2>3. \A j \in Chunk : base'.data[j] = IF j = i THEN ov.page[i] ELSE base.data[j]
    BY <2>2
  <2>4. \A j \in Chunk : base'.data[j] \in baseLeft'.data[j]
    BY <1>4, <2>1, <2>3, WriteBaseLeft DEF Apply, DiskInv, Current
  <2> QED
    BY <1>4, <2>1, <2>4, WriteBaseLeft DEF Apply, DiskInv, Current
<1>5. ASSUME NEW i \in Chunk, NEW v \in {base.data[i], ov.page[i], Torn}, ApplyFails(i, v)
      PROVE  Current'
  <2>1. /\ base \in File /\ baseLeft \in Left /\ journal \in [Slot -> Entry]
        /\ journalLeft \in [Slot -> SUBSET Entry] /\ used \in 0 .. MaxRecords
        /\ at \in 0 .. MaxRecords + 1 /\ MaxRecords \in Nat \ {0}
    BY DiskTypes DEF DiskInv, StoreInv
  <2>2. base'.data = [base.data EXCEPT ![i] = v] /\ base.data \in [Chunk -> Nat]
    BY <1>5, <2>1 DEF ApplyFails, WriteBase, File
  <2>3. \A j \in Chunk : base'.data[j] = IF j = i THEN v ELSE base.data[j]
    BY <2>2
  <2>4. \A j \in Chunk : base'.data[j] \in baseLeft'.data[j]
    BY <1>5, <2>1, <2>3, WriteBaseLeft DEF ApplyFails, DiskInv, Current
  <2> QED
    BY <1>5, <2>1, <2>4, WriteBaseLeft DEF ApplyFails, DiskInv, Current
<1>6. CASE Shrink
  <2>1. /\ base \in File /\ baseLeft \in Left /\ journal \in [Slot -> Entry]
        /\ journalLeft \in [Slot -> SUBSET Entry] /\ used \in 0 .. MaxRecords
        /\ at \in 0 .. MaxRecords + 1 /\ MaxRecords \in Nat \ {0}
    BY DiskTypes DEF DiskInv, StoreInv
  <2>2. CASE CutBase(ov.size)
    <3>1. \A i \in Chunk : base'.data[i] = IF i < ov.size THEN base.data[i] ELSE 0
      BY <2>2 DEF CutBase, Cut
    <3>2. base'.size = ov.size
      BY <2>2 DEF CutBase
    <3> QED
      BY <1>6, <2>2, <3>1, <3>2, CutBaseLeft DEF Shrink, DiskInv, Current
  <2> QED
    BY <1>6, <2>2 DEF Shrink, DiskInv, Current
<1>7. CASE CheckpointSync \/ ReplaySync
  BY <1>7, SyncBaseLeft, SyncedFields DEF CheckpointSync, ReplaySync, DiskInv, Current
<1>8. CASE Clear \/ ReplayClear
  <2>1. /\ base \in File /\ baseLeft \in Left /\ journal \in [Slot -> Entry]
        /\ journalLeft \in [Slot -> SUBSET Entry] /\ used \in 0 .. MaxRecords
        /\ at \in 0 .. MaxRecords + 1 /\ MaxRecords \in Nat \ {0}
    BY DiskTypes DEF DiskInv, StoreInv
  <2>2. 1 \in Slot
    BY <2>1 DEF Slot
  <2> QED
    BY <1>8, <2>1, <2>2, WriteJournalFields DEF Clear, ReplayClear, DiskInv, Current
<1>9. CASE Open \/ Attach
  BY <1>9, SyncJournalFields DEF Open, Attach, OpenJournal, NothingRare, DiskInv, Current
<1>10. CASE ReplayRecord
  <2>1. /\ base \in File /\ baseLeft \in Left /\ journal \in [Slot -> Entry]
        /\ journalLeft \in [Slot -> SUBSET Entry] /\ used \in 0 .. MaxRecords
        /\ at \in 0 .. MaxRecords + 1 /\ MaxRecords \in Nat \ {0}
    BY DiskTypes DEF DiskInv, StoreInv
  <2> QED
    BY <1>10, <2>1, ReplayRecordFields DEF ReplayRecord, DiskInv, Current
<1>11. CASE Crash
  <2>1. /\ baseLeft' = [size |-> {base'.size}, data |-> [i \in Chunk |-> {base'.data[i]}]]
        /\ journalLeft' = [k \in Slot |-> {journal'[k]}]
    BY <1>11 DEF Crash
  <2> QED
    BY <2>1 DEF Current
<1>12. CASE Begin \/ Commit \/ Rollback \/ Flush \/ Detach \/ Close
  BY <1>12
  DEF Begin, Commit, Rollback, Flush, Detach, Close, CallWriteBack, Current,
      DiskInv, memoryVars, fileVars, clientVars, NothingRare
<1>13. CASE CloseMemory \/ NothingToStore \/ Settle \/ CopyToMemory \/ LetGo
            \/ CheckpointSkipped
  BY <1>13
  DEF CloseMemory, NothingToStore, Settle, CopyToMemory, LetGo,
      CheckpointSkipped, Closed, Current, DiskInv, memoryVars, fileVars,
      clientVars, NothingRare
<1>14. CASE ReplayEnds \/ PreserveFails \/ JournalSyncFails \/ ShrinkFails
            \/ SettleFails \/ ClearFails
  BY <1>14
  DEF ReplayEnds, PreserveFails, JournalSyncFails, ShrinkFails, SettleFails,
      ClearFails, Current, DiskInv, memoryVars, fileVars, clientVars,
      NothingRare
<1>15. CASE OpenFails
  BY <1>15
  DEF OpenFails, Current, DiskInv, memoryVars, fileVars, clientVars,
      NothingRare
<1>16. ASSUME NEW i \in Chunk, Write(i)
       PROVE  Current'
  BY <1>16
  DEF Write, Current, DiskInv, memoryVars, fileVars, clientVars, NothingRare
<1>17. ASSUME NEW n \in Size \ {0}, Truncate(n)
       PROVE  Current'
  BY <1>17
  DEF Truncate, Current, DiskInv, memoryVars, fileVars, clientVars,
      NothingRare
<1>18. ASSUME NEW chunks \in SUBSET Chunk, CopyFails(chunks)
       PROVE  Current'
  BY <1>18
  DEF CopyFails, Current, DiskInv, memoryVars, fileVars, clientVars,
      NothingRare
<1>19. CASE UNCHANGED vars
  BY <1>19
  DEF vars, Current, DiskInv, memoryVars, fileVars, clientVars, NothingRare
<1> QED
  BY <1>1, <1>2, <1>3, <1>4, <1>5, <1>6, <1>7, <1>8, <1>9, <1>10, <1>11,
     <1>12, <1>13, <1>14, <1>15, <1>16, <1>17, <1>18, <1>19
  DEF Next, Client, WriteBack, Recovery, Failure

LEMMA NewRecordFields ==
  /\ NewRecord.size = ov.size /\ NewRecord.salt = salt
  /\ \A i \in Chunk : NewRecord.page[i] = IF i \in dirty /\ i < ov.size THEN ov.page[i] ELSE NoPage
BY DEF NewRecord

LEMMA EmptyFields == Empty.salt = 0 /\ \A i \in Chunk : Empty.page[i] = NoPage
BY DEF Empty, NoPages

(* A commit is what its record adds to the ones before it.                 *)
LEMMA RecordRecovers ==
  ASSUME DiskInv, Live, ~InTxn, NEW h, \A k \in 1 .. used : h[k] = journal[k],
         h[used + 1] = NewRecord
  PROVE  Recovers(h, 1 .. used + 1, baseLeft, committed)
<1>1. /\ used \in Nat /\ committed \in File /\ committed.size = ov.size /\ touched = {}
  BY DiskTypes DEF DiskInv, StoreInv, ReadInv, Outside, Live
<1>2. 1 .. used + 1 # {} /\ used + 1 \in Nat /\ used + 1 > 0
  BY <1>1
<1>3. ASSUME NEW k \in 1 .. used + 1, \A m \in 1 .. used + 1 : m <= k
      PROVE  h[k].size = committed.size
  <2>1. k = used + 1
    <3>1. used + 1 \in 1 .. used + 1
      BY <1>1
    <3>2. used + 1 <= k
      BY <1>3, <3>1
    <3> QED
      BY <1>1, <3>2
  <2> QED
    BY <1>1, <2>1, NewRecordFields
<1>4. ASSUME NEW i \in Chunk, i < committed.size
      PROVE  Durably(h, 1 .. used + 1, baseLeft, i, committed.data[i])
  <2>1. ReadChunk(ov, base, i) = committed.data[i]
    BY <1>1, <1>4 DEF DiskInv, StoreInv, ReadInv, Unchanged, Live
  <2>2. CASE i \in dirty
    <3>1. ov.page[i] # NoPage /\ h[used + 1].page[i] = ov.page[i]
      BY <1>1, <1>4, <2>2, NewRecordFields DEF DiskInv, StoreInv, ReadInv, DirtyHeld
    <3>2. h[used + 1].page[i] = committed.data[i]
      BY <2>1, <3>1 DEF ReadChunk
    <3> QED
      BY <1>2, <3>2, LastRecord
  <2>3. CASE i \notin dirty
    <3>1. Durably(journal, 1 .. used, baseLeft, i, committed.data[i])
      BY <1>1, <1>4, <2>3 DEF DiskInv, WriteAhead
    <3>2. Durably(h, 1 .. used, baseLeft, i, committed.data[i])
      BY <3>1, SameRecords
    <3>3. Leaves(h[used + 1], i)
      BY <1>1, <1>4, <2>3, NewRecordFields DEF Leaves
    <3> QED
      BY <1>1, <3>2, <3>3, OneMoreRecord
  <2> QED
    BY <2>2, <2>3
<1> QED
  BY <1>2, <1>3, <1>4 DEF Recovers

(* A crash while a record is appended finds all of it, or nothing of it,   *)
(* or what an append that failed left there.                               *)
LEMMA AppendingRecovers ==
  ASSUME DiskInv, Live, ~InTxn, used < MaxRecords, NEW j \in [Slot -> Entry],
         \A k \in Slot : j[k] \in journalLeft[k] \/ (k = used + 1 /\ j[k] \in {NewRecord, Empty})
  PROVE  \E f \in allowed : Recovers(j, Valid(j), baseLeft, f)
<1>1. /\ used \in 0 .. MaxRecords /\ MaxRecords \in Nat \ {0} /\ used + 1 \in 0 .. MaxRecords
      /\ used + 1 \in Slot /\ 1 .. used \subseteq Slot
  BY DiskTypes DEF DiskInv, StoreInv, Slot
<1>2. \A k \in 1 .. used : j[k] = journal[k] /\ j[k] # Empty /\ j[k].salt = salt
  <2>1. \A k \in 1 .. used : journalLeft[k] = {journal[k]} /\ journal[k] # Empty /\ journal[k].salt = salt
    BY DEF DiskInv, Generation
  <2>2. \A k \in 1 .. used : k \in Slot /\ k # used + 1
    BY <1>1
  <2> QED
    BY <2>1, <2>2
<1>3. CASE j[used + 1] = NewRecord
  <2>1. NewRecord # Empty /\ NewRecord.salt = salt
    BY NewRecordFields, EmptyFields, BoundsAssumption DEF DiskInv, StoreInv, ReadInv, Basics, Ready
  <2>2. \A k \in 1 .. used + 1 : j[k] # Empty /\ j[k].salt = salt
    <3>1. \A k \in 1 .. used + 1 : k \in 1 .. used \/ k = used + 1
      BY <1>1
    <3> QED
      BY <1>2, <1>3, <2>1, <3>1
  <2>3. used + 1 < MaxRecords => j[used + 1 + 1].salt # salt
    <3>1. ASSUME used + 1 < MaxRecords
          PROVE  used + 1 + 1 \in Slot /\ used + 1 + 1 > used + 1 /\ used + 1 + 1 # used + 1
      BY <1>1, <3>1 DEF Slot
    <3> QED
      BY <3>1 DEF DiskInv, Generation
  <2>4. Valid(j) = 1 .. used + 1
    <3>1. j[1].salt = salt
      BY <1>1, <2>2
    <3> QED
      BY <1>1, <2>2, <2>3, <3>1, ValidRecords
  <2>5. Recovers(j, 1 .. used + 1, baseLeft, committed)
    BY <1>2, <1>3, RecordRecovers
  <2> QED
    BY <2>4, <2>5 DEF DiskInv, Kept
<1>4. CASE j[used + 1] = Empty
  <2>1. Valid(j) = 1 .. used
    <3>1. used > 0 => j[1].salt = salt
      BY <1>1, <1>2
    <3>2. \A k \in 1 .. used : j[k] # Empty /\ j[k].salt = j[1].salt
      BY <1>1, <1>2, <3>1
    <3> QED
      BY <1>1, <1>4, <3>2, ValidRecords
  <2>2. PICK f \in allowed : Recovers(journal, 1 .. used, baseLeft, f)
    BY DEF DiskInv, Kept
  <2>3. Recovers(j, 1 .. used, baseLeft, f)
    BY <1>2, <2>2, SameRecords
  <2> QED
    BY <2>1, <2>3
<1>5. CASE j[used + 1] \notin {NewRecord, Empty}
  <2>1. j \in Journals
    BY <1>5 DEF Journals
  <2> QED
    BY <2>1 DEF DiskInv, OnDisk
<1> QED
  BY <1>3, <1>4, <1>5

LEMMA SomeRecords ==
  ASSUME NEW n \in Nat, n > 0
  PROVE  1 .. n # {}
<1>1. 1 \in 1 .. n
  OBVIOUS
<1> QED
  BY <1>1

(* A write to the base file only touches chunks that the record has.       *)
LEMMA WriteDurably ==
  ASSUME DiskInv, step = "apply", NEW i \in todo, NEW v, WriteBase(i, v),
         NEW k \in Chunk, NEW w, Durably(journal, 1 .. used, baseLeft, k, w)
  PROVE  Durably(journal, 1 .. used, baseLeft', k, w)
<1>1. /\ base \in File /\ baseLeft \in Left /\ used \in Nat /\ i \in Chunk /\ base.size \in Int
      /\ ZeroPast(base)
  BY DiskTypes, ReadTypes DEF DiskInv, StoreInv, ReadInv, ZeroPastEnd
<1>2. used \in 1 .. used /\ ~ Leaves(journal[used], i)
  <2>1. i \in dirty /\ i < ov.size /\ ov.page[i] # NoPage
    BY DEF DiskInv, StoreInv, ReadInv, Basics, Ready
  <2> QED
    BY <1>1, <2>1 DEF DiskInv, Staged, Leaves
<1>3. CASE FromRecord(journal, 1 .. used, k, w)
  BY <1>3 DEF Durably
<1>4. CASE FromBase(journal, 1 .. used, baseLeft, k, w)
  <2>1. k # i
    BY <1>2, <1>4 DEF FromBase
  <2>2. baseLeft'.data[k] = baseLeft.data[k] /\ baseLeft'.size = baseLeft.size \union {base'.size}
    BY <1>1, <2>1, WriteBaseLeft
  <2>3. k < base'.size
    <3>1. k < base.size /\ k \in Int /\ i \in Int
      BY <1>1, <1>4, NAssumption DEF FromBase, DiskInv, Current, Chunk
    <3>2. base'.size = IF i + 1 > base.size THEN i + 1 ELSE base.size
      BY DEF WriteBase
    <3> QED
      BY <1>1, <3>1, <3>2
  <2> QED
    BY <1>4, <2>2, <2>3 DEF FromBase, Durably
<1> QED
  BY <1>3, <1>4 DEF Durably

LEMMA CutDurably ==
  ASSUME NEW n, CutBase(n), NEW V, NEW k \in Chunk, k < n, NEW w, Durably(journal, V, baseLeft, k, w)
  PROVE  Durably(journal, V, baseLeft', k, w)
<1>1. CASE FromRecord(journal, V, k, w)
  BY <1>1 DEF Durably
<1>2. CASE FromBase(journal, V, baseLeft, k, w)
  BY <1>2, CutBaseLeft DEF FromBase, Durably
<1> QED
  BY <1>1, <1>2 DEF Durably

LEMMA StagedValid ==
  ASSUME DiskInv, step \in {"apply", "settle"}
  PROVE  /\ Valid(journal) = 1 .. used /\ Live /\ used > 0
         /\ \A j \in Journals : j = journal
<1>1. Live
  BY DEF DiskInv, StoreInv, ReadInv, Basics, Control, Live, Writing, Replaying
<1>2. /\ used \in 0 .. MaxRecords /\ MaxRecords \in Nat \ {0} /\ journal \in [Slot -> Entry]
  BY DiskTypes DEF DiskInv, StoreInv
<1>3. \A k \in 1 .. used : journal[k] # Empty /\ journal[k].salt = salt
  BY <1>1 DEF DiskInv, Generation
<1>4. used > 0 /\ (used < MaxRecords => journal[used + 1].salt # salt)
  <2>1. used < MaxRecords => used + 1 \in Slot /\ used + 1 > used
    BY <1>2 DEF Slot
  <2> QED
    BY <2>1 DEF DiskInv, Staged
<1>5. Valid(journal) = 1 .. used
  <2>1. journal[1].salt = salt
    BY <1>2, <1>3, <1>4
  <2> QED
    BY <1>2, <1>3, <1>4, <2>1, ValidRecords
<1>6. \A j \in Journals : j = journal
  <2>1. \A k \in Slot : journalLeft[k] = {journal[k]}
    BY DEF DiskInv, Staged
  <2> QED
    BY <1>2, <2>1, OneJournal DEF Journals
<1> QED
  BY <1>1, <1>4, <1>5, <1>6

(* When the journal is cleared, the base file holds the last commit.       *)
LEMMA ClearsCommitted ==
  ASSUME DiskInv, step = "clear"
  PROVE  base = committed /\ allowed = {committed}
<1>1. Live /\ ~InTxn
  BY DEF DiskInv, StoreInv, ReadInv, Basics, Control, Live, Stepping, Replaying, InTxn
<1>2. dirty = {} /\ ov.size = stored
  BY <1>1 DEF DiskInv, Clearing, StoreInv, OkIsStored
<1>3. allowed = {committed}
  BY <1>1, <1>2, AllStored DEF DiskInv
<1>4. /\ base \in File /\ committed \in File /\ ov.size \in 0 .. N /\ base.size \in 0 .. N
      /\ committed.size = ov.size /\ ZeroPast(base) /\ ZeroPast(committed)
  BY <1>1, DiskTypes DEF DiskInv, StoreInv, ReadInv, Outside, ZeroPastEnd, Live
<1>5. \A i \in Chunk : i < ov.size => i < base.size /\ base.data[i] = committed.data[i]
  BY <1>1, <1>2 DEF DiskInv, WriteAhead
<1>6. base.size = ov.size
  <2>1. base.size <= ov.size
    BY <1>1, <1>2 DEF DiskInv, BaseSize
  <2>2. ov.size > 0 => ov.size - 1 \in Chunk /\ ov.size - 1 < ov.size
    BY <1>4, NAssumption DEF Chunk
  <2>3. ov.size > 0 => ov.size - 1 < base.size
    BY <1>5, <2>2
  <2> QED
    BY <1>4, <2>1, <2>3
<1>7. \A i \in Chunk : base.data[i] = committed.data[i]
  <2>1. \A i \in Chunk : ~ (i < ov.size) => base.size <= i /\ committed.size <= i
    BY <1>4, <1>6 DEF Chunk
  <2> QED
    BY <1>4, <1>5, <2>1 DEF ZeroPast
<1>8. base = committed
  BY <1>4, <1>6, <1>7, SameFile
<1> QED
  BY <1>3, <1>8

LEMMA ClearedValid ==
  ASSUME NEW j, j[1] = Empty
  PROVE  Valid(j) = {}
<1>1. \A k \in Slot : 1 \in 1 .. k
  BY BoundsAssumption DEF Slot
<1> QED
  BY <1>1 DEF Valid

(* A record has a size that covers its chunks. *)
LEMMA WellFormedStep == NothingRare /\ DiskInv /\ [Next]_vars => WellFormed'
<1> SUFFICES ASSUME NothingRare /\ DiskInv, [Next]_vars PROVE WellFormed'
  OBVIOUS
<1>1. CASE Append
  <2>1. /\ base \in File /\ baseLeft \in Left /\ journal \in [Slot -> Entry]
        /\ journalLeft \in [Slot -> SUBSET Entry] /\ used \in 0 .. MaxRecords
        /\ at \in 0 .. MaxRecords + 1 /\ MaxRecords \in Nat \ {0}
    BY DiskTypes DEF DiskInv, StoreInv
  <2>2. used + 1 \in Slot
    BY <1>1, <2>1 DEF Append, Slot
  <2>3. \A i \in Chunk : NewRecord.page[i] # NoPage => i < NewRecord.size
    BY NewRecordFields
  <2>4. \A k \in Slot : \A r \in journalLeft'[k] : r \in journalLeft[k] \/ r \in {NewRecord, Empty}
    BY <1>1, <2>1, <2>2, WriteJournalFields DEF Append
  <2>5. allowed' = allowed
    BY <1>1 DEF Append, clientVars
  <2> QED
    BY <2>3, <2>4, <2>5, EmptyFields DEF DiskInv, WellFormed
<1>2. CASE AppendFails
  <2>1. /\ base \in File /\ baseLeft \in Left /\ journal \in [Slot -> Entry]
        /\ journalLeft \in [Slot -> SUBSET Entry] /\ used \in 0 .. MaxRecords
        /\ at \in 0 .. MaxRecords + 1 /\ MaxRecords \in Nat \ {0}
    BY DiskTypes DEF DiskInv, StoreInv
  <2>2. used + 1 \in Slot
    BY <1>2, <2>1, AppendFailsFields
  <2>3. \A i \in Chunk : NewRecord.page[i] # NoPage => i < NewRecord.size
    BY NewRecordFields
  <2>4. \A k \in Slot : \A r \in journalLeft'[k] : r \in journalLeft[k] \/ r \in {NewRecord, Empty}
    BY <1>2, <2>1, <2>2, AppendFailsFields DEF AppendFails
  <2>5. allowed' = allowed
    BY <1>2 DEF AppendFails, clientVars
  <2> QED
    BY <2>3, <2>4, <2>5, EmptyFields DEF DiskInv, WellFormed
<1>3. CASE JournalSynced \/ Open \/ Attach
  <2>1. \A k \in Slot : journalLeft'[k] \subseteq journalLeft[k]
    BY <1>3, SyncJournalFields DEF JournalSynced, Open, Attach, OpenJournal, NothingRare, DiskInv, Current
  <2>2. allowed' = allowed \/ allowed' = {committed}
    BY <1>3 DEF JournalSynced, Open, Attach, clientVars
  <2>3. ZeroPast(committed)
    BY DEF DiskInv, StoreInv, ReadInv, ZeroPastEnd
  <2> QED
    BY <2>1, <2>2, <2>3 DEF DiskInv, WellFormed
<1>4. CASE Commit
  <2>1. ZeroPast(committed)'
    BY ZeroPastEndStep DEF DiskInv, StoreInv, ZeroPastEnd
  <2>2. \A f \in allowed' : f \in allowed \/ f = committed'
    BY <1>4 DEF Commit
  <2>3. \A f \in allowed' : ZeroPast(f)
    BY <2>1, <2>2 DEF DiskInv, WellFormed, ZeroPast
  <2>4. journalLeft' = journalLeft
    BY <1>4 DEF Commit, fileVars
  <2> QED
    BY <2>3, <2>4 DEF DiskInv, WellFormed
<1>5. CASE Clear \/ ReplayClear
  <2>1. /\ base \in File /\ baseLeft \in Left /\ journal \in [Slot -> Entry]
        /\ journalLeft \in [Slot -> SUBSET Entry] /\ used \in 0 .. MaxRecords
        /\ at \in 0 .. MaxRecords + 1 /\ MaxRecords \in Nat \ {0}
    BY DiskTypes DEF DiskInv, StoreInv
  <2>2. 1 \in Slot
    BY <2>1 DEF Slot
  <2>3. \A k \in Slot : \A r \in journalLeft'[k] : r \in journalLeft[k] \/ r = Empty
    BY <1>5, <2>1, <2>2, WriteJournalFields DEF Clear, ReplayClear
  <2>4. ZeroPast(committed)' /\ ZeroPast(base) /\ ZeroPast(committed)
    BY ZeroPastEndStep DEF DiskInv, StoreInv, ReadInv, ZeroPastEnd
  <2>5. \A f \in allowed' : f \in allowed \cup {committed, base} \/ f = committed'
    BY <1>5 DEF Clear, ReplayClear, clientVars
  <2>6. \A f \in allowed' : ZeroPast(f)
    BY <2>4, <2>5 DEF DiskInv, WellFormed, ZeroPast
  <2> QED
    BY <2>3, <2>6, EmptyFields DEF DiskInv, WellFormed
<1>6. CASE Crash
  <2>1. \A k \in Slot : journalLeft'[k] \subseteq journalLeft[k]
    BY <1>6 DEF Crash
  <2>2. allowed' = allowed
    BY <1>6 DEF Crash
  <2> QED
    BY <2>1, <2>2 DEF DiskInv, WellFormed
<1>7. CASE Begin \/ Rollback \/ Flush \/ Detach \/ Close \/ CloseMemory
  BY <1>7
  DEF Begin, Rollback, Flush, Detach, Close, CloseMemory, CallWriteBack,
      Closed, WellFormed, DiskInv, memoryVars, fileVars, clientVars,
      NothingRare
<1>8. CASE NothingToStore \/ Shrink \/ Settle \/ CheckpointSync \/
           CopyToMemory \/ LetGo
  BY <1>8
  DEF NothingToStore, Shrink, Settle, CheckpointSync, CopyToMemory, LetGo,
      Closed, WellFormed, DiskInv, memoryVars, fileVars, clientVars,
      NothingRare
<1>9. CASE CheckpointSkipped \/ ReplayRecord \/ ReplayEnds \/ ReplaySync \/
           PreserveFails \/ JournalSyncFails
  BY <1>9
  DEF CheckpointSkipped, ReplayRecord, ReplayEnds, ReplaySync,
      PreserveFails, JournalSyncFails, WellFormed, DiskInv, memoryVars,
      fileVars, clientVars, NothingRare
<1>10. CASE ShrinkFails \/ SettleFails \/ ClearFails \/ OpenFails
  BY <1>10
  DEF ShrinkFails, SettleFails, ClearFails, OpenFails, WellFormed, DiskInv,
      memoryVars, fileVars, clientVars, NothingRare
<1>11. ASSUME NEW i \in Chunk, Write(i)
       PROVE  WellFormed'
  BY <1>11
  DEF Write, WellFormed, DiskInv, memoryVars, fileVars, clientVars,
      NothingRare
<1>12. ASSUME NEW n \in Size \ {0}, Truncate(n)
       PROVE  WellFormed'
  BY <1>12
  DEF Truncate, WellFormed, DiskInv, memoryVars, fileVars, clientVars,
      NothingRare
<1>13. ASSUME NEW i \in Chunk, Apply(i)
       PROVE  WellFormed'
  BY <1>13
  DEF Apply, WellFormed, DiskInv, memoryVars, fileVars, clientVars,
      NothingRare
<1>14. ASSUME NEW i \in Chunk, NEW v \in {base.data[i], ov.page[i], Torn}, ApplyFails(i, v)
       PROVE  WellFormed'
  BY <1>14
  DEF ApplyFails, WellFormed, DiskInv, memoryVars, fileVars, clientVars,
      NothingRare
<1>15. ASSUME NEW chunks \in SUBSET Chunk, CopyFails(chunks)
       PROVE  WellFormed'
  BY <1>15
  DEF CopyFails, WellFormed, DiskInv, memoryVars, fileVars, clientVars,
      NothingRare
<1>16. CASE UNCHANGED vars
  BY <1>16
  DEF vars, WellFormed, DiskInv, memoryVars, fileVars, clientVars,
      NothingRare
<1> QED
  BY <1>1, <1>2, <1>3, <1>4, <1>5, <1>6, <1>7, <1>8, <1>9, <1>10, <1>11,
     <1>12, <1>13, <1>14, <1>15, <1>16
  DEF Next, Client, WriteBack, Recovery, Failure

(* The records of a generation are synced one by one. *)
LEMMA GenerationStep == NothingRare /\ DiskInv /\ [Next]_vars => Generation'
<1> SUFFICES ASSUME NothingRare /\ DiskInv, [Next]_vars PROVE Generation'
  OBVIOUS
<1>0. Live' => Live \/ step = "replayclear"
  BY LiveStep DEF DiskInv, StoreInv, ReadInv
<1>1. CASE Append
  <2>1. /\ base \in File /\ baseLeft \in Left /\ journal \in [Slot -> Entry]
        /\ journalLeft \in [Slot -> SUBSET Entry] /\ used \in 0 .. MaxRecords
        /\ at \in 0 .. MaxRecords + 1 /\ MaxRecords \in Nat \ {0}
    BY DiskTypes DEF DiskInv, StoreInv
  <2>2. used + 1 \in Slot
    BY <1>1, <2>1 DEF Append, Slot
  <2>3. \A k \in Slot : k # used + 1 => journal'[k] = journal[k] /\ journalLeft'[k] = journalLeft[k]
    BY <1>1, <2>1, <2>2, WriteJournalFields DEF Append
  <2>4. used' = used /\ salt' = salt /\ Live
    BY <1>1 DEF Append, Live, Writing, DiskInv, StoreInv, ReadInv, Basics, Control, Replaying
  <2>5. \A k \in 1 .. used : k \in Slot /\ k # used + 1
    BY <2>1 DEF Slot
  <2>6. \A k \in Slot : k > used + 1 => k # used + 1
    BY <2>1 DEF Slot
  <2> QED
    BY <2>3, <2>4, <2>5, <2>6 DEF DiskInv, Generation
<1>2. CASE AppendFails
  <2>1. /\ base \in File /\ baseLeft \in Left /\ journal \in [Slot -> Entry]
        /\ journalLeft \in [Slot -> SUBSET Entry] /\ used \in 0 .. MaxRecords
        /\ at \in 0 .. MaxRecords + 1 /\ MaxRecords \in Nat \ {0}
    BY DiskTypes DEF DiskInv, StoreInv
  <2>2. used + 1 \in Slot
    BY <1>2, <2>1, AppendFailsFields
  <2>3. \A k \in Slot : k # used + 1 => journal'[k] = journal[k] /\ journalLeft'[k] = journalLeft[k]
    BY <1>2, <2>1, <2>2, AppendFailsFields DEF AppendFails
  <2>4. used' = used /\ salt' = salt /\ Live
    BY <1>2 DEF AppendFails, Live, Writing, DiskInv, StoreInv, ReadInv, Basics, Control, Replaying
  <2>5. \A k \in 1 .. used : k \in Slot /\ k # used + 1
    BY <2>1 DEF Slot
  <2>6. \A k \in Slot : k > used + 1 => k # used + 1
    BY <2>1 DEF Slot
  <2> QED
    BY <2>3, <2>4, <2>5, <2>6 DEF DiskInv, Generation
<1>3. CASE JournalSynced
  <2>1. /\ base \in File /\ baseLeft \in Left /\ journal \in [Slot -> Entry]
        /\ journalLeft \in [Slot -> SUBSET Entry] /\ used \in 0 .. MaxRecords
        /\ at \in 0 .. MaxRecords + 1 /\ MaxRecords \in Nat \ {0}
    BY DiskTypes DEF DiskInv, StoreInv
  <2>2. /\ used' = used + 1 /\ salt' = salt /\ journal' = journal
        /\ \A k \in Slot : journalLeft'[k] = {journal[k]}
    BY <1>3, SyncJournalFields DEF JournalSynced
  <2>3. Live /\ salt \in Salts /\ journal[used + 1] = NewRecord /\ used < MaxRecords
    BY <1>3 DEF JournalSynced, Live, Writing, DiskInv, StoreInv, ReadInv, Basics, Control, Replaying, Ready,
            Staged
  <2>4. journal[used + 1] # Empty /\ journal[used + 1].salt = salt
    BY <2>3, NewRecordFields, EmptyFields, BoundsAssumption
  <2>5. \A k \in 1 .. used + 1 : k \in Slot /\ (k \in 1 .. used \/ k = used + 1)
    BY <2>1, <2>3 DEF Slot
  <2>6. \A k \in 1 .. used + 1 : journal[k] # Empty /\ journal[k].salt = salt
    BY <2>3, <2>4, <2>5 DEF DiskInv, Generation
  <2>7. \A k \in Slot : k > used + 1 + 1 => journal[k].salt # salt
    <3>1. \A k \in Slot : k > used + 1 + 1 => k > used + 1
      BY <2>1 DEF Slot
    <3> QED
      BY <2>3, <3>1 DEF DiskInv, Generation, Current
  <2> QED
    BY <2>2, <2>5, <2>6, <2>7 DEF Generation
<1>4. CASE Clear \/ ReplayClear
  <2>1. /\ base \in File /\ baseLeft \in Left /\ journal \in [Slot -> Entry]
        /\ journalLeft \in [Slot -> SUBSET Entry] /\ used \in 0 .. MaxRecords
        /\ at \in 0 .. MaxRecords + 1 /\ MaxRecords \in Nat \ {0}
    BY DiskTypes DEF DiskInv, StoreInv
  <2>2. 1 \in Slot
    BY <2>1 DEF Slot
  <2>3. used' = 0 /\ salt' \notin LeftSalts /\ \A k \in Slot : k > 1 => journalLeft'[k] = journalLeft[k]
    BY <1>4, <2>1, <2>2, WriteJournalFields DEF Clear, ReplayClear, NewJournal, FreshSalts
  <2>4. \A k \in Slot : k > 1 => \A r \in journalLeft[k] : r.salt \in LeftSalts
    BY DEF LeftSalts
  <2>5. \A k \in 1 .. 0 : FALSE
    OBVIOUS
  <2> QED
    BY <2>3, <2>4, <2>5 DEF Generation
<1>5. CASE LetGo \/ Crash \/ CloseMemory \/ Attach \/ Open \/ OpenFails
  <2>1. ~ Live' /\ step' \notin {"journalsync", "apply", "settle", "checkpoint", "clear"}
    BY <1>5 DEF CloseMemory, LetGo, Crash, Attach, Open, OpenFails, Closed, Idle, Live, Writing, Stepping,
            DiskInv, StoreInv, ReadInv, Basics, Control, Replaying
  <2> QED
    BY <2>1 DEF Generation
<1>6. CASE Begin \/ Commit \/ Rollback \/ Flush \/ Detach \/ Close
  BY <1>6, <1>0
  DEF Begin, Commit, Rollback, Flush, Detach, Close, CallWriteBack,
      Generation, DiskInv, Idle, memoryVars, fileVars, clientVars,
      NothingRare
<1>7. CASE NothingToStore \/ Shrink \/ Settle \/ CheckpointSync \/
           CopyToMemory \/ CheckpointSkipped
  BY <1>7, <1>0
  DEF NothingToStore, Shrink, Settle, CheckpointSync, CopyToMemory,
      CheckpointSkipped, Generation, DiskInv, Idle, memoryVars, fileVars,
      clientVars, NothingRare
<1>8. CASE ReplayRecord \/ ReplayEnds \/ ReplaySync \/ PreserveFails \/
           JournalSyncFails \/ ShrinkFails
  BY <1>8, <1>0
  DEF ReplayRecord, ReplayEnds, ReplaySync, PreserveFails, JournalSyncFails,
      ShrinkFails, Generation, DiskInv, Idle, memoryVars, fileVars,
      clientVars, NothingRare
<1>9. CASE SettleFails \/ ClearFails
  BY <1>9, <1>0
  DEF SettleFails, ClearFails, Generation, DiskInv, Idle, memoryVars,
      fileVars, clientVars, NothingRare
<1>10. ASSUME NEW i \in Chunk, Write(i)
       PROVE  Generation'
  BY <1>10, <1>0
  DEF Write, Generation, DiskInv, Idle, memoryVars, fileVars, clientVars,
      NothingRare
<1>11. ASSUME NEW n \in Size \ {0}, Truncate(n)
       PROVE  Generation'
  BY <1>11, <1>0
  DEF Truncate, Generation, DiskInv, Idle, memoryVars, fileVars, clientVars,
      NothingRare
<1>12. ASSUME NEW i \in Chunk, Apply(i)
       PROVE  Generation'
  BY <1>12, <1>0
  DEF Apply, Generation, DiskInv, Idle, memoryVars, fileVars, clientVars,
      NothingRare
<1>13. ASSUME NEW i \in Chunk, NEW v \in {base.data[i], ov.page[i], Torn}, ApplyFails(i, v)
       PROVE  Generation'
  BY <1>13, <1>0
  DEF ApplyFails, Generation, DiskInv, Idle, memoryVars, fileVars,
      clientVars, NothingRare
<1>14. ASSUME NEW chunks \in SUBSET Chunk, CopyFails(chunks)
       PROVE  Generation'
  BY <1>14, <1>0
  DEF CopyFails, Generation, DiskInv, Idle, memoryVars, fileVars,
      clientVars, NothingRare
<1>15. CASE UNCHANGED vars
  BY <1>15, <1>0
  DEF vars, Generation, DiskInv, Idle, memoryVars, fileVars, clientVars,
      NothingRare, Live
<1> QED
  BY <1>1, <1>2, <1>3, <1>4, <1>5, <1>6, <1>7, <1>8, <1>9, <1>10, <1>11,
     <1>12, <1>13, <1>14, <1>15
  DEF Next, Client, WriteBack, Recovery, Failure

(* A write-back applies the record it appended. *)
LEMMA StagedStep == DiskInv /\ [Next]_vars => Staged'
<1> SUFFICES ASSUME DiskInv, [Next]_vars PROVE Staged'
  OBVIOUS
<1>1. CASE Append
  <2>1. /\ base \in File /\ baseLeft \in Left /\ journal \in [Slot -> Entry]
        /\ journalLeft \in [Slot -> SUBSET Entry] /\ used \in 0 .. MaxRecords
        /\ at \in 0 .. MaxRecords + 1 /\ MaxRecords \in Nat \ {0}
    BY DiskTypes DEF DiskInv, StoreInv
  <2>2. used + 1 \in Slot
    BY <1>1, <2>1 DEF Append, Slot
  <2>3. journal'[used + 1] = NewRecord
    BY <1>1, <2>1, <2>2, WriteJournalFields DEF Append
  <2>4. step' = "journalsync" /\ used' = used /\ NewRecord' = NewRecord
    BY <1>1 DEF Append, NewRecord, memoryVars
  <2> QED
    BY <2>3, <2>4 DEF Staged
<1>2. CASE JournalSynced
  <2>1. /\ base \in File /\ baseLeft \in Left /\ journal \in [Slot -> Entry]
        /\ journalLeft \in [Slot -> SUBSET Entry] /\ used \in 0 .. MaxRecords
        /\ at \in 0 .. MaxRecords + 1 /\ MaxRecords \in Nat \ {0}
    BY DiskTypes DEF DiskInv, StoreInv
  <2>2. /\ used' = used + 1 /\ salt' = salt /\ journal' = journal /\ ov' = ov /\ dirty' = dirty
        /\ step' = "apply" /\ \A k \in Slot : journalLeft'[k] = {journal[k]}
    BY <1>2, SyncJournalFields DEF JournalSynced, memoryVars
  <2>3. Live /\ journal[used + 1] = NewRecord /\ dirty \subseteq Chunk
    BY <1>2, ReadTypes DEF JournalSynced, Live, Writing, DiskInv, StoreInv, ReadInv, Basics, Control,
            Replaying, Staged
  <2>4. journal[used + 1].size = ov.size
        /\ \A i \in dirty : i < ov.size => journal[used + 1].page[i] = ov.page[i]
    BY <2>3, NewRecordFields
  <2>5. \A k \in Slot : k > used + 1 => journal[k].salt # salt
    BY <2>3 DEF DiskInv, Generation, Current
  <2> QED
    BY <2>1, <2>2, <2>4, <2>5 DEF Staged
<1>3. ASSUME NEW i \in Chunk, Apply(i)
      PROVE  Staged'
  <2>1. /\ step = "apply" /\ step' = "apply" /\ ov' = ov /\ dirty' = dirty /\ used' = used /\ salt' = salt
        /\ journal' = journal /\ journalLeft' = journalLeft
    BY <1>3 DEF Apply, memoryVars
  <2> QED
    BY <2>1 DEF DiskInv, Staged
<1>4. CASE NothingToStore \/ PreserveFails \/ AppendFails \/
           JournalSyncFails \/ ShrinkFails \/ SettleFails \/ Settle \/
           CheckpointSkipped \/ Clear \/ ClearFails
  <2>1. step' \notin {"journalsync", "apply", "settle"}
    BY <1>4 DEF NothingToStore, PreserveFails, AppendFails, JournalSyncFails, ShrinkFails,
            SettleFails, Settle, CheckpointSkipped, Clear, ClearFails, AfterWriteBack, AfterCheckpoint
  <2> QED
    BY <2>1 DEF Staged
<1>5. ASSUME NEW i \in Chunk, NEW v \in {base.data[i], ov.page[i], Torn}, ApplyFails(i, v)
      PROVE  Staged'
  <2>1. step' \notin {"journalsync", "apply", "settle"}
    BY <1>5 DEF ApplyFails, AfterWriteBack, AfterCheckpoint
  <2> QED
    BY <2>1 DEF Staged
<1>6. CASE Begin \/ Commit \/ Rollback \/ Flush \/ Detach \/ Close
  BY <1>6
  DEF Begin, Commit, Rollback, Flush, Detach, Close, CallWriteBack, Staged,
      NewRecord, DiskInv, Idle, memoryVars, fileVars, clientVars
<1>7. CASE CloseMemory \/ Open \/ Attach \/ Shrink \/ CheckpointSync \/
           CopyToMemory
  BY <1>7
  DEF CloseMemory, Open, Attach, Shrink, CheckpointSync, CopyToMemory,
      Closed, Staged, NewRecord, DiskInv, Idle, memoryVars, fileVars,
      clientVars
<1>8. CASE LetGo \/ ReplayRecord \/ ReplayEnds \/ ReplaySync \/ ReplayClear
           \/ OpenFails
  BY <1>8
  DEF LetGo, ReplayRecord, ReplayEnds, ReplaySync, ReplayClear, OpenFails,
      Closed, Staged, NewRecord, DiskInv, Idle, memoryVars, fileVars,
      clientVars
<1>9. CASE Crash
  BY <1>9
  DEF Crash, Closed, Staged, NewRecord, DiskInv, Idle, memoryVars, fileVars,
      clientVars
<1>10. ASSUME NEW i \in Chunk, Write(i)
       PROVE  Staged'
  BY <1>10
  DEF Write, Staged, NewRecord, DiskInv, Idle, memoryVars, fileVars,
      clientVars
<1>11. ASSUME NEW n \in Size \ {0}, Truncate(n)
       PROVE  Staged'
  BY <1>11
  DEF Truncate, Staged, NewRecord, DiskInv, Idle, memoryVars, fileVars,
      clientVars
<1>12. ASSUME NEW chunks \in SUBSET Chunk, CopyFails(chunks)
       PROVE  Staged'
  BY <1>12
  DEF CopyFails, Staged, NewRecord, DiskInv, Idle, memoryVars, fileVars,
      clientVars
<1>13. CASE UNCHANGED vars
  BY <1>13
  DEF vars, Staged, NewRecord, DiskInv, Idle, memoryVars, fileVars,
      clientVars
<1> QED
  BY <1>1, <1>2, <1>3, <1>4, <1>5, <1>6, <1>7, <1>8, <1>9, <1>10, <1>11,
     <1>12, <1>13
  DEF Next, Client, WriteBack, Recovery, Failure

(* A write-back leaves the base file no longer than it knows. *)
LEMMA BaseSizeStep == NothingRare /\ DiskInv /\ [Next]_vars => BaseSize'
<1> SUFFICES ASSUME NothingRare /\ DiskInv, [Next]_vars PROVE BaseSize'
  OBVIOUS
<1>0. Live' => Live \/ step = "replayclear"
  BY LiveStep DEF DiskInv, StoreInv, ReadInv
<1>1. CASE JournalSynced
  <2>1. Live
    BY <1>1 DEF JournalSynced, Live, DiskInv, StoreInv, ReadInv, Basics, Control, Writing, Stepping, Replaying
  <2> QED
    BY <1>1, <2>1 DEF JournalSynced, SyncJournal, memoryVars, DiskInv, BaseSize
<1>2. ASSUME NEW i \in Chunk, Apply(i)
      PROVE  BaseSize'
  <2>1. /\ base \in File /\ ZeroPast(base) /\ ov.size \in 0 .. N /\ stored \in Int /\ base.size \in 0 .. N
    BY DiskTypes, StoreTypes DEF DiskInv, StoreInv, ReadInv, ZeroPastEnd
  <2>2. step = "apply" /\ step' = "apply" /\ stored' = stored /\ ov' = ov
        /\ base'.size = IF i + 1 > base.size THEN i + 1 ELSE base.size
    BY <1>2 DEF Apply, WriteBase, memoryVars
  <2>3. i + 1 <= ov.size
    <3>1. i < ov.size /\ i \in Int
      BY <1>2, NAssumption DEF Apply, Chunk, DiskInv, StoreInv, ReadInv, Basics, Ready
    <3> QED
      BY <2>1, <3>1
  <2> QED
    BY <2>1, <2>2, <2>3 DEF DiskInv, BaseSize
<1>3. ASSUME NEW i \in Chunk, NEW v \in {base.data[i], ov.page[i], Torn}, ApplyFails(i, v)
      PROVE  BaseSize'
  <2>1. /\ step' \notin {"apply", "settle"} /\ stored' = stored /\ base'.size <= stored
    BY <1>3 DEF ApplyFails, AfterWriteBack, MayFail, NothingRare, fileVars
  <2> QED
    BY <2>1 DEF BaseSize
<1>4. CASE ShrinkFails \/ SettleFails
  <2>1. /\ step' \notin {"apply", "settle"} /\ stored' = stored /\ base'.size <= stored
    BY <1>4 DEF ShrinkFails, SettleFails, AfterWriteBack, MayFail, NothingRare, fileVars
  <2> QED
    BY <2>1 DEF BaseSize
<1>5. CASE Shrink
  <2>1. /\ base \in File /\ ZeroPast(base) /\ ov.size \in 0 .. N /\ stored \in Int /\ base.size \in 0 .. N
    BY DiskTypes, StoreTypes DEF DiskInv, StoreInv, ReadInv, ZeroPastEnd
  <2>2. step = "apply" /\ step' = "settle" /\ todo = {} /\ ov' = ov
    BY <1>5 DEF Shrink, memoryVars
  <2>3. ov.size <= base.size
    <3>1. CASE ov.size > 0
      <4>1. ov.size - 1 \in Chunk /\ ov.size - 1 < ov.size
        BY <2>1, <3>1, NAssumption DEF Chunk
      <4>2. ov.size - 1 < base.size
        BY <2>2, <4>1, StagedValid DEF DiskInv, StoreInv, ReadInv, Applied, WriteAhead
      <4> QED
        BY <2>1, <4>2
    <3> QED
      BY <2>1, <3>1
  <2>4. base.size <= stored \/ base.size <= ov.size
    BY <2>2 DEF DiskInv, BaseSize
  <2>5. base'.size = IF ov.size < stored THEN ov.size ELSE base.size
    BY <1>5 DEF Shrink, CutBase
  <2> QED
    BY <2>1, <2>2, <2>3, <2>4, <2>5 DEF BaseSize
<1>6. CASE Settle
  <2>1. /\ base \in File /\ ZeroPast(base) /\ ov.size \in 0 .. N /\ stored \in Int /\ base.size \in 0 .. N
    BY DiskTypes, StoreTypes DEF DiskInv, StoreInv, ReadInv, ZeroPastEnd
  <2>2. step' \notin {"apply", "settle"} /\ stored' = ov.size /\ base' = base /\ base.size = ov.size
    BY <1>6 DEF Settle, AfterWriteBack, fileVars, DiskInv, BaseSize
  <2> QED
    BY <2>1, <2>2 DEF BaseSize
<1>7. CASE NothingToStore \/ PreserveFails \/ AppendFails \/
           JournalSyncFails \/ CheckpointSkipped \/ Clear \/ ClearFails
  <2>1. step' \notin {"apply", "settle"} /\ base' = base /\ stored' = stored /\ Live /\ step \notin {"apply", "settle"}
    BY <1>7 DEF NothingToStore, PreserveFails, AppendFails, JournalSyncFails,
            CheckpointSkipped, Clear, ClearFails, AfterWriteBack, AfterCheckpoint, Live, fileVars, DiskInv, StoreInv, ReadInv, Basics, Control, Writing, Stepping, Replaying
  <2> QED
    BY <2>1 DEF DiskInv, BaseSize
<1>8. CASE CheckpointSync
  <2>1. Live
    BY <1>8 DEF CheckpointSync, Live, DiskInv, StoreInv, ReadInv, Basics, Control, Writing, Stepping, Replaying
  <2> QED
    BY <1>8, <2>1, SyncBaseLeft DEF CheckpointSync, memoryVars, DiskInv, BaseSize
<1>9. CASE ReplayClear
  <2>1. /\ base \in File /\ ZeroPast(base) /\ ov.size \in 0 .. N /\ stored \in Int /\ base.size \in 0 .. N
    BY DiskTypes, StoreTypes DEF DiskInv, StoreInv, ReadInv, ZeroPastEnd
  <2>2. step' \notin {"apply", "settle"} /\ stored' = base.size /\ base' = base
    BY <1>9 DEF ReplayClear
  <2> QED
    BY <2>1, <2>2 DEF BaseSize
<1>10. CASE LetGo \/ Crash \/ CloseMemory \/ Attach \/ Open \/ OpenFails \/
            ReplayRecord
  <2>1. ~ Live' /\ step' \notin {"journalsync", "apply", "settle", "checkpoint", "clear"}
    BY <1>10 DEF CloseMemory, LetGo, Crash, Attach, Open, OpenFails, Closed, ReplayRecord, memoryVars, Idle, Live, Writing, Stepping,
            DiskInv, StoreInv, ReadInv, Basics, Control, Replaying
  <2> QED
    BY <2>1 DEF BaseSize
<1>11. CASE Begin \/ Commit \/ Rollback \/ Flush \/ Detach \/ Close
  BY <1>11, <1>0
  DEF Begin, Commit, Rollback, Flush, Detach, Close, CallWriteBack,
      BaseSize, SyncBase, DiskInv, Idle, memoryVars, fileVars, clientVars,
      NothingRare
<1>12. CASE Append \/ CopyToMemory \/ ReplayEnds \/ ReplaySync
  BY <1>12, <1>0
  DEF Append, CopyToMemory, ReplayEnds, ReplaySync, BaseSize, SyncBase,
      DiskInv, Idle, memoryVars, fileVars, clientVars, NothingRare
<1>13. ASSUME NEW i \in Chunk, Write(i)
       PROVE  BaseSize'
  BY <1>13, <1>0
  DEF Write, BaseSize, SyncBase, DiskInv, Idle, memoryVars, fileVars,
      clientVars, NothingRare
<1>14. ASSUME NEW n \in Size \ {0}, Truncate(n)
       PROVE  BaseSize'
  BY <1>14, <1>0
  DEF Truncate, BaseSize, SyncBase, DiskInv, Idle, memoryVars, fileVars,
      clientVars, NothingRare
<1>15. ASSUME NEW chunks \in SUBSET Chunk, CopyFails(chunks)
       PROVE  BaseSize'
  BY <1>15, <1>0
  DEF CopyFails, BaseSize, SyncBase, DiskInv, Idle, memoryVars, fileVars,
      clientVars, NothingRare
<1>16. CASE UNCHANGED vars
  BY <1>16, <1>0
  DEF vars, BaseSize, SyncBase, DiskInv, Idle, memoryVars, fileVars,
      clientVars, NothingRare, Live
<1> QED
  BY <1>1, <1>2, <1>3, <1>4, <1>5, <1>6, <1>7, <1>8, <1>9, <1>10, <1>11,
     <1>12, <1>13, <1>14, <1>15, <1>16
  DEF Next, Client, WriteBack, Recovery, Failure

(* The journal is cleared when the base file is synced. *)
LEMMA ClearingStep == DiskInv /\ [Next]_vars => Clearing'
<1> SUFFICES ASSUME DiskInv, [Next]_vars PROVE Clearing'
  OBVIOUS
<1>1. CASE CheckpointSync
  BY <1>1, SyncBaseLeft DEF CheckpointSync, NotNeeded, memoryVars, Clearing
<1>2. CASE NothingToStore \/ PreserveFails \/ AppendFails \/
           JournalSyncFails \/ ShrinkFails \/ SettleFails \/ Settle \/
           CheckpointSkipped \/ Clear \/ ClearFails
  <2>1. step' # "clear"
    BY <1>2 DEF NothingToStore, PreserveFails, AppendFails, JournalSyncFails, ShrinkFails,
            SettleFails, Settle, CheckpointSkipped, Clear, ClearFails, AfterWriteBack, AfterCheckpoint
  <2> QED
    BY <2>1 DEF Clearing
<1>3. ASSUME NEW i \in Chunk, NEW v \in {base.data[i], ov.page[i], Torn}, ApplyFails(i, v)
      PROVE  Clearing'
  <2>1. step' # "clear"
    BY <1>3 DEF ApplyFails, AfterWriteBack, AfterCheckpoint
  <2> QED
    BY <2>1 DEF Clearing
<1>4. CASE Begin \/ Commit \/ Rollback \/ Flush \/ Detach \/ Close
  BY <1>4
  DEF Begin, Commit, Rollback, Flush, Detach, Close, CallWriteBack,
      Clearing, DiskInv, Idle, memoryVars, fileVars, clientVars
<1>5. CASE CloseMemory \/ Open \/ Attach \/ Append \/ JournalSynced \/
           Shrink
  BY <1>5
  DEF CloseMemory, Open, Attach, Append, JournalSynced, Shrink, Closed,
      Clearing, DiskInv, Idle, memoryVars, fileVars, clientVars
<1>6. CASE CopyToMemory \/ LetGo \/ ReplayRecord \/ ReplayEnds \/ ReplaySync
           \/ ReplayClear
  BY <1>6
  DEF CopyToMemory, LetGo, ReplayRecord, ReplayEnds, ReplaySync,
      ReplayClear, Closed, Clearing, DiskInv, Idle, memoryVars, fileVars,
      clientVars
<1>7. CASE OpenFails \/ Crash
  BY <1>7
  DEF OpenFails, Crash, Closed, Clearing, DiskInv, Idle, memoryVars,
      fileVars, clientVars
<1>8. ASSUME NEW i \in Chunk, Write(i)
      PROVE  Clearing'
  BY <1>8
  DEF Write, Clearing, DiskInv, Idle, memoryVars, fileVars, clientVars
<1>9. ASSUME NEW n \in Size \ {0}, Truncate(n)
      PROVE  Clearing'
  BY <1>9
  DEF Truncate, Clearing, DiskInv, Idle, memoryVars, fileVars, clientVars
<1>10. ASSUME NEW i \in Chunk, Apply(i)
       PROVE  Clearing'
  BY <1>10
  DEF Apply, Clearing, DiskInv, Idle, memoryVars, fileVars, clientVars
<1>11. ASSUME NEW chunks \in SUBSET Chunk, CopyFails(chunks)
       PROVE  Clearing'
  BY <1>11
  DEF CopyFails, Clearing, DiskInv, Idle, memoryVars, fileVars, clientVars
<1>12. CASE UNCHANGED vars
  BY <1>12
  DEF vars, Clearing, DiskInv, Idle, memoryVars, fileVars, clientVars
<1> QED
  BY <1>1, <1>2, <1>3, <1>4, <1>5, <1>6, <1>7, <1>8, <1>9, <1>10, <1>11,
     <1>12
  DEF Next, Client, WriteBack, Recovery, Failure

(* A file that was just opened reads as what it holds.                     *)
LEMMA OpensAsIs ==
  ASSUME NEW b \in File, ZeroPast(b)
  PROVE  Content(Opened(b), b) = b
<1>1. Opened(b) \in Overlay
  BY OpenedType
<1>2. /\ Content(Opened(b), b) \in File /\ Content(Opened(b), b).size = b.size
      /\ \A i \in Chunk : Content(Opened(b), b).data[i]
                          = IF i < b.size THEN ReadChunk(Opened(b), b, i) ELSE 0
  BY <1>1, ContentType, ContentFields, OpenedFields
<1>3. ASSUME NEW i \in Chunk
      PROVE  Content(Opened(b), b).data[i] = b.data[i]
  <2>1. CASE i < b.size
    <3>1. ReadChunk(Opened(b), b, i) = BaseRead(Opened(b), b, i)
      BY <2>1, OpenedFields DEF ReadChunk, FillChunk
    <3>2. i = 0 => Opened(b).head = b.data[0]
      BY <2>1, OpenedFields, NAssumption DEF File, Size
    <3>3. FileRead(b, i) = b.data[i]
      BY <2>1 DEF FileRead
    <3>4. BaseRead(Opened(b), b, i) = b.data[i]
      BY <3>2, <3>3 DEF BaseRead
    <3> QED
      BY <1>2, <2>1, <3>1, <3>4
  <2>2. CASE ~ (i < b.size)
    <3>1. b.size <= i
      BY <2>2, NAssumption DEF File, Size, Chunk
    <3> QED
      BY <1>2, <2>2, <3>1 DEF ZeroPast
  <2> QED
    BY <2>1, <2>2
<1> QED
  BY <1>2, <1>3, SameFile

(* The records say what the last commits are. *)
LEMMA KeptStep == NothingRare /\ DiskInv /\ [Next]_vars => Kept'
<1> SUFFICES ASSUME NothingRare /\ DiskInv, [Next]_vars PROVE Kept'
  OBVIOUS
<1>0. Live' => Live \/ step = "replayclear"
  BY LiveStep DEF DiskInv, StoreInv, ReadInv
<1>1. CASE Append
  <2>1. /\ base \in File /\ baseLeft \in Left /\ journal \in [Slot -> Entry]
        /\ journalLeft \in [Slot -> SUBSET Entry] /\ used \in 0 .. MaxRecords
        /\ at \in 0 .. MaxRecords + 1 /\ MaxRecords \in Nat \ {0}
        /\ committed \in File /\ allowed \subseteq File
    BY DiskTypes DEF DiskInv, StoreInv
  <2>2. used + 1 \in Slot
    BY <1>1, <2>1 DEF Append, Slot
  <2>3. \A k \in 1 .. used : journal'[k] = journal[k]
    <3>1. \A k \in 1 .. used : k \in Slot /\ k # used + 1
      BY <2>1 DEF Slot
    <3> QED
      BY <1>1, <2>1, <2>2, <3>1, WriteJournalFields DEF Append
  <2>4. used' = used /\ baseLeft' = baseLeft /\ allowed' = allowed /\ committed' = committed /\ Live
    BY <1>1 DEF Append, clientVars, Live, DiskInv, StoreInv, ReadInv, Basics, Control, Writing, Replaying
  <2>5. PICK f \in allowed : Recovers(journal, 1 .. used, baseLeft, f)
    BY <2>4 DEF DiskInv, Kept
  <2>6. Recovers(journal', 1 .. used, baseLeft, f)
    BY <2>3, <2>5, SameRecords
  <2> QED
    BY <2>4, <2>5, <2>6 DEF DiskInv, Kept
<1>2. CASE AppendFails
  <2>1. /\ base \in File /\ baseLeft \in Left /\ journal \in [Slot -> Entry]
        /\ journalLeft \in [Slot -> SUBSET Entry] /\ used \in 0 .. MaxRecords
        /\ at \in 0 .. MaxRecords + 1 /\ MaxRecords \in Nat \ {0}
        /\ committed \in File /\ allowed \subseteq File
    BY DiskTypes DEF DiskInv, StoreInv
  <2>2. used + 1 \in Slot
    BY <1>2, <2>1, AppendFailsFields
  <2>3. \A k \in 1 .. used : journal'[k] = journal[k]
    <3>1. \A k \in 1 .. used : k \in Slot /\ k # used + 1
      BY <2>1 DEF Slot
    <3> QED
      BY <1>2, <2>1, <2>2, <3>1, AppendFailsFields DEF AppendFails
  <2>4. used' = used /\ baseLeft' = baseLeft /\ allowed' = allowed /\ committed' = committed /\ Live
    BY <1>2 DEF AppendFails, clientVars, Live, DiskInv, StoreInv, ReadInv, Basics, Control, Writing, Replaying
  <2>5. PICK f \in allowed : Recovers(journal, 1 .. used, baseLeft, f)
    BY <2>4 DEF DiskInv, Kept
  <2>6. Recovers(journal', 1 .. used, baseLeft, f)
    BY <2>3, <2>5, SameRecords
  <2> QED
    BY <2>4, <2>5, <2>6 DEF DiskInv, Kept
<1>3. CASE JournalSynced
  <2>1. /\ base \in File /\ baseLeft \in Left /\ journal \in [Slot -> Entry]
        /\ journalLeft \in [Slot -> SUBSET Entry] /\ used \in 0 .. MaxRecords
        /\ at \in 0 .. MaxRecords + 1 /\ MaxRecords \in Nat \ {0}
        /\ committed \in File /\ allowed \subseteq File
    BY DiskTypes DEF DiskInv, StoreInv
  <2>2. Live /\ ~InTxn /\ journal[used + 1] = NewRecord
    BY <1>3 DEF JournalSynced, Live, InTxn, Staged, DiskInv, StoreInv, ReadInv, Basics, Control, Writing, Replaying
  <2>3. Recovers(journal, 1 .. used + 1, baseLeft, committed)
    BY <2>2, RecordRecovers
  <2> QED
    BY <1>3, <2>3 DEF JournalSynced, SyncJournal, Kept
<1>4. ASSUME NEW i \in Chunk, Apply(i)
      PROVE  Kept'
  <2>1. /\ base \in File /\ baseLeft \in Left /\ journal \in [Slot -> Entry]
        /\ journalLeft \in [Slot -> SUBSET Entry] /\ used \in 0 .. MaxRecords
        /\ at \in 0 .. MaxRecords + 1 /\ MaxRecords \in Nat \ {0}
        /\ committed \in File /\ allowed \subseteq File
    BY DiskTypes DEF DiskInv, StoreInv
  <2>2. /\ journal' = journal /\ used' = used /\ allowed' = allowed /\ committed' = committed
        /\ step = "apply" /\ i \in todo /\ WriteBase(i, ov.page[i])
    BY <1>4 DEF Apply, clientVars
  <2>3. PICK f \in allowed : Recovers(journal, 1 .. used, baseLeft, f)
    BY <2>2, StagedValid DEF DiskInv, Kept
  <2>4. 1 .. used # {}
    <3>1. used > 0
      BY <2>2, StagedValid
    <3>2. used \in Nat
      BY <2>1
    <3> QED
      BY <3>1, <3>2, SomeRecords
  <2>5. ASSUME NEW k \in Chunk, k < f.size
        PROVE  Durably(journal, 1 .. used, baseLeft', k, f.data[k])
    <3>1. Durably(journal, 1 .. used, baseLeft, k, f.data[k])
      BY <2>3, <2>5 DEF Recovers
    <3> QED
      BY <2>2, <3>1, WriteDurably
  <2>6. Recovers(journal, 1 .. used, baseLeft', f)
    BY <2>3, <2>4, <2>5 DEF Recovers
  <2>7. committed \in allowed
    BY <2>2, StagedValid DEF DiskInv, Kept
  <2> QED
    BY <2>2, <2>6, <2>7 DEF Kept
<1>5. ASSUME NEW i \in Chunk, NEW v \in {base.data[i], ov.page[i], Torn}, ApplyFails(i, v)
      PROVE  Kept'
  <2>1. /\ base \in File /\ baseLeft \in Left /\ journal \in [Slot -> Entry]
        /\ journalLeft \in [Slot -> SUBSET Entry] /\ used \in 0 .. MaxRecords
        /\ at \in 0 .. MaxRecords + 1 /\ MaxRecords \in Nat \ {0}
        /\ committed \in File /\ allowed \subseteq File
    BY DiskTypes DEF DiskInv, StoreInv
  <2>2. /\ journal' = journal /\ used' = used /\ allowed' = allowed /\ committed' = committed
        /\ step = "apply" /\ i \in todo /\ WriteBase(i, v)
    BY <1>5 DEF ApplyFails, clientVars
  <2>3. PICK f \in allowed : Recovers(journal, 1 .. used, baseLeft, f)
    BY <2>2, StagedValid DEF DiskInv, Kept
  <2>4. 1 .. used # {}
    <3>1. used > 0
      BY <2>2, StagedValid
    <3>2. used \in Nat
      BY <2>1
    <3> QED
      BY <3>1, <3>2, SomeRecords
  <2>5. ASSUME NEW k \in Chunk, k < f.size
        PROVE  Durably(journal, 1 .. used, baseLeft', k, f.data[k])
    <3>1. Durably(journal, 1 .. used, baseLeft, k, f.data[k])
      BY <2>3, <2>5 DEF Recovers
    <3> QED
      BY <2>2, <3>1, WriteDurably
  <2>6. Recovers(journal, 1 .. used, baseLeft', f)
    BY <2>3, <2>4, <2>5 DEF Recovers
  <2>7. committed \in allowed
    BY <2>2, StagedValid DEF DiskInv, Kept
  <2> QED
    BY <2>2, <2>6, <2>7 DEF Kept
<1>6. CASE Shrink
  <2>1. /\ base \in File /\ baseLeft \in Left /\ journal \in [Slot -> Entry]
        /\ journalLeft \in [Slot -> SUBSET Entry] /\ used \in 0 .. MaxRecords
        /\ at \in 0 .. MaxRecords + 1 /\ MaxRecords \in Nat \ {0}
        /\ committed \in File /\ allowed \subseteq File
    BY DiskTypes DEF DiskInv, StoreInv
  <2>2. /\ journal' = journal /\ used' = used /\ allowed' = allowed /\ committed' = committed
        /\ step = "apply" /\ (CutBase(ov.size) \/ baseLeft' = baseLeft)
    BY <1>6 DEF Shrink, clientVars
  <2>3. Recovers(journal, 1 .. used, baseLeft, committed) /\ committed \in allowed
    BY <2>2, StagedValid DEF DiskInv, Kept, StoreInv, StoredOrNot
  <2>4. committed.size = ov.size
    BY <2>2, StagedValid DEF DiskInv, StoreInv, ReadInv, Outside, Live, InTxn
  <2>5. CASE CutBase(ov.size)
    <3>1. \A k \in Chunk : k < committed.size => Durably(journal, 1 .. used, baseLeft', k, committed.data[k])
      BY <2>3, <2>4, <2>5, CutDurably DEF Recovers
    <3>2. 1 .. used # {}
      <4>1. used > 0
        BY <2>2, StagedValid
      <4>2. used \in Nat
        BY <2>1
      <4> QED
        BY <4>1, <4>2, SomeRecords
    <3>3. Recovers(journal, 1 .. used, baseLeft', committed)
      BY <2>3, <3>1, <3>2 DEF Recovers
    <3> QED
      BY <2>2, <2>3, <3>3 DEF Kept
  <2>6. CASE baseLeft' = baseLeft
    BY <2>2, <2>3, <2>6 DEF Kept
  <2> QED
    BY <2>2, <2>5, <2>6
<1>7. CASE CheckpointSync
  <2>1. /\ base \in File /\ baseLeft \in Left /\ journal \in [Slot -> Entry]
        /\ journalLeft \in [Slot -> SUBSET Entry] /\ used \in 0 .. MaxRecords
        /\ at \in 0 .. MaxRecords + 1 /\ MaxRecords \in Nat \ {0}
        /\ committed \in File /\ allowed \subseteq File
    BY DiskTypes DEF DiskInv, StoreInv
  <2>2. /\ journal' = journal /\ used' = used /\ allowed' = allowed /\ committed' = committed
        /\ baseLeft' = Synced(base) /\ Live
    BY <1>7, SyncBaseLeft DEF CheckpointSync, clientVars, Live, DiskInv, StoreInv, ReadInv, Basics, Control, Writing, Replaying, Stepping
  <2>3. PICK f \in allowed : Recovers(journal, 1 .. used, baseLeft, f)
    BY <2>2 DEF DiskInv, Kept
  <2>4. f \in File /\ ZeroPast(f) /\ ZeroPast(base)
    BY <2>1 DEF DiskInv, WellFormed, StoreInv, ReadInv, ZeroPastEnd
  <2>5. Recovers(journal, 1 .. used, Synced(base), f)
    BY <2>1, <2>3, <2>4, FoundRecovers DEF DiskInv, Current
  <2> QED
    BY <2>2, <2>5 DEF DiskInv, Kept
<1>8. CASE Clear
  <2>1. base = committed /\ allowed = {committed} /\ baseLeft = Synced(base)
    BY <1>8, ClearsCommitted DEF Clear, DiskInv, Clearing
  <2>2. used' = 0 /\ baseLeft' = baseLeft /\ allowed' = allowed /\ committed' = committed
    BY <1>8 DEF Clear, NewJournal, clientVars
  <2>3. 1 .. 0 = {}
    OBVIOUS
  <2>4. Recovers(journal', 1 .. used', baseLeft', committed)
    BY <2>1, <2>2, <2>3, NothingToReplay
  <2> QED
    BY <2>1, <2>2, <2>4 DEF Kept
<1>9. CASE ReplayClear
  <2>1. /\ base \in File /\ baseLeft \in Left /\ journal \in [Slot -> Entry]
        /\ journalLeft \in [Slot -> SUBSET Entry] /\ used \in 0 .. MaxRecords
        /\ at \in 0 .. MaxRecords + 1 /\ MaxRecords \in Nat \ {0}
        /\ committed \in File /\ allowed \subseteq File
    BY DiskTypes DEF DiskInv, StoreInv
  <2>2. base \in allowed' /\ committed' \in allowed' /\ baseLeft' = Synced(base) /\ used' = 0
    <3>1. baseLeft' = Synced(base) /\ used' = 0
      BY <1>9 DEF ReplayClear, NewJournal, DiskInv, Recovering
    <3>2. Content(Opened(base), base) = base
      BY <2>1, OpensAsIs DEF DiskInv, StoreInv, ReadInv, ZeroPastEnd
    <3> QED
      BY <1>9, <3>1, <3>2 DEF ReplayClear
  <2>3. 1 .. 0 = {}
    OBVIOUS
  <2>4. Recovers(journal', 1 .. used', baseLeft', base)
    BY <2>2, <2>3, NothingToReplay
  <2> QED
    BY <2>2, <2>4 DEF Kept
<1>10. CASE Commit
  <2>1. Live' => mode = "open" /\ Live
    BY <1>10 DEF Commit, Live, DiskInv, StoreInv, ReadInv, Basics, Control, Writing, Replaying, Stepping
  <2>2. mode = "open" => committed' \in allowed' /\ allowed \subseteq allowed'
    BY <1>10 DEF Commit
  <2>3. journal' = journal /\ used' = used /\ baseLeft' = baseLeft
    BY <1>10 DEF Commit, fileVars
  <2> QED
    BY <2>1, <2>2, <2>3 DEF DiskInv, Kept
<1>11. CASE LetGo \/ Crash \/ CloseMemory \/ Attach \/ Open \/ OpenFails \/
            ReplayRecord \/ ReplaySync \/ ReplayEnds
  <2>1. ~ Live'
    BY <1>11 DEF CloseMemory, LetGo, Crash, Attach, Open, OpenFails, ReplayRecord, ReplaySync, ReplayEnds, Closed, Idle, memoryVars, Live,
            Writing, Stepping, DiskInv, StoreInv, ReadInv, Basics, Control, Replaying
  <2> QED
    BY <2>1 DEF Kept
<1>12. CASE Begin \/ Rollback \/ Flush \/ Detach \/ Close \/ NothingToStore
  BY <1>12, <1>0
  DEF Begin, Rollback, Flush, Detach, Close, NothingToStore, CallWriteBack,
      Kept, DiskInv, SyncBase, Idle, memoryVars, fileVars, clientVars,
      NothingRare
<1>13. CASE Settle \/ CopyToMemory \/ CheckpointSkipped \/ PreserveFails \/
            JournalSyncFails \/ ShrinkFails
  BY <1>13, <1>0
  DEF Settle, CopyToMemory, CheckpointSkipped, PreserveFails,
      JournalSyncFails, ShrinkFails, Kept, DiskInv, SyncBase, Idle,
      memoryVars, fileVars, clientVars, NothingRare
<1>14. CASE SettleFails \/ ClearFails
  BY <1>14, <1>0
  DEF SettleFails, ClearFails, Kept, DiskInv, SyncBase, Idle, memoryVars,
      fileVars, clientVars, NothingRare
<1>15. ASSUME NEW i \in Chunk, Write(i)
       PROVE  Kept'
  BY <1>15, <1>0
  DEF Write, Kept, DiskInv, SyncBase, Idle, memoryVars, fileVars,
      clientVars, NothingRare
<1>16. ASSUME NEW n \in Size \ {0}, Truncate(n)
       PROVE  Kept'
  BY <1>16, <1>0
  DEF Truncate, Kept, DiskInv, SyncBase, Idle, memoryVars, fileVars,
      clientVars, NothingRare
<1>17. ASSUME NEW chunks \in SUBSET Chunk, CopyFails(chunks)
       PROVE  Kept'
  BY <1>17, <1>0
  DEF CopyFails, Kept, DiskInv, SyncBase, Idle, memoryVars, fileVars,
      clientVars, NothingRare
<1>18. CASE UNCHANGED vars
  BY <1>18, <1>0
  DEF vars, Kept, DiskInv, SyncBase, Idle, memoryVars, fileVars, clientVars,
      NothingRare, Live
<1> QED
  BY <1>1, <1>2, <1>3, <1>4, <1>5, <1>6, <1>7, <1>8, <1>9, <1>10, <1>11,
     <1>12, <1>13, <1>14, <1>15, <1>16, <1>17, <1>18
  DEF Next, Client, WriteBack, Recovery, Failure

(* What is not dirty is as sure as the records are. *)
LEMMA WriteAheadStep == NothingRare /\ DiskInv /\ [Next]_vars => WriteAhead'
<1> SUFFICES ASSUME NothingRare /\ DiskInv, [Next]_vars PROVE WriteAhead'
  OBVIOUS
<1>0. Live' => Live \/ step = "replayclear"
  BY LiveStep DEF DiskInv, StoreInv, ReadInv
<1>1. ASSUME NEW i \in Chunk, Write(i)
      PROVE  WriteAhead'
  <2>1. /\ base \in File /\ baseLeft \in Left /\ journal \in [Slot -> Entry]
        /\ journalLeft \in [Slot -> SUBSET Entry] /\ used \in 0 .. MaxRecords
        /\ at \in 0 .. MaxRecords + 1 /\ MaxRecords \in Nat \ {0}
        /\ committed \in File /\ allowed \subseteq File
    BY DiskTypes DEF DiskInv, StoreInv
  <2>2. ov \in Overlay /\ txn \in Nat /\ ov.size \in 0 .. N
    BY StoreTypes DEF DiskInv, StoreInv
  <2>3. /\ ov'.size = IF i + 1 > ov.size THEN i + 1 ELSE ov.size
        /\ i <= ov.size /\ mode' = mode /\ step = "txn" /\ step' = "txn"
        /\ dirty' = IF mode = "open" THEN dirty \union {i} ELSE dirty
        /\ base' = base /\ baseLeft' = baseLeft /\ journal' = journal /\ used' = used /\ committed' = committed
    BY <1>1, <2>2, WriteChunkFields DEF Write, MarkDirty, NothingRare, fileVars
  <2>4. Live' => Live /\ mode = "open"
    BY <2>3 DEF Live, Writing, Stepping
  <2>5. ASSUME mode = "open", NEW j \in Chunk, j < ov'.size, j \notin dirty'
        PROVE  j < ov.size /\ j \notin dirty
    <3>1. j \notin dirty /\ j # i /\ j \in Int /\ i \in Int
      BY <2>3, <2>5, NAssumption DEF Chunk
    <3> QED
      BY <2>2, <2>3, <2>5, <3>1
  <2> QED
    BY <2>3, <2>4, <2>5 DEF DiskInv, WriteAhead
<1>2. ASSUME NEW n \in Size \ {0}, Truncate(n)
      PROVE  WriteAhead'
  <2>1. /\ base \in File /\ baseLeft \in Left /\ journal \in [Slot -> Entry]
        /\ journalLeft \in [Slot -> SUBSET Entry] /\ used \in 0 .. MaxRecords
        /\ at \in 0 .. MaxRecords + 1 /\ MaxRecords \in Nat \ {0}
        /\ committed \in File /\ allowed \subseteq File
    BY DiskTypes DEF DiskInv, StoreInv
  <2>2. /\ n \in Size /\ n < ov.size /\ ov'.size = n /\ dirty' = dirty /\ step = "txn" /\ ov.size \in 0 .. N
        /\ base' = base /\ baseLeft' = baseLeft /\ journal' = journal /\ used' = used /\ committed' = committed
    BY <1>2, StoreTypes, TruncateToFields DEF Truncate, fileVars, DiskInv, StoreInv
  <2>3. \A j \in Chunk : j < n => j < ov.size
    BY <2>2, NAssumption DEF Chunk, Size
  <2> QED
    BY <1>0, <2>2, <2>3 DEF DiskInv, WriteAhead
<1>3. CASE Commit
  <2>1. ov \in Overlay /\ base \in File
    BY StoreTypes DEF DiskInv, StoreInv
  <2>2. /\ \A j \in Chunk : committed'.data[j] = IF j < ov.size THEN ReadChunk(ov, base, j) ELSE 0
    BY <1>3, <2>1, ContentFields DEF Commit
  <2>3. Live' => mode = "open" /\ Live /\ InTxn
    BY <1>3 DEF Commit, InTxn, Live, DiskInv, StoreInv, ReadInv, Basics, Control, Writing, Replaying, Stepping
  <2>4. ov' = ov /\ dirty' = dirty /\ base' = base /\ baseLeft' = baseLeft /\ journal' = journal /\ used' = used
    BY <1>3 DEF Commit, memoryVars, fileVars
  <2>5. ASSUME Live', NEW j \in Chunk, j < ov.size, j \notin dirty
        PROVE  committed'.data[j] = committed.data[j]
    <3>1. j \notin touched
      <4>1. ~ (ov.size <= j)
        BY <2>5, StoreTypes DEF DiskInv, StoreInv, Chunk
      <4> QED
        BY <2>3, <2>5, <4>1 DEF DiskInv, StoreInv, TouchedIsDirty
    <3> QED
      BY <2>2, <2>3, <2>5, <3>1 DEF DiskInv, StoreInv, ReadInv, Unchanged
  <2> QED
    BY <2>3, <2>4, <2>5 DEF DiskInv, WriteAhead
<1>4. CASE Rollback
  <2>1. ov \in Overlay /\ committed \in File
    BY StoreTypes DEF DiskInv, StoreInv
  <2>2. /\ ov'.size = committed.size /\ mode' = mode /\ step' = "idle" /\ step \in {"txn", "cut"}
        /\ dirty' = IF mode = "open" THEN dirty \union {i \in touched : i < committed.size}
                    ELSE dirty
        /\ base' = base /\ baseLeft' = baseLeft /\ journal' = journal /\ used' = used /\ committed' = committed
    BY <1>4, <2>1, RestoreFields DEF Rollback, MarkDirty, fileVars
  <2>3. Live' => Live /\ mode = "open"
    BY <2>2 DEF Live, Writing, Stepping
  <2>4. ASSUME mode = "open", NEW j \in Chunk, j < ov'.size, j \notin dirty'
        PROVE  j < ov.size /\ j \notin dirty
    BY <2>2, <2>4 DEF DiskInv, StoreInv, ReadInv, Unchanged
  <2> QED
    BY <2>2, <2>3, <2>4 DEF DiskInv, WriteAhead
<1>5. CASE Append
  <2>1. /\ base \in File /\ baseLeft \in Left /\ journal \in [Slot -> Entry]
        /\ journalLeft \in [Slot -> SUBSET Entry] /\ used \in 0 .. MaxRecords
        /\ at \in 0 .. MaxRecords + 1 /\ MaxRecords \in Nat \ {0}
        /\ committed \in File /\ allowed \subseteq File
    BY DiskTypes DEF DiskInv, StoreInv
  <2>2. used + 1 \in Slot
    BY <1>5, <2>1 DEF Append, Slot
  <2>3. \A k \in 1 .. used : journal'[k] = journal[k]
    <3>1. \A k \in 1 .. used : k \in Slot /\ k # used + 1
      BY <2>1 DEF Slot
    <3> QED
      BY <1>5, <2>1, <2>2, <3>1, WriteJournalFields DEF Append
  <2>4. used' = used /\ baseLeft' = baseLeft /\ base' = base /\ committed' = committed /\ Live
        /\ ov' = ov /\ dirty' = dirty
    BY <1>5 DEF Append, memoryVars, clientVars, Live, DiskInv, StoreInv, ReadInv, Basics, Control, Writing, Replaying
  <2>5. \A i, v : Durably(journal, 1 .. used, baseLeft, i, v) => Durably(journal', 1 .. used, baseLeft, i, v)
    BY <2>3, SameRecords
  <2> QED
    BY <2>4, <2>5 DEF DiskInv, WriteAhead
<1>6. CASE AppendFails
  <2>1. /\ base \in File /\ baseLeft \in Left /\ journal \in [Slot -> Entry]
        /\ journalLeft \in [Slot -> SUBSET Entry] /\ used \in 0 .. MaxRecords
        /\ at \in 0 .. MaxRecords + 1 /\ MaxRecords \in Nat \ {0}
        /\ committed \in File /\ allowed \subseteq File
    BY DiskTypes DEF DiskInv, StoreInv
  <2>2. used + 1 \in Slot
    BY <1>6, <2>1, AppendFailsFields
  <2>3. \A k \in 1 .. used : journal'[k] = journal[k]
    <3>1. \A k \in 1 .. used : k \in Slot /\ k # used + 1
      BY <2>1 DEF Slot
    <3> QED
      BY <1>6, <2>1, <2>2, <3>1, AppendFailsFields DEF AppendFails
  <2>4. used' = used /\ baseLeft' = baseLeft /\ base' = base /\ committed' = committed /\ Live
        /\ ov' = ov /\ dirty' = dirty
    BY <1>6 DEF AppendFails, memoryVars, clientVars, Live, DiskInv, StoreInv, ReadInv, Basics, Control, Writing, Replaying
  <2>5. \A i, v : Durably(journal, 1 .. used, baseLeft, i, v) => Durably(journal', 1 .. used, baseLeft, i, v)
    BY <2>3, SameRecords
  <2> QED
    BY <2>4, <2>5 DEF DiskInv, WriteAhead
<1>7. CASE JournalSynced
  <2>1. /\ base \in File /\ baseLeft \in Left /\ journal \in [Slot -> Entry]
        /\ journalLeft \in [Slot -> SUBSET Entry] /\ used \in 0 .. MaxRecords
        /\ at \in 0 .. MaxRecords + 1 /\ MaxRecords \in Nat \ {0}
        /\ committed \in File /\ allowed \subseteq File
    BY DiskTypes DEF DiskInv, StoreInv
  <2>2. Live /\ journal[used + 1] = NewRecord /\ used \in Nat
    BY <1>7, <2>1 DEF JournalSynced, Live, Staged, DiskInv, StoreInv, ReadInv, Basics, Control, Writing, Replaying
  <2>3. /\ ov' = ov /\ dirty' = dirty /\ base' = base /\ baseLeft' = baseLeft /\ journal' = journal
        /\ used' = used + 1 /\ committed' = committed
    BY <1>7 DEF JournalSynced, SyncJournal, memoryVars
  <2>4. ASSUME NEW j \in Chunk, j < ov.size, j \notin dirty
        PROVE  Durably(journal, 1 .. used + 1, baseLeft, j, base.data[j])
    <3>1. Durably(journal, 1 .. used, baseLeft, j, base.data[j])
      BY <2>2, <2>4 DEF DiskInv, WriteAhead
    <3>2. Leaves(journal[used + 1], j)
      BY <2>2, <2>4, NewRecordFields DEF Leaves
    <3> QED
      BY <2>2, <3>1, <3>2, OneMoreRecord
  <2> QED
    BY <2>2, <2>3, <2>4 DEF DiskInv, WriteAhead
<1>8. ASSUME NEW i \in Chunk, Apply(i)
      PROVE  WriteAhead'
  <2>1. /\ base \in File /\ ZeroPast(base) /\ base.size \in 0 .. N /\ i \in dirty
    BY <1>8, DiskTypes DEF DiskInv, StoreInv, ReadInv, ZeroPastEnd, Basics, Ready, Apply
  <2>2. /\ journal' = journal /\ used' = used /\ committed' = committed /\ ov' = ov /\ dirty' = dirty
        /\ step = "apply" /\ i \in todo /\ WriteBase(i, ov.page[i]) /\ i \in Int
    BY <1>8, NAssumption DEF Apply, memoryVars, clientVars, Chunk
  <2>3. /\ base.size <= base'.size /\ base'.size \in Int
        /\ \A j \in Chunk : j # i => base'.data[j] = base.data[j]
    <3>1. base'.size = IF i + 1 > base.size THEN i + 1 ELSE base.size
      BY <2>2 DEF WriteBase
    <3> QED
      BY <2>1, <2>2, <3>1, WriteBaseFields
  <2>4. ASSUME NEW j \in Chunk, j < ov.size, j \notin dirty
        PROVE  /\ j < base'.size /\ base'.data[j] = committed.data[j]
               /\ Durably(journal, 1 .. used, baseLeft', j, base'.data[j])
    <3>1. /\ j < base.size /\ base.data[j] = committed.data[j]
          /\ Durably(journal, 1 .. used, baseLeft, j, base.data[j])
      BY <2>2, <2>4, StagedValid DEF DiskInv, WriteAhead
    <3>2. base'.data[j] = base.data[j] /\ j \in Int
      BY <2>1, <2>3, <2>4, NAssumption DEF Chunk
    <3>3. Durably(journal, 1 .. used, baseLeft', j, base.data[j])
      BY <2>2, <3>1, WriteDurably
    <3> QED
      BY <2>1, <2>3, <3>1, <3>2, <3>3
  <2> QED
    BY <2>2, <2>4 DEF WriteAhead
<1>9. ASSUME NEW i \in Chunk, NEW v \in {base.data[i], ov.page[i], Torn}, ApplyFails(i, v)
      PROVE  WriteAhead'
  <2>1. /\ base \in File /\ ZeroPast(base) /\ base.size \in 0 .. N /\ i \in dirty
    BY <1>9, DiskTypes DEF DiskInv, StoreInv, ReadInv, ZeroPastEnd, Basics, Ready, ApplyFails
  <2>2. /\ journal' = journal /\ used' = used /\ committed' = committed /\ ov' = ov /\ dirty' = dirty
        /\ step = "apply" /\ i \in todo /\ WriteBase(i, v) /\ i \in Int
    BY <1>9, NAssumption DEF ApplyFails, memoryVars, clientVars, Chunk
  <2>3. /\ base.size <= base'.size /\ base'.size \in Int
        /\ \A j \in Chunk : j # i => base'.data[j] = base.data[j]
    <3>1. base'.size = IF i + 1 > base.size THEN i + 1 ELSE base.size
      BY <2>2 DEF WriteBase
    <3> QED
      BY <2>1, <2>2, <3>1, WriteBaseFields
  <2>4. ASSUME NEW j \in Chunk, j < ov.size, j \notin dirty
        PROVE  /\ j < base'.size /\ base'.data[j] = committed.data[j]
               /\ Durably(journal, 1 .. used, baseLeft', j, base'.data[j])
    <3>1. /\ j < base.size /\ base.data[j] = committed.data[j]
          /\ Durably(journal, 1 .. used, baseLeft, j, base.data[j])
      BY <2>2, <2>4, StagedValid DEF DiskInv, WriteAhead
    <3>2. base'.data[j] = base.data[j] /\ j \in Int
      BY <2>1, <2>3, <2>4, NAssumption DEF Chunk
    <3>3. Durably(journal, 1 .. used, baseLeft', j, base.data[j])
      BY <2>2, <3>1, WriteDurably
    <3> QED
      BY <2>1, <2>3, <3>1, <3>2, <3>3
  <2> QED
    BY <2>2, <2>4 DEF WriteAhead
<1>10. CASE Shrink
  <2>1. /\ base \in File /\ baseLeft \in Left /\ journal \in [Slot -> Entry]
        /\ journalLeft \in [Slot -> SUBSET Entry] /\ used \in 0 .. MaxRecords
        /\ at \in 0 .. MaxRecords + 1 /\ MaxRecords \in Nat \ {0}
        /\ committed \in File /\ allowed \subseteq File
    BY DiskTypes DEF DiskInv, StoreInv
  <2>2. /\ journal' = journal /\ used' = used /\ committed' = committed /\ ov' = ov /\ dirty' = dirty
        /\ Live /\ (CutBase(ov.size) \/ (base' = base /\ baseLeft' = baseLeft))
    BY <1>10, StagedValid DEF Shrink, memoryVars, clientVars
  <2>3. CASE CutBase(ov.size)
    <3>1. base'.size = ov.size /\ \A j \in Chunk : j < ov.size => base'.data[j] = base.data[j]
      BY <2>3 DEF CutBase, Cut
    <3>2. \A j \in Chunk : \A v : j < ov.size /\ Durably(journal, 1 .. used, baseLeft, j, v)
                                  => Durably(journal, 1 .. used, baseLeft', j, v)
      BY <2>3, CutDurably
    <3> QED
      BY <2>2, <3>1, <3>2 DEF DiskInv, WriteAhead
  <2>4. CASE base' = base /\ baseLeft' = baseLeft
    BY <2>2, <2>4 DEF DiskInv, WriteAhead
  <2> QED
    BY <2>2, <2>3, <2>4
<1>11. CASE Settle
  <2>1. ov \in Overlay /\ used \in Nat
    BY DiskTypes DEF DiskInv, StoreInv
  <2>2. /\ ov'.size = ov.size /\ base' = base /\ baseLeft' = baseLeft /\ journal' = journal /\ used' = used
        /\ committed' = committed /\ step = "settle"
    BY <1>11, <2>1, DropStoredFields DEF Settle, fileVars, clientVars
  <2>3. Live /\ used > 0 /\ touched = {} /\ mode # "closed"
    BY <2>2, StagedValid DEF DiskInv, StoreInv, ReadInv, Outside, InTxn, Live
  <2>4. ASSUME NEW j \in Chunk, j < ov.size
        PROVE  /\ j < base.size /\ base.data[j] = committed.data[j]
               /\ Durably(journal, 1 .. used, baseLeft, j, base.data[j])
    <3>1. CASE j \in dirty
      <4>1. j < base.size /\ base.data[j] = ov.page[j] /\ ov.page[j] # NoPage
        BY <2>2, <2>3, <2>4, <3>1 DEF DiskInv, StoreInv, ReadInv, Applied, DirtyHeld
      <4>2. ReadChunk(ov, base, j) = committed.data[j]
        BY <2>3, <2>4 DEF DiskInv, StoreInv, ReadInv, Unchanged
      <4>3. base.data[j] = committed.data[j]
        BY <4>1, <4>2 DEF ReadChunk
      <4>4. journal[used].page[j] = base.data[j]
        BY <2>2, <2>4, <3>1, <4>1 DEF DiskInv, Staged
      <4> QED
        BY <2>1, <2>3, <4>1, <4>3, <4>4, LastRecord
    <3>2. CASE j \notin dirty
      BY <2>3, <2>4, <3>2 DEF DiskInv, WriteAhead
    <3> QED
      BY <3>1, <3>2
  <2> QED
    BY <2>2, <2>4 DEF WriteAhead
<1>12. CASE CheckpointSync
  <2>1. /\ base \in File /\ baseLeft \in Left /\ journal \in [Slot -> Entry]
        /\ journalLeft \in [Slot -> SUBSET Entry] /\ used \in 0 .. MaxRecords
        /\ at \in 0 .. MaxRecords + 1 /\ MaxRecords \in Nat \ {0}
        /\ committed \in File /\ allowed \subseteq File
    BY DiskTypes DEF DiskInv, StoreInv
  <2>2. /\ journal' = journal /\ used' = used /\ committed' = committed /\ ov' = ov /\ dirty' = dirty
        /\ base' = base /\ baseLeft' = Synced(base) /\ Live
    BY <1>12, SyncBaseLeft DEF CheckpointSync, memoryVars, clientVars, Live, DiskInv, StoreInv, ReadInv, Basics, Control, Writing, Replaying, Stepping
  <2>3. \A j \in Chunk : \A v : Durably(journal, 1 .. used, baseLeft, j, v)
                                => Durably(journal, 1 .. used, Synced(base), j, v)
    BY FoundDurably DEF DiskInv, Current
  <2> QED
    BY <2>2, <2>3 DEF DiskInv, WriteAhead
<1>13. CASE Clear \/ ReplayClear
  <2>1. /\ base \in File /\ baseLeft \in Left /\ journal \in [Slot -> Entry]
        /\ journalLeft \in [Slot -> SUBSET Entry] /\ used \in 0 .. MaxRecords
        /\ at \in 0 .. MaxRecords + 1 /\ MaxRecords \in Nat \ {0}
        /\ committed \in File /\ allowed \subseteq File
    BY DiskTypes DEF DiskInv, StoreInv
  <2>2. used' = 0 /\ base' = base /\ baseLeft' = baseLeft /\ baseLeft = Synced(base)
    BY <1>13 DEF Clear, ReplayClear, NewJournal, DiskInv, Clearing, Recovering
  <2>3. \A j \in Chunk : j < base.size => Durably(journal', 1 .. 0, Synced(base), j, base.data[j])
    <3>1. 1 .. 0 = {}
      OBVIOUS
    <3> QED
      BY <3>1, SyncedFields DEF Durably, FromBase
  <2>4. \A j \in Chunk : j < ov'.size /\ j \notin dirty' => j < base.size /\ base.data[j] = committed'.data[j]
    <3>1. CASE Clear
      <4>1. ov' = ov /\ committed' = committed /\ dirty' = dirty /\ step = "clear"
        BY <3>1 DEF Clear, clientVars
      <4>2. Live
        BY <4>1 DEF Live, DiskInv, StoreInv, ReadInv, Basics, Control, Writing, Replaying, Stepping
      <4> QED
        BY <4>1, <4>2 DEF DiskInv, WriteAhead
    <3>2. CASE ReplayClear /\ caller = "open"
      <4>1. Content(Opened(base), base) = base
        BY <2>1, OpensAsIs DEF DiskInv, StoreInv, ReadInv, ZeroPastEnd
      <4>2. ov'.size = base.size /\ committed' = base
        BY <2>1, <3>2, <4>1, OpenedFields DEF ReplayClear
      <4> QED
        BY <4>2
    <3>3. CASE ReplayClear /\ caller # "open"
      <4>1. ov' = ov /\ dirty' = 0 .. ov.size - 1 /\ ov.size \in 0 .. N
        BY <3>3, StoreTypes DEF ReplayClear, DiskInv, StoreInv
      <4>2. \A j \in Chunk : j < ov.size => j \in dirty'
        BY <4>1, NAssumption DEF Chunk
      <4> QED
        BY <4>1, <4>2
    <3> QED
      BY <1>13, <3>1, <3>2, <3>3
  <2> QED
    BY <2>2, <2>3, <2>4 DEF WriteAhead
<1>14. CASE CopyToMemory
  <2>1. ov \in Overlay /\ base \in File
    BY DiskTypes DEF DiskInv, StoreInv
  <2>2. ov'.size = ov.size /\ dirty' = dirty /\ used' = used /\ committed' = committed /\ step # "replayclear"
        /\ base' = base /\ baseLeft' = baseLeft /\ journal' = journal
    BY <1>14, <2>1, PreserveFields DEF CopyToMemory, fileVars, clientVars
  <2> QED
    BY <1>0, <2>2 DEF DiskInv, WriteAhead
<1>15. ASSUME NEW chunks \in SUBSET Chunk, CopyFails(chunks)
       PROVE  WriteAhead'
  <2>1. ov \in Overlay /\ base \in File
    BY DiskTypes DEF DiskInv, StoreInv
  <2>2. ov'.size = ov.size /\ dirty' = dirty /\ used' = used /\ committed' = committed /\ step # "replayclear"
        /\ base' = base /\ baseLeft' = baseLeft /\ journal' = journal
    BY <1>15, <2>1, PreserveFields DEF CopyFails, fileVars, clientVars
  <2> QED
    BY <1>0, <2>2 DEF DiskInv, WriteAhead
<1>16. CASE LetGo \/ Crash \/ CloseMemory \/ Attach \/ Open \/ OpenFails \/
            ReplayRecord \/ ReplaySync \/ ReplayEnds
  <2>1. ~ Live'
    BY <1>16 DEF CloseMemory, LetGo, Crash, Attach, Open, OpenFails, ReplayRecord, ReplaySync, ReplayEnds, Closed, Idle, memoryVars, Live,
            Writing, Stepping, DiskInv, StoreInv, ReadInv, Basics, Control, Replaying
  <2> QED
    BY <2>1 DEF WriteAhead
<1>17. CASE Begin \/ Flush \/ Detach \/ Close \/ NothingToStore \/
            CheckpointSkipped
  BY <1>17, <1>0
  DEF Begin, Flush, Detach, Close, NothingToStore, CheckpointSkipped,
      CallWriteBack, WriteAhead, DiskInv, SyncBase, Idle, memoryVars,
      fileVars, clientVars, NothingRare
<1>18. CASE PreserveFails \/ JournalSyncFails \/ ShrinkFails \/ SettleFails
            \/ ClearFails
  BY <1>18, <1>0
  DEF PreserveFails, JournalSyncFails, ShrinkFails, SettleFails, ClearFails,
      WriteAhead, DiskInv, SyncBase, Idle, memoryVars, fileVars, clientVars,
      NothingRare
<1>19. CASE UNCHANGED vars
  BY <1>19, <1>0
  DEF vars, WriteAhead, DiskInv, SyncBase, Idle, memoryVars, fileVars,
      clientVars, NothingRare, Live
<1> QED
  BY <1>1, <1>2, <1>3, <1>4, <1>5, <1>6, <1>7, <1>8, <1>9, <1>10, <1>11,
     <1>12, <1>13, <1>14, <1>15, <1>16, <1>17, <1>18, <1>19
  DEF Next, Client, WriteBack, Recovery, Failure

(* Recovery replays the record it reads next exactly if it is valid.       *)
LEMMA FollowsIsValid ==
  ASSUME at \in Nat, at > 0, \A k \in 1 .. at - 1 : k \in Valid(journal)
  PROVE  /\ Follows(at) <=> at \in Valid(journal)
         /\ ~ Follows(at) => {k \in Valid(journal) : at <= k} = {}
<1>1. MaxRecords \in Nat
  BY BoundsAssumption
<1>2. \A m \in 1 .. at - 1 : journal[m] # Empty /\ journal[m].salt = journal[1].salt
  BY DEF Valid
<1>3. at > 1 => at - 1 \in 1 .. at - 1
  OBVIOUS
<1>4. \A m \in 1 .. at : m \in 1 .. at - 1 \/ m = at
  OBVIOUS
<1>5. Follows(at) => at \in Valid(journal)
  BY <1>2, <1>3, <1>4 DEF Follows, Valid
<1>6. ASSUME NEW k \in Valid(journal), at <= k
      PROVE  Follows(at)
  <2>1. k \in Slot /\ \A m \in 1 .. k : journal[m] # Empty /\ journal[m].salt = journal[1].salt
    BY DEF Valid
  <2>2. at \in Slot /\ at \in 1 .. k
    BY <1>1, <1>6, <2>1 DEF Slot
  <2> QED
    BY <1>2, <1>3, <2>1, <2>2 DEF Follows
<1>7. at \in Valid(journal) => Follows(at)
  BY <1>6
<1> QED
  BY <1>5, <1>6, <1>7

(* A chunk that a record leaves, or that it holds, after it is replayed.   *)
LEMMA Replayed ==
  ASSUME DiskInv, ReplayRecord
  PROVE  LET r == journal[at]
         IN /\ at \in Slot /\ base'.size <= r.size /\ base'.size \in 0 .. N
            /\ ZeroPast(base')
            /\ \A i \in Chunk : Leaves(r, i) /\ i < base.size =>
                 i < base'.size /\ base'.data[i] = base.data[i]
            /\ \A i \in Chunk : r.page[i] # NoPage =>
                 i < base'.size /\ base'.data[i] = r.page[i]
            /\ \A i \in Chunk : \A v : /\ Leaves(r, i) /\ baseLeft.data[i] = {v}
                                        /\ \A n \in baseLeft.size : i < n
                 => baseLeft'.data[i] = {v} /\ \A n \in baseLeft'.size : i < n
<1> DEFINE r == journal[at]
           e == Extended(r)
<1>1. /\ base \in File /\ baseLeft \in Left /\ journal \in [Slot -> Entry]
      /\ at \in 0 .. MaxRecords + 1 /\ base.size \in 0 .. N
  BY DiskTypes DEF DiskInv, StoreInv
<1>2. /\ at \in Slot /\ r \in Record /\ e \in Size /\ base.size <= e
      /\ \A i \in Chunk : r.page[i] # NoPage => i + 1 <= e
      /\ base'.size = IF e > r.size THEN r.size ELSE e
      /\ \A i \in Chunk : i < base'.size =>
           base'.data[i] = IF r.page[i] # NoPage THEN r.page[i] ELSE base.data[i]
      /\ \A i \in Chunk : ~ (i < base'.size) => base'.data[i] = 0
      /\ baseLeft'.size = baseLeft.size \union {base'.size} \union base.size .. e
      /\ \A i \in Chunk : baseLeft'.data[i] = baseLeft.data[i] \union {base'.data[i]}
           \union IF r.page[i] = NoPage THEN {} ELSE {r.page[i], Torn}
  BY <1>1, ReplayRecordFields
<1>3. r.size \in 0 .. N /\ e \in 0 .. N
  BY <1>2 DEF Record, Size
<1>4. \A i \in Chunk : r.page[i] # NoPage => i < r.size
  BY <1>2 DEF DiskInv, Current, WellFormed
<1>5. \A i \in Chunk : i \in Int
  BY NAssumption DEF Chunk
<1> HIDE DEF r, e
<1>6. base'.size <= r.size /\ base'.size \in 0 .. N
  BY <1>2, <1>3
<1>7. ZeroPast(base')
  <2>1. \A i \in Chunk : base'.size <= i => ~ (i < base'.size)
    BY <1>5, <1>6
  <2> QED
    BY <1>2, <2>1 DEF ZeroPast
<1>8. ASSUME NEW i \in Chunk, Leaves(r, i), i < base.size
      PROVE  i < base'.size /\ base'.data[i] = base.data[i]
  <2>1. i < base'.size
    BY <1>1, <1>2, <1>3, <1>5, <1>8 DEF Leaves
  <2> QED
    BY <1>2, <1>8, <2>1 DEF Leaves
<1>9. ASSUME NEW i \in Chunk, r.page[i] # NoPage
      PROVE  i < base'.size /\ base'.data[i] = r.page[i]
  <2>1. i < base'.size
    BY <1>2, <1>3, <1>4, <1>5, <1>9
  <2> QED
    BY <1>2, <1>9, <2>1
<1>10. ASSUME NEW i \in Chunk, NEW v, Leaves(r, i), baseLeft.data[i] = {v},
              \A n \in baseLeft.size : i < n
       PROVE  baseLeft'.data[i] = {v} /\ \A n \in baseLeft'.size : i < n
  <2>1. i < base.size /\ base.data[i] = v
    BY <1>10 DEF DiskInv, Current
  <2>2. i < base'.size /\ base'.data[i] = v
    BY <1>8, <1>10, <2>1
  <2>3. r.page[i] = NoPage
    BY <1>10 DEF Leaves
  <2>4. baseLeft'.data[i] = {v}
    BY <1>2, <1>10, <2>2, <2>3
  <2>5. \A n \in base.size .. e : i < n
    BY <1>1, <1>3, <1>5, <2>1
  <2> QED
    BY <1>2, <1>10, <2>2, <2>4, <2>5
<1> QED
  BY <1>2, <1>6, <1>7, <1>8, <1>9, <1>10 DEF r

(* What replay will leave of the file stays certain ...                    *)
LEMMA ReplayRecovers ==
  ASSUME DiskInv, ReplayRecord, NEW V, at \in V, NEW f, Recovers(journal, V, baseLeft, f)
  PROVE  Recovers(journal, V, baseLeft', f)
<1>1. ASSUME NEW i \in Chunk, NEW v, FromBase(journal, V, baseLeft, i, v)
      PROVE  FromBase(journal, V, baseLeft', i, v)
  BY <1>1, Replayed DEF FromBase
<1>2. ASSUME NEW i \in Chunk, NEW v, Durably(journal, V, baseLeft, i, v)
      PROVE  Durably(journal, V, baseLeft', i, v)
  BY <1>1, <1>2 DEF Durably
<1> QED
  BY <1>2 DEF Recovers

(* ... and the record that was replayed is not needed for it any more.     *)
LEMMA ReplayAdvances ==
  ASSUME DiskInv, ReplayRecord, base' \in File, NEW V, V \subseteq Slot, at \in V,
         \A k \in V : at <= k,
         NEW f \in File, ZeroPast(f), Recovers(journal, V, Synced(base), f)
  PROVE  Recovers(journal, V \ {at}, Synced(base'), f)
<1> DEFINE r == journal[at]
           W == V \ {at}
<1>1. /\ at \in Slot /\ base'.size <= r.size /\ base'.size \in 0 .. N /\ ZeroPast(base')
      /\ \A i \in Chunk : Leaves(r, i) /\ i < base.size =>
           i < base'.size /\ base'.data[i] = base.data[i]
      /\ \A i \in Chunk : r.page[i] # NoPage =>
           i < base'.size /\ base'.data[i] = r.page[i]
  BY Replayed
<1>2. \A k \in V : k \in Int
  BY BoundsAssumption DEF Slot
<1>3. f.size \in 0 .. N /\ (\A i \in Chunk : f.data[i] # NoPage) /\ \A i \in Chunk : i \in Int
  BY NAssumption, NoPageAssumption DEF File, Size, Chunk
<1> HIDE DEF r, W
<1>4. \A m \in V : m \in W \/ m = at
  BY DEF W
<1>5. \A m \in W : m \in V /\ m > at
  BY <1>2 DEF W
<1>6. ASSUME NEW i \in Chunk, i < f.size
      PROVE  Durably(journal, W, Synced(base'), i, f.data[i])
  <2>1. CASE FromRecord(journal, V, i, f.data[i])
    <3>1. PICK k \in V : journal[k].page[i] = f.data[i] /\ \A m \in V : m > k => Leaves(journal[m], i)
      BY <2>1 DEF FromRecord
    <3>2. CASE k \in W
      BY <1>5, <3>1, <3>2 DEF FromRecord, Durably
    <3>3. CASE k = at
      <4>1. i < base'.size /\ base'.data[i] = f.data[i]
        BY <1>1, <1>3, <3>1, <3>3 DEF r
      <4>2. \A m \in W : Leaves(journal[m], i)
        BY <1>5, <3>1, <3>3
      <4> QED
        BY <4>1, <4>2, SyncedFields DEF FromBase, Durably
    <3> QED
      BY <1>4, <3>2, <3>3
  <2>2. CASE FromBase(journal, V, Synced(base), i, f.data[i])
    <3>1. i < base.size /\ base.data[i] = f.data[i] /\ Leaves(r, i)
          /\ \A m \in W : Leaves(journal[m], i)
      BY <1>5, <2>2, SyncedFields DEF FromBase, r
    <3>2. i < base'.size /\ base'.data[i] = f.data[i]
      BY <1>1, <3>1
    <3> QED
      BY <3>1, <3>2, SyncedFields DEF FromBase, Durably
  <2> QED
    BY <1>6, <2>1, <2>2 DEF Recovers, Durably
<1>7. ASSUME W = {}
      PROVE  Synced(base') = Synced(f)
  <2>1. \A m \in V : m = at
    BY <1>4, <1>7
  <2>2. r.size = f.size
    BY <1>2, <2>1 DEF Recovers, r
  <2>3. \A i \in Chunk : i < f.size => i < base'.size /\ base'.data[i] = f.data[i]
    <3>1. ASSUME NEW i \in Chunk, i < f.size
          PROVE  FromBase(journal, W, Synced(base'), i, f.data[i])
      BY <1>6, <1>7, <3>1 DEF Durably, FromRecord
    <3> QED
      BY <3>1, SyncedFields DEF FromBase
  <2>4. base'.size = f.size
    <3>1. f.size > 0 => f.size - 1 \in Chunk /\ f.size - 1 < f.size
      BY <1>3, NAssumption DEF Chunk
    <3>2. f.size > 0 => f.size - 1 < base'.size
      BY <2>3, <3>1
    <3> QED
      BY <1>1, <1>3, <2>2, <3>2
  <2>5. \A i \in Chunk : base'.data[i] = f.data[i]
    <3>1. \A i \in Chunk : ~ (i < f.size) => f.size <= i /\ base'.size <= i
      BY <1>3, <2>4
    <3> QED
      BY <1>1, <2>3, <3>1 DEF ZeroPast
  <2> QED
    BY <2>4, <2>5, SameFile
<1>8. ASSUME NEW k \in W, \A m \in W : m <= k
      PROVE  journal[k].size = f.size
  <2>1. k \in V /\ \A m \in V : m <= k
    BY <1>2, <1>4, <1>5, <1>8
  <2> QED
    BY <2>1 DEF Recovers
<1> QED
  BY <1>6, <1>7, <1>8 DEF Recovers, W

(* Recovery gets closer to one of the commits with each record.            *)
LEMMA RecoveringStep == NothingRare /\ DiskInv /\ [Next]_vars => Recovering'
<1> SUFFICES ASSUME NothingRare /\ DiskInv, [Next]_vars PROVE Recovering'
  OBVIOUS
<1>1. CASE Open
  <2>1. /\ base \in File /\ journal \in [Slot -> Entry] /\ allowed \subseteq File
    BY DiskTypes DEF DiskInv, StoreInv
  <2>2. SyncJournal /\ base' = base /\ baseLeft' = baseLeft /\ allowed' = allowed /\ step' = "replay" /\ at' = 1
    BY <1>1 DEF Open, OpenJournal, NothingRare, clientVars
  <2>3. journal' = journal /\ \A k \in Slot : journalLeft'[k] = {journal[k]}
    BY <2>2, SyncJournalFields
  <2>4. PICK f \in allowed : Recovers(journal, Valid(journal), baseLeft, f)
    BY <2>1 DEF DiskInv, Current, Journals, OnDisk
  <2>5. Recovers(journal, Valid(journal), Synced(base), f)
    BY <2>1, <2>4, FoundRecovers DEF DiskInv, Current, WellFormed, StoreInv, ReadInv, ZeroPastEnd
  <2>6. {k \in Valid(journal) : 1 <= k} = Valid(journal)
    BY BoundsAssumption DEF Valid, Slot
  <2>7. 1 .. 1 - 1 = {}
    OBVIOUS
  <2> QED
    BY <2>2, <2>3, <2>4, <2>5, <2>6, <2>7 DEF Recovering
<1>2. CASE Attach
  <2>1. /\ base \in File /\ journal \in [Slot -> Entry] /\ allowed \subseteq File
    BY DiskTypes DEF DiskInv, StoreInv
  <2>2. SyncJournal /\ base' = base /\ baseLeft' = baseLeft /\ allowed' = allowed /\ step' = "replay" /\ at' = 1
    BY <1>2 DEF Attach, OpenJournal, NothingRare, clientVars
  <2>3. journal' = journal /\ \A k \in Slot : journalLeft'[k] = {journal[k]}
    BY <2>2, SyncJournalFields
  <2>4. PICK f \in allowed : Recovers(journal, Valid(journal), baseLeft, f)
    BY <2>1 DEF DiskInv, Current, Journals, OnDisk
  <2>5. Recovers(journal, Valid(journal), Synced(base), f)
    BY <2>1, <2>4, FoundRecovers DEF DiskInv, Current, WellFormed, StoreInv, ReadInv, ZeroPastEnd
  <2>6. {k \in Valid(journal) : 1 <= k} = Valid(journal)
    BY BoundsAssumption DEF Valid, Slot
  <2>7. 1 .. 1 - 1 = {}
    OBVIOUS
  <2> QED
    BY <2>2, <2>3, <2>4, <2>5, <2>6, <2>7 DEF Recovering
<1>3. CASE ReplayRecord
  <2>1. /\ at \in Nat /\ allowed \subseteq File /\ base' \in File
    BY DiskTypes, BasicsStep DEF DiskInv, StoreInv, ReadInv, Basics, BaseType
  <2>2. /\ step = "replay" /\ Follows(at) /\ step' = step /\ at' = at + 1 /\ allowed' = allowed
        /\ journal' = journal /\ journalLeft' = journalLeft
    BY <1>3 DEF ReplayRecord, clientVars
  <2>3. at > 0 /\ \A k \in 1 .. at - 1 : k \in Valid(journal)
    BY <2>2 DEF DiskInv, Recovering
  <2>4. PICK f \in allowed :
          /\ Recovers(journal, Valid(journal), baseLeft, f)
          /\ Recovers(journal, {k \in Valid(journal) : at <= k}, Synced(base), f)
    BY <2>2 DEF DiskInv, Recovering
  <2>5. at \in Valid(journal)
    BY <2>1, <2>2, <2>3, FollowsIsValid
  <2>6. Recovers(journal, Valid(journal), baseLeft', f)
    BY <1>3, <2>4, <2>5, ReplayRecovers
  <2>7. {k \in Valid(journal) : at <= k} \ {at} = {k \in Valid(journal) : at + 1 <= k}
    BY <2>1, BoundsAssumption DEF Valid, Slot
  <2>8. Recovers(journal, {k \in Valid(journal) : at + 1 <= k}, Synced(base'), f)
    <3> DEFINE V == {k \in Valid(journal) : at <= k}
    <3>1. V \subseteq Slot /\ at \in V /\ \A k \in V : at <= k
      BY <2>1, <2>5 DEF Valid
    <3>2. f \in File /\ ZeroPast(f)
      BY <2>1 DEF DiskInv, WellFormed
    <3>3. Recovers(journal, V, Synced(base), f)
      BY <2>4
    <3> HIDE DEF V
    <3>4. Recovers(journal, V \ {at}, Synced(base'), f)
      BY <1>3, <2>1, <3>1, <3>2, <3>3, ReplayAdvances
    <3> QED
      BY <2>7, <3>4 DEF V
  <2>9. at' > 0 /\ \A k \in 1 .. at' - 1 : k \in Valid(journal)
    <3>1. at' - 1 = at /\ at' > 0
      BY <2>1, <2>2
    <3>2. \A k \in 1 .. at : k \in 1 .. at - 1 \/ k = at
      BY <2>1
    <3> QED
      BY <2>3, <2>5, <3>1, <3>2
  <2>10. \A k \in Slot : journalLeft'[k] = {journal'[k]}
    BY <2>2 DEF DiskInv, Recovering, Replaying
  <2> QED
    BY <2>2, <2>4, <2>6, <2>8, <2>9, <2>10 DEF Recovering
<1>4. CASE ReplayEnds
  <2>1. /\ at \in Nat /\ allowed \subseteq File /\ base \in File
    BY DiskTypes DEF DiskInv, StoreInv
  <2>2. /\ step = "replay" /\ ~ Follows(at) /\ allowed' = allowed /\ base' = base /\ baseLeft' = baseLeft
        /\ journal' = journal /\ journalLeft' = journalLeft
        /\ step' = IF at > 1 THEN "replaysync" ELSE "replayclear"
    BY <1>4 DEF ReplayEnds, clientVars, fileVars
  <2>3. at > 0 /\ \A k \in 1 .. at - 1 : k \in Valid(journal)
    BY <2>2 DEF DiskInv, Recovering
  <2>4. PICK f \in allowed :
          /\ Recovers(journal, Valid(journal), baseLeft, f)
          /\ Recovers(journal, {k \in Valid(journal) : at <= k}, Synced(base), f)
    BY <2>2 DEF DiskInv, Recovering
  <2>5. {k \in Valid(journal) : at <= k} = {}
    BY <2>1, <2>2, <2>3, FollowsIsValid
  <2>6. base = f
    <3>1. Recovers(journal, {}, Synced(base), f)
      BY <2>4, <2>5
    <3> QED
      BY <2>1, <3>1, RecoversFound DEF DiskInv, WellFormed, StoreInv, ReadInv, ZeroPastEnd
  <2>7. ~ (at > 1) => baseLeft = Synced(base)
    <3>1. ~ (at > 1) => at = 1
      BY <2>1, <2>3
    <3>2. {k \in Valid(journal) : 1 <= k} = Valid(journal)
      BY BoundsAssumption DEF Valid, Slot
    <3>3. ~ (at > 1) => Valid(journal) = {}
      BY <2>5, <3>1, <3>2
    <3> QED
      BY <2>4, <2>6, <3>3 DEF Recovers
  <2>8. \A k \in Slot : journalLeft'[k] = {journal'[k]}
    BY <2>2 DEF DiskInv, Recovering, Replaying
  <2> QED
    BY <2>2, <2>4, <2>6, <2>7, <2>8 DEF Recovering
<1>5. CASE ReplaySync
  <2>1. /\ allowed \subseteq File /\ base \in File
    BY DiskTypes DEF DiskInv, StoreInv
  <2>2. /\ step = "replaysync" /\ allowed' = allowed /\ base' = base /\ baseLeft' = Synced(base)
        /\ journal' = journal /\ journalLeft' = journalLeft /\ step' = "replayclear"
    BY <1>5, SyncBaseLeft DEF ReplaySync, clientVars
  <2>3. base \in allowed /\ Recovers(journal, Valid(journal), baseLeft, base)
    BY <2>2 DEF DiskInv, Recovering
  <2>4. Recovers(journal, Valid(journal), Synced(base), base)
    BY <2>1, <2>3, FoundRecovers DEF DiskInv, Current, StoreInv, ReadInv, ZeroPastEnd
  <2>5. \A k \in Slot : journalLeft'[k] = {journal'[k]}
    BY <2>2 DEF DiskInv, Recovering, Replaying
  <2> QED
    BY <2>2, <2>3, <2>4, <2>5 DEF Recovering
<1>6. CASE Begin \/ Commit \/ Rollback \/ Flush \/ Detach \/ Close
  BY <1>6
  DEF Begin, Commit, Rollback, Flush, Detach, Close, CallWriteBack,
      Recovering, DiskInv, StoreInv, ReadInv, Basics, Control, Writing,
      Stepping, Replaying, Idle
<1>7. CASE CloseMemory \/ NothingToStore \/ Append \/ JournalSynced \/
           Shrink \/ Settle
  BY <1>7
  DEF CloseMemory, NothingToStore, Append, JournalSynced, Shrink, Settle,
      Closed, AfterWriteBack, Recovering, DiskInv, StoreInv, ReadInv,
      Basics, Control, Writing, Stepping, Replaying, Idle
<1>8. CASE CheckpointSync \/ Clear \/ CopyToMemory \/ LetGo \/
           CheckpointSkipped \/ ReplayClear
  BY <1>8
  DEF CheckpointSync, Clear, CopyToMemory, LetGo, CheckpointSkipped,
      ReplayClear, AfterCheckpoint, AfterWriteBack, Closed, Recovering,
      DiskInv, StoreInv, ReadInv, Basics, Control, Writing, Stepping,
      Replaying, Idle
<1>9. CASE PreserveFails \/ AppendFails \/ JournalSyncFails \/ ShrinkFails
           \/ SettleFails \/ ClearFails
  BY <1>9
  DEF PreserveFails, AppendFails, JournalSyncFails, ShrinkFails,
      SettleFails, ClearFails, AfterWriteBack, AfterCheckpoint, Recovering,
      DiskInv, StoreInv, ReadInv, Basics, Control, Writing, Stepping,
      Replaying, Idle
<1>10. CASE OpenFails \/ Crash
  BY <1>10
  DEF OpenFails, Crash, Closed, Recovering, DiskInv, StoreInv, ReadInv,
      Basics, Control, Writing, Stepping, Replaying, Idle
<1>11. ASSUME NEW i \in Chunk, Write(i)
       PROVE  Recovering'
  BY <1>11
  DEF Write, Recovering, DiskInv, StoreInv, ReadInv, Basics, Control,
      Writing, Stepping, Replaying, Idle
<1>12. ASSUME NEW n \in Size \ {0}, Truncate(n)
       PROVE  Recovering'
  BY <1>12
  DEF Truncate, Recovering, DiskInv, StoreInv, ReadInv, Basics, Control,
      Writing, Stepping, Replaying, Idle
<1>13. ASSUME NEW i \in Chunk, Apply(i)
       PROVE  Recovering'
  BY <1>13
  DEF Apply, Recovering, DiskInv, StoreInv, ReadInv, Basics, Control,
      Writing, Stepping, Replaying, Idle
<1>14. ASSUME NEW i \in Chunk, NEW v \in {base.data[i], ov.page[i], Torn}, ApplyFails(i, v)
       PROVE  Recovering'
  BY <1>14
  DEF ApplyFails, AfterWriteBack, Recovering, DiskInv, StoreInv, ReadInv,
      Basics, Control, Writing, Stepping, Replaying, Idle
<1>15. ASSUME NEW chunks \in SUBSET Chunk, CopyFails(chunks)
       PROVE  Recovering'
  BY <1>15
  DEF CopyFails, Recovering, DiskInv, StoreInv, ReadInv, Basics, Control,
      Writing, Stepping, Replaying, Idle
<1>16. CASE UNCHANGED vars
  BY <1>16
  DEF vars, fileVars, clientVars, Recovering, DiskInv, StoreInv, ReadInv, Basics, Control,
      Writing, Stepping, Replaying, Idle
<1> QED
  BY <1>1, <1>2, <1>3, <1>4, <1>5, <1>6, <1>7, <1>8, <1>9, <1>10, <1>11,
     <1>12, <1>13, <1>14, <1>15, <1>16
  DEF Next, Client, WriteBack, Recovery, Failure

(* Whatever a crash leaves of the files, opening them finds a commit.      *)
LEMMA OnDiskStep == NothingRare /\ DiskInv /\ [Next]_vars => OnDisk'
<1> SUFFICES ASSUME NothingRare /\ DiskInv, [Next]_vars PROVE OnDisk'
  OBVIOUS
<1>0. allowed \subseteq allowed' /\ baseLeft' = baseLeft /\ journalLeft' = journalLeft => OnDisk'
  BY DEF DiskInv, OnDisk, Journals
<1>1. CASE Append
  <2>1. /\ journal \in [Slot -> Entry] /\ journalLeft \in [Slot -> SUBSET Entry]
        /\ used \in 0 .. MaxRecords /\ MaxRecords \in Nat \ {0}
    BY DiskTypes DEF DiskInv, StoreInv
  <2>2. Live /\ ~InTxn /\ used < MaxRecords /\ baseLeft' = baseLeft /\ allowed' = allowed /\ used + 1 \in Slot
    BY <1>1, <2>1 DEF Append, Live, InTxn, Slot, clientVars, DiskInv, StoreInv, ReadInv, Basics, Control, Writing, Replaying
  <2>3. \A k \in Slot : journalLeft'[k] = journalLeft[k]
                        \/ (k = used + 1 /\ journalLeft'[k] = journalLeft[k] \union {NewRecord, Empty})
    <3>1. /\ journalLeft'[used + 1] = journalLeft[used + 1] \union {NewRecord, Empty}
          /\ \A k \in Slot : k # used + 1 => journalLeft'[k] = journalLeft[k]
      BY <1>1, <2>1, <2>2, WriteJournalFields DEF Append
    <3> QED
      BY <3>1
  <2>4. ASSUME NEW j \in Journals'
        PROVE  \E f \in allowed : Recovers(j, Valid(j), baseLeft, f)
    <3>1. /\ j \in [Slot -> Entry]
          /\ \A k \in Slot : j[k] \in journalLeft[k] \/ (k = used + 1 /\ j[k] \in {NewRecord, Empty})
      BY <2>3 DEF Journals
    <3> QED
      BY <2>2, <3>1, AppendingRecovers
  <2> QED
    BY <2>2, <2>4 DEF OnDisk
<1>2. CASE AppendFails
  <2>1. /\ journal \in [Slot -> Entry] /\ journalLeft \in [Slot -> SUBSET Entry]
        /\ used \in 0 .. MaxRecords /\ MaxRecords \in Nat \ {0}
    BY DiskTypes DEF DiskInv, StoreInv
  <2>2. Live /\ ~InTxn /\ used < MaxRecords /\ baseLeft' = baseLeft /\ allowed' = allowed /\ used + 1 \in Slot
    BY <1>2, <2>1 DEF AppendFails, Live, InTxn, Slot, clientVars, DiskInv, StoreInv, ReadInv, Basics, Control, Writing, Replaying
  <2>3. \A k \in Slot : journalLeft'[k] = journalLeft[k]
                        \/ (k = used + 1 /\ journalLeft'[k] = journalLeft[k] \union {NewRecord, Empty})
    <3>1. /\ journalLeft'[used + 1] = journalLeft[used + 1] \union {NewRecord, Empty}
          /\ \A k \in Slot : k # used + 1 => journalLeft'[k] = journalLeft[k]
      BY <1>2, <2>1, <2>2, AppendFailsFields DEF AppendFails
    <3> QED
      BY <3>1
  <2>4. ASSUME NEW j \in Journals'
        PROVE  \E f \in allowed : Recovers(j, Valid(j), baseLeft, f)
    <3>1. /\ j \in [Slot -> Entry]
          /\ \A k \in Slot : j[k] \in journalLeft[k] \/ (k = used + 1 /\ j[k] \in {NewRecord, Empty})
      BY <2>3 DEF Journals
    <3> QED
      BY <2>2, <3>1, AppendingRecovers
  <2> QED
    BY <2>2, <2>4 DEF OnDisk
<1>3. CASE JournalSynced
  <2>1. /\ journal \in [Slot -> Entry] /\ MaxRecords \in Nat \ {0} /\ used \in 0 .. MaxRecords
        /\ used' \in 0 .. MaxRecords
    BY DiskTypes, BasicsStep DEF DiskInv, StoreInv, ReadInv, Basics, CountType
  <2>2. /\ Live /\ ~InTxn /\ journal[used + 1] = NewRecord /\ used' = used + 1 /\ baseLeft' = baseLeft
        /\ SyncJournal /\ allowed' = {committed}
    BY <1>3 DEF JournalSynced, Live, InTxn, Staged, DiskInv, StoreInv, ReadInv, Basics, Control, Writing, Replaying
  <2>3. used + 1 \in 1 .. MaxRecords
    BY <2>1, <2>2
  <2>4. NewRecord # Empty /\ NewRecord.salt = salt
    BY NewRecordFields, EmptyFields, BoundsAssumption, <2>2 DEF DiskInv, StoreInv, ReadInv, Basics, Ready
  <2>5. \A k \in 1 .. used + 1 : journal[k] # Empty /\ journal[k].salt = salt
    <3>1. \A k \in 1 .. used + 1 : k \in 1 .. used \/ k = used + 1
      BY <2>1
    <3> QED
      BY <2>2, <2>4, <3>1 DEF DiskInv, Generation
  <2>6. used + 1 < MaxRecords => journal[used + 1 + 1].salt # salt
    <3>1. used + 1 < MaxRecords => used + 1 + 1 \in Slot /\ used + 1 + 1 > used + 1
      BY <2>1 DEF Slot
    <3> QED
      BY <2>2, <3>1 DEF DiskInv, Generation, Current
  <2>7. Valid(journal) = 1 .. used + 1
    <3>1. journal[1].salt = salt
      BY <2>1, <2>5
    <3> QED
      BY <2>3, <2>5, <2>6, <3>1, ValidRecords
  <2>8. Recovers(journal, 1 .. used + 1, baseLeft, committed)
    BY <2>2, RecordRecovers
  <2>9. \A j \in Journals' : j = journal
    BY <2>1, <2>2, SyncJournalFields, OneJournal DEF Journals
  <2> QED
    BY <2>2, <2>7, <2>8, <2>9 DEF OnDisk
<1>4. ASSUME NEW i \in Chunk, Apply(i)
      PROVE  OnDisk'
  <2>1. Live' /\ journalLeft' = journalLeft /\ journal' = journal /\ used' = used /\ step \in {"apply", "settle"}
    BY <1>4 DEF Apply, AfterWriteBack, clientVars, Live, DiskInv, StoreInv, ReadInv, Basics, Control, Writing, Replaying, Stepping
  <2>2. Kept'
    BY KeptStep
  <2>3. Journals' = Journals
    BY <2>1 DEF Journals
  <2> QED
    BY <2>1, <2>2, <2>3, StagedValid DEF Kept, OnDisk
<1>5. ASSUME NEW i \in Chunk, NEW v \in {base.data[i], ov.page[i], Torn}, ApplyFails(i, v)
      PROVE  OnDisk'
  <2>1. Live' /\ journalLeft' = journalLeft /\ journal' = journal /\ used' = used /\ step \in {"apply", "settle"}
    BY <1>5 DEF ApplyFails, AfterWriteBack, clientVars, Live, DiskInv, StoreInv, ReadInv, Basics, Control, Writing, Replaying, Stepping
  <2>2. Kept'
    BY KeptStep
  <2>3. Journals' = Journals
    BY <2>1 DEF Journals
  <2> QED
    BY <2>1, <2>2, <2>3, StagedValid DEF Kept, OnDisk
<1>6. CASE Shrink
  <2>1. Live' /\ journalLeft' = journalLeft /\ journal' = journal /\ used' = used /\ step \in {"apply", "settle"}
    BY <1>6 DEF Shrink, AfterWriteBack, clientVars, Live, DiskInv, StoreInv, ReadInv, Basics, Control, Writing, Replaying, Stepping
  <2>2. Kept'
    BY KeptStep
  <2>3. Journals' = Journals
    BY <2>1 DEF Journals
  <2> QED
    BY <2>1, <2>2, <2>3, StagedValid DEF Kept, OnDisk
<1>7. CASE CheckpointSync
  <2>1. base \in File /\ allowed \subseteq File
    BY DiskTypes DEF DiskInv, StoreInv
  <2>2. baseLeft' = Synced(base) /\ journalLeft' = journalLeft /\ allowed' = allowed
    BY <1>7, SyncBaseLeft DEF CheckpointSync, clientVars
  <2>3. ASSUME NEW j \in Journals
        PROVE  \E f \in allowed : Recovers(j, Valid(j), Synced(base), f)
    <3>1. PICK f \in allowed : Recovers(j, Valid(j), baseLeft, f)
      BY DEF DiskInv, OnDisk
    <3>2. Recovers(j, Valid(j), Synced(base), f)
      BY <2>1, <3>1, FoundRecovers DEF DiskInv, Current, WellFormed, StoreInv, ReadInv, ZeroPastEnd
    <3> QED
      BY <3>2
  <2>4. Journals' = Journals
    BY <2>2 DEF Journals
  <2> QED
    BY <2>2, <2>3, <2>4 DEF OnDisk
<1>8. CASE ReplaySync
  <2>1. base \in File /\ allowed \subseteq File
    BY DiskTypes DEF DiskInv, StoreInv
  <2>2. baseLeft' = Synced(base) /\ journalLeft' = journalLeft /\ allowed' = allowed
    BY <1>8, SyncBaseLeft DEF ReplaySync, clientVars
  <2>3. ASSUME NEW j \in Journals
        PROVE  \E f \in allowed : Recovers(j, Valid(j), Synced(base), f)
    <3>1. PICK f \in allowed : Recovers(j, Valid(j), baseLeft, f)
      BY DEF DiskInv, OnDisk
    <3>2. Recovers(j, Valid(j), Synced(base), f)
      BY <2>1, <3>1, FoundRecovers DEF DiskInv, Current, WellFormed, StoreInv, ReadInv, ZeroPastEnd
    <3> QED
      BY <3>2
  <2>4. Journals' = Journals
    BY <2>2 DEF Journals
  <2> QED
    BY <2>2, <2>3, <2>4 DEF OnDisk
<1>9. CASE Clear
  <2>1. /\ journal \in [Slot -> Entry] /\ journalLeft \in [Slot -> SUBSET Entry] /\ 1 \in Slot
    BY DiskTypes, BoundsAssumption DEF DiskInv, StoreInv, Slot
  <2>2. base \in allowed' /\ baseLeft' = Synced(base) /\ WriteJournal(1, Empty)
    BY <1>9, ClearsCommitted DEF Clear, clientVars, DiskInv, Clearing
  <2>3. \A k \in Slot : journalLeft'[k] = journalLeft[k]
                        \/ (k = 1 /\ journalLeft'[k] = journalLeft[k] \union {Empty})
    <3>1. /\ journalLeft'[1] = journalLeft[1] \union {Empty}
          /\ \A k \in Slot : k # 1 => journalLeft'[k] = journalLeft[k]
      BY <2>1, <2>2, WriteJournalFields
    <3> QED
      BY <3>1
  <2>4. ASSUME NEW j \in Journals'
        PROVE  \E f \in allowed' : Recovers(j, Valid(j), baseLeft', f)
    <3>1. CASE j[1] = Empty
      BY <2>2, <3>1, ClearedValid, NothingToReplay
    <3>2. CASE j[1] # Empty
      <4>1. j \in Journals
        BY <2>3, <3>2 DEF Journals
      <4>2. allowed' = allowed /\ baseLeft' = baseLeft
        BY <1>9 DEF Clear, clientVars
      <4> QED
        BY <4>1, <4>2 DEF DiskInv, OnDisk
    <3> QED
      BY <3>1, <3>2
  <2> QED
    BY <2>4 DEF OnDisk
<1>10. CASE ReplayClear
  <2>1. /\ journal \in [Slot -> Entry] /\ journalLeft \in [Slot -> SUBSET Entry] /\ 1 \in Slot
    BY DiskTypes, BoundsAssumption DEF DiskInv, StoreInv, Slot
  <2>2. base \in allowed' /\ baseLeft' = Synced(base) /\ WriteJournal(1, Empty)
    <3>1. base \in File /\ ZeroPast(base)
      BY DiskTypes DEF DiskInv, StoreInv, ReadInv, ZeroPastEnd
    <3>2. baseLeft' = Synced(base) /\ WriteJournal(1, Empty)
      BY <1>10 DEF ReplayClear, DiskInv, Recovering
    <3> QED
      BY <1>10, <3>1, <3>2, OpensAsIs DEF ReplayClear
  <2>3. \A k \in Slot : journalLeft'[k] = journalLeft[k]
                        \/ (k = 1 /\ journalLeft'[k] = journalLeft[k] \union {Empty})
    <3>1. /\ journalLeft'[1] = journalLeft[1] \union {Empty}
          /\ \A k \in Slot : k # 1 => journalLeft'[k] = journalLeft[k]
      BY <2>1, <2>2, WriteJournalFields
    <3> QED
      BY <3>1
  <2>4. ASSUME NEW j \in Journals'
        PROVE  \E f \in allowed' : Recovers(j, Valid(j), baseLeft', f)
    <3>1. CASE j[1] = Empty
      BY <2>2, <3>1, ClearedValid, NothingToReplay
    <3>2. CASE j[1] # Empty
      <4>1. j \in Journals
        BY <2>3, <3>2 DEF Journals
      <4>2. \A k \in Slot : j[k] = journal[k]
        BY <1>10, <4>1 DEF ReplayClear, DiskInv, Recovering, Replaying, Journals
      <4>3. j = journal
        BY <2>1, <4>1, <4>2, OneJournal DEF Journals
      <4>4. Recovers(journal, Valid(journal), baseLeft, base) /\ baseLeft' = baseLeft
        BY <1>10 DEF ReplayClear, DiskInv, Recovering
      <4> QED
        BY <2>2, <4>3, <4>4
    <3> QED
      BY <3>1, <3>2
  <2> QED
    BY <2>4 DEF OnDisk
<1>11. CASE Open
  <2>1. journal \in [Slot -> Entry]
    BY DiskTypes DEF DiskInv, StoreInv
  <2>2. SyncJournal /\ baseLeft' = baseLeft /\ allowed' = allowed
    BY <1>11 DEF Open, OpenJournal, NothingRare, clientVars
  <2>3. \A j \in Journals' : j \in Journals
    BY <2>1, <2>2, SyncJournalFields DEF DiskInv, Current, Journals
  <2> QED
    BY <2>2, <2>3 DEF DiskInv, OnDisk
<1>12. CASE Attach
  <2>1. journal \in [Slot -> Entry]
    BY DiskTypes DEF DiskInv, StoreInv
  <2>2. SyncJournal /\ baseLeft' = baseLeft /\ allowed' = allowed
    BY <1>12 DEF Attach, OpenJournal, NothingRare, clientVars
  <2>3. \A j \in Journals' : j \in Journals
    BY <2>1, <2>2, SyncJournalFields DEF DiskInv, Current, Journals
  <2> QED
    BY <2>2, <2>3 DEF DiskInv, OnDisk
<1>13. CASE ReplayRecord
  <2>1. /\ journal \in [Slot -> Entry]
    BY DiskTypes DEF DiskInv, StoreInv
  <2>2. Recovering' /\ step' = "replay" /\ journal' = journal /\ journalLeft' = journalLeft
    BY <1>13, RecoveringStep DEF ReplayRecord
  <2>3. \A k \in Slot : journalLeft'[k] = {journal[k]}
    BY <2>2 DEF Recovering, Replaying
  <2>4. \A j \in Journals' : j = journal
    BY <2>1, <2>3, OneJournal DEF Journals
  <2> QED
    BY <2>2, <2>4 DEF Recovering, OnDisk
<1>14. CASE Crash
  <2>1. /\ baseLeft \in Left /\ base' \in File /\ journal' \in [Slot -> Entry] /\ allowed \subseteq File
    BY DiskTypes, BasicsStep DEF DiskInv, StoreInv, ReadInv, Basics, BaseType, JournalType
  <2>2. /\ base'.size \in baseLeft.size /\ ZeroPast(base')
        /\ \A i \in Chunk : i < base'.size => base'.data[i] \in baseLeft.data[i]
    <3>1. \A i \in Chunk : base'.size <= i => ~ (i < base'.size)
      BY <2>1, NAssumption DEF File, Size, Chunk
    <3> QED
      BY <1>14, <2>1, <3>1, CrashFields DEF ZeroPast
  <2>3. baseLeft' = Synced(base') /\ allowed' = allowed
    BY <1>14 DEF Crash, Synced
  <2>4. /\ \A k \in Slot : journal'[k] \in journalLeft[k]
        /\ \A k \in Slot : journalLeft'[k] = {journal'[k]}
    BY <1>14 DEF Crash
  <2>5. journal' \in Journals
    BY <2>1, <2>4 DEF Journals
  <2>6. ASSUME NEW j \in Journals'
        PROVE  j \in Journals
    <3>1. \A k \in Slot : j[k] = journal'[k]
      BY <2>4 DEF Journals
    <3> QED
      BY <2>4, <3>1 DEF Journals
  <2>7. ASSUME NEW j \in Journals
        PROVE  \E f \in allowed : Recovers(j, Valid(j), Synced(base'), f)
    <3>1. PICK f \in allowed : Recovers(j, Valid(j), baseLeft, f)
      BY DEF DiskInv, OnDisk
    <3>2. Recovers(j, Valid(j), Synced(base'), f)
      BY <2>1, <2>2, <3>1, FoundRecovers DEF DiskInv, WellFormed
    <3> QED
      BY <3>2
  <2> QED
    BY <2>3, <2>6, <2>7 DEF OnDisk
<1>15. CASE Commit
  <2>1. allowed \subseteq allowed' /\ baseLeft' = baseLeft /\ journalLeft' = journalLeft
    BY <1>15 DEF Commit, fileVars
  <2> QED
    BY <1>0, <2>1
<1>16. CASE Begin \/ Rollback \/ Flush \/ Detach \/ Close \/ CloseMemory
  BY <1>16, <1>0
  DEF Begin, Rollback, Flush, Detach, Close, CloseMemory, CallWriteBack,
      Closed, Idle, memoryVars, fileVars, clientVars, NothingRare
<1>17. CASE NothingToStore \/ Settle \/ CopyToMemory \/ LetGo \/
            CheckpointSkipped \/ ReplayEnds
  BY <1>17, <1>0
  DEF NothingToStore, Settle, CopyToMemory, LetGo, CheckpointSkipped,
      ReplayEnds, Closed, Idle, memoryVars, fileVars, clientVars,
      NothingRare
<1>18. CASE PreserveFails \/ JournalSyncFails \/ ShrinkFails \/ SettleFails
            \/ ClearFails \/ OpenFails
  BY <1>18, <1>0
  DEF PreserveFails, JournalSyncFails, ShrinkFails, SettleFails, ClearFails,
      OpenFails, Idle, memoryVars, fileVars, clientVars, NothingRare
<1>19. ASSUME NEW i \in Chunk, Write(i)
       PROVE  OnDisk'
  BY <1>19, <1>0
  DEF Write, Idle, memoryVars, fileVars, clientVars, NothingRare
<1>20. ASSUME NEW n \in Size \ {0}, Truncate(n)
       PROVE  OnDisk'
  BY <1>20, <1>0
  DEF Truncate, Idle, memoryVars, fileVars, clientVars, NothingRare
<1>21. ASSUME NEW chunks \in SUBSET Chunk, CopyFails(chunks)
       PROVE  OnDisk'
  BY <1>21, <1>0
  DEF CopyFails, Idle, memoryVars, fileVars, clientVars, NothingRare
<1>22. CASE UNCHANGED vars
  BY <1>22, <1>0
  DEF vars, Idle, memoryVars, fileVars, clientVars, NothingRare, Live
<1> QED
  BY <1>1, <1>2, <1>3, <1>4, <1>5, <1>6, <1>7, <1>8, <1>9, <1>10, <1>11,
     <1>12, <1>13, <1>14, <1>15, <1>16, <1>17, <1>18, <1>19, <1>20, <1>21,
     <1>22
  DEF Next, Client, WriteBack, Recovery, Failure

LEMMA DiskInvInit == Init => DiskInv
<1> SUFFICES ASSUME Init PROVE DiskInv
  OBVIOUS
<1>1. StoreInv
  BY StoreInvInit
<1>2. baseLeft = Synced(base) /\ allowed = {base} /\ ~ Live /\ step = "idle"
  BY DEF Init, Synced, Live, Writing, Stepping
<1>3. \A k \in Slot : journal[k] = Empty /\ journalLeft[k] = {Empty}
  BY DEF Init
<1>4. Current
  BY <1>2, <1>3, SyncedFields DEF Current
<1>5. WellFormed
  BY <1>1, <1>2, <1>3, EmptyFields DEF WellFormed, StoreInv, ReadInv, ZeroPastEnd
<1>6. OnDisk
  <2>1. 1 \in Slot
    BY BoundsAssumption DEF Slot
  <2>2. \A j \in Journals : j[1] = Empty
    BY <1>3, <2>1 DEF Journals
  <2> QED
    BY <1>2, <2>2, ClearedValid, NothingToReplay DEF OnDisk
<1>7. Generation /\ Staged /\ Kept /\ WriteAhead /\ BaseSize /\ Clearing /\ Recovering
  BY <1>2 DEF Generation, Staged, Kept, WriteAhead, BaseSize, Clearing, Recovering, Replaying
<1> QED
  BY <1>1, <1>4, <1>5, <1>6, <1>7 DEF DiskInv

LEMMA DiskInvStep == NothingRare /\ DiskInv /\ [Next]_vars => DiskInv'
<1> SUFFICES ASSUME NothingRare /\ DiskInv, [Next]_vars PROVE DiskInv'
  OBVIOUS
<1>1. StoreInv'
  BY StoreInvStep DEF NothingRare, NoLeaf, DiskInv
<1>2. Current' /\ WellFormed' /\ OnDisk' /\ Generation'
  BY CurrentStep, WellFormedStep, OnDiskStep, GenerationStep
<1>3. Staged' /\ Kept' /\ WriteAhead' /\ BaseSize'
  BY StagedStep, KeptStep, WriteAheadStep, BaseSizeStep
<1>4. Clearing' /\ Recovering'
  BY ClearingStep, RecoveringStep
<1> QED
  BY <1>1, <1>2, <1>3, <1>4 DEF DiskInv

LEMMA AlwaysDiskInv == ASSUME NothingRare PROVE Spec => []DiskInv
<1>1. NothingRare
  OBVIOUS
<1> QED
  BY <1>1, DiskInvInit, DiskInvStep, PTL DEF Spec

(* When recovery is done (ovRecover), the base file holds one of the       *)
(* commits it may be found with, whatever was lost, at whatever step of a  *)
(* write-back, a checkpoint or an earlier recovery: the synced records of  *)
(* the journal make up for it.                                             *)
THEOREM AlwaysRecoversACommit ==
  ASSUME NothingRare
  PROVE  Spec => []RecoversACommit
<1>1. DiskInv => RecoversACommit
  BY DEF DiskInv, Recovering, RecoversACommit
<1> QED
  BY <1>1, AlwaysDiskInv, PTL

-----------------------------------------------------------------------------
(* The refinement of DurableFile                                           *)

LEMMA DurableInit == Init => Durable!Init
<1>1. Init => mode = "closed" /\ allowed = {base}
  BY DEF Init
<1>2. Init => base \in File
  BY BasicsInit DEF Basics, BaseType
<1> QED
  BY <1>1, <1>2 DEF Durable!Init

(* What a reader sees between transactions is the last commit.             *)
LEMMA SeesCommitted == ReadInv => (mode # "closed" => Seen = committed)
BY ReadsCommitted DEF Seen, InTxn

LEMMA SeesCommittedNext == (ReadInv => (mode # "closed" => Seen = committed))'
BY SeesCommitted, PTL

(* Each step is one that DurableFile promises, or changes nothing in it.   *)
LEMMA DurableStep == NothingRare /\ DiskInv /\ [Next]_vars => [Durable!Next]_(Durable!vars)
<1> SUFFICES ASSUME NothingRare /\ DiskInv, [Next]_vars PROVE [Durable!Next]_(Durable!vars)
  OBVIOUS
<1>0. DiskInv' /\ Basics'
  BY DiskInvStep DEF DiskInv, StoreInv, ReadInv
<1>s. /\ mode # "closed" => Seen = committed
      /\ mode' # "closed" => Seen' = committed'
  BY <1>0, SeesCommitted, SeesCommittedNext DEF DiskInv, StoreInv
<1>t. mode' = mode /\ committed' = committed /\ allowed' = allowed => [Durable!Next]_(Durable!vars)
  BY <1>s DEF Durable!vars
<1>a. ASSUME committed' = committed, allowed' = allowed,
             mode' = mode \/ (mode = "memory" /\ mode' = "open" /\ allowed = {committed})
      PROVE  [Durable!Next]_(Durable!vars)
  <2>1. CASE mode' = mode
    BY <1>t, <1>a, <2>1
  <2>2. CASE mode = "memory" /\ mode' = "open" /\ allowed = {committed}
    BY <1>s, <1>a, <2>2 DEF Durable!Next, Durable!AttachEnd
  <2> QED
    BY <1>a, <2>1, <2>2
<1>c. mode' = "closed" /\ allowed' = allowed => [Durable!Next]_(Durable!vars)
  BY DEF Durable!Next, Durable!Close
<1>1. CASE Commit
  <2>1. mode # "closed" /\ mode' = mode /\ committed' \in File
    BY <1>1, <1>0 DEF Commit, BaseType, DiskInv, StoreInv, ReadInv, Basics, Control, Writing, Replaying, MemoryType
  <2>2. allowed' = IF mode = "open" THEN allowed \union {committed'} ELSE allowed
    BY <1>1 DEF Commit
  <2> QED
    BY <1>s, <2>1, <2>2 DEF Durable!Next, Durable!Commit
<1>2. CASE JournalSynced
  <2>1. Live /\ mode # "closed" /\ mode' = mode /\ committed' = committed /\ allowed' = {committed}
    BY <1>2 DEF JournalSynced, Live, DiskInv, StoreInv, ReadInv, Basics, Control, Writing, Replaying
  <2>2. committed \in allowed
    BY <2>1 DEF DiskInv, Kept
  <2> QED
    BY <1>s, <2>1, <2>2 DEF Durable!Next, Durable!Store
<1>3. CASE ReplayClear
  <2>1. base \in allowed /\ base \in File /\ ZeroPast(base)
    BY <1>3, DiskTypes DEF ReplayClear, DiskInv, Recovering, StoreInv, ReadInv, ZeroPastEnd
  <2>2. CASE caller = "open"
    <3>1. mode = "closed" /\ mode' = "open" /\ committed' = base /\ allowed' = {base}
      BY <1>3, <2>1, <2>2, OpensAsIs DEF ReplayClear, DiskInv, StoreInv, ReadInv, Basics, Control, Writing, Replaying
    <3> QED
      BY <1>s, <2>1, <3>1 DEF Durable!Next, Durable!Open
  <2>3. CASE caller # "open"
    <3>1. mode = "memory" /\ mode' = mode /\ committed' = committed /\ allowed' = {base, committed}
      BY <1>3, <2>3 DEF ReplayClear, DiskInv, StoreInv, ReadInv, Basics, Control, Writing, Replaying
    <3> QED
      BY <1>s, <2>1, <3>1 DEF Durable!Next, Durable!AttachBegin
  <2> QED
    BY <2>2, <2>3
<1>4. CASE NothingToStore
  <2>1. caller = "attach" /\ Live /\ rc' = "ok" => allowed = {committed}
    BY <1>4, AllStored DEF NothingToStore, InTxn, DiskInv
  <2>2. committed' = committed /\ allowed' = allowed
    BY <1>4 DEF NothingToStore, clientVars
  <2>3. mode' = mode \/ (mode = "memory" /\ mode' = "open" /\ rc' = "ok" /\ caller = "attach" /\ Live)
    BY <1>4 DEF NothingToStore, AfterWriteBack, AfterCheckpoint, memoryVars, Live, DiskInv, StoreInv, ReadInv, Basics, Control, Writing, Replaying, Stepping
  <2> QED
    BY <1>a, <2>1, <2>2, <2>3
<1>5. CASE Settle
  <2>1. caller = "attach" /\ Live /\ rc' = "ok" => allowed = {committed}
    BY <1>5 DEF Settle, DiskInv, StoreInv, StoredOrNot
  <2>2. committed' = committed /\ allowed' = allowed
    BY <1>5 DEF Settle, clientVars
  <2>3. mode' = mode \/ (mode = "memory" /\ mode' = "open" /\ rc' = "ok" /\ caller = "attach" /\ Live)
    BY <1>5 DEF Settle, AfterWriteBack, AfterCheckpoint, memoryVars, Live, DiskInv, StoreInv, ReadInv, Basics, Control, Writing, Replaying, Stepping
  <2> QED
    BY <1>a, <2>1, <2>2, <2>3
<1>6. CASE CheckpointSkipped \/ Clear \/ ClearFails
  <2>1. caller = "attach" /\ Live /\ rc' = "ok" => allowed = {committed}
    BY <1>6, AllStored DEF CheckpointSkipped, Clear, ClearFails, InTxn, DiskInv, StoreInv, OkIsStored, Stepping
  <2>2. committed' = committed /\ allowed' = allowed
    BY <1>6 DEF CheckpointSkipped, Clear, ClearFails, clientVars
  <2>3. mode' = mode \/ (mode = "memory" /\ mode' = "open" /\ rc' = "ok" /\ caller = "attach" /\ Live)
    BY <1>6 DEF CheckpointSkipped, Clear, ClearFails, AfterWriteBack, AfterCheckpoint, memoryVars, Live, DiskInv, StoreInv, ReadInv, Basics, Control, Writing, Replaying, Stepping
  <2> QED
    BY <1>a, <2>1, <2>2, <2>3
<1>7. CASE PreserveFails \/ AppendFails \/ JournalSyncFails \/ ShrinkFails
           \/ SettleFails
  <2>1. caller = "attach" /\ Live /\ rc' = "ok" => allowed = {committed}
    BY <1>7 DEF PreserveFails, AppendFails, JournalSyncFails, ShrinkFails, SettleFails, AfterWriteBack
  <2>2. committed' = committed /\ allowed' = allowed
    BY <1>7 DEF PreserveFails, AppendFails, JournalSyncFails, ShrinkFails, SettleFails, clientVars
  <2>3. mode' = mode \/ (mode = "memory" /\ mode' = "open" /\ rc' = "ok" /\ caller = "attach" /\ Live)
    BY <1>7 DEF PreserveFails, AppendFails, JournalSyncFails, ShrinkFails, SettleFails, AfterWriteBack, AfterCheckpoint, memoryVars, Live, DiskInv, StoreInv, ReadInv, Basics, Control, Writing, Replaying, Stepping
  <2> QED
    BY <1>a, <2>1, <2>2, <2>3
<1>8. ASSUME NEW i \in Chunk, NEW v \in {base.data[i], ov.page[i], Torn}, ApplyFails(i, v)
      PROVE  [Durable!Next]_(Durable!vars)
  <2>1. caller = "attach" /\ Live /\ rc' = "ok" => allowed = {committed}
    BY <1>8 DEF ApplyFails, AfterWriteBack
  <2>2. committed' = committed /\ allowed' = allowed
    BY <1>8 DEF ApplyFails, clientVars
  <2>3. mode' = mode \/ (mode = "memory" /\ mode' = "open" /\ rc' = "ok" /\ caller = "attach" /\ Live)
    BY <1>8 DEF ApplyFails, AfterWriteBack, AfterCheckpoint, memoryVars, Live, DiskInv, StoreInv, ReadInv, Basics, Control, Writing, Replaying, Stepping
  <2> QED
    BY <1>a, <2>1, <2>2, <2>3
<1>9. CASE LetGo
  <2>1. allowed' = allowed /\ mode \in {"open", "memory"}
    BY <1>9 DEF LetGo, DiskInv, StoreInv, ReadInv, Basics, Control, Writing, Replaying
  <2>2. CASE caller = "closing"
    BY <1>9, <1>c, <2>1, <2>2 DEF LetGo, Closed
  <2>3. CASE caller # "closing"
    <3>1. mode' = "memory" /\ committed' = committed
      BY <1>9, <2>3 DEF LetGo
    <3> QED
      BY <1>s, <1>t, <2>1, <3>1 DEF Durable!Next, Durable!Detach
  <2> QED
    BY <2>2, <2>3
<1>10. CASE CloseMemory \/ Crash
  BY <1>10, <1>c DEF CloseMemory, Crash, Closed
<1>11. CASE Begin \/ Rollback \/ Flush \/ Detach \/ Close \/ Open \/ Attach
  BY <1>11, <1>t
  DEF Begin, Rollback, Flush, Detach, Close, Open, Attach, CallWriteBack,
      Idle, memoryVars, fileVars, clientVars, SyncBase
<1>12. CASE Append \/ Shrink \/ CheckpointSync \/ CopyToMemory \/
            ReplayRecord \/ ReplayEnds \/ ReplaySync
  BY <1>12, <1>t
  DEF Append, Shrink, CheckpointSync, CopyToMemory, ReplayRecord,
      ReplayEnds, ReplaySync, Idle, memoryVars, fileVars, clientVars,
      SyncBase
<1>13. CASE OpenFails
  BY <1>13, <1>t
  DEF OpenFails, Idle, memoryVars, fileVars, clientVars, SyncBase
<1>14. ASSUME NEW i \in Chunk, Write(i)
       PROVE  [Durable!Next]_(Durable!vars)
  BY <1>14, <1>t
  DEF Write, Idle, memoryVars, fileVars, clientVars, SyncBase
<1>15. ASSUME NEW n \in Size \ {0}, Truncate(n)
       PROVE  [Durable!Next]_(Durable!vars)
  BY <1>15, <1>t
  DEF Truncate, Idle, memoryVars, fileVars, clientVars, SyncBase
<1>16. ASSUME NEW i \in Chunk, Apply(i)
       PROVE  [Durable!Next]_(Durable!vars)
  BY <1>16, <1>t
  DEF Apply, Idle, memoryVars, fileVars, clientVars, SyncBase
<1>17. ASSUME NEW chunks \in SUBSET Chunk, CopyFails(chunks)
       PROVE  [Durable!Next]_(Durable!vars)
  BY <1>17, <1>t
  DEF CopyFails, Idle, memoryVars, fileVars, clientVars, SyncBase
<1>18. CASE UNCHANGED vars
  BY <1>18, <1>t
  DEF vars, Idle, memoryVars, fileVars, clientVars, SyncBase
<1> QED
  BY <1>1, <1>2, <1>3, <1>4, <1>5, <1>6, <1>7, <1>8, <1>9, <1>10, <1>11,
     <1>12, <1>13, <1>14, <1>15, <1>16, <1>17, <1>18
  DEF Next, Client, WriteBack, Recovery, Failure

(* The file always holds a state that was committed, and no earlier one    *)
(* than the last that was stored: whatever ovWriteBack, ovCheckpoint,      *)
(* ovRecover, detach and attach do, and wherever a crash comes between.    *)
THEOREM ImplementsDurable ==
  ASSUME NothingRare
  PROVE  Spec => ImplementsDurableFile
<1>1. NothingRare
  OBVIOUS
<1> QED
  BY <1>1, DurableInit, DurableStep, AlwaysDiskInv, PTL
  DEF Spec, ImplementsDurableFile, Durable!Spec
=============================================================================
