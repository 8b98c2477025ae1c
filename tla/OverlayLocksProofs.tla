-------------------------- MODULE OverlayLocksProofs --------------------------
(***************************************************************************)
(* The locks of connections to overlays in memory, and the pages that       *)
(* overlays share: for any number of threads, overlays, chunks and pages.   *)
(***************************************************************************)
EXTENDS OverlayLocks, FiniteSetTheorems, TLAPS

(***************************************************************************)
(* The invariant                                                           *)
(***************************************************************************)
OpType == [pc : {"idle", "copy", "drop", "install", "write"},
           chunk : Chunk \union {None}, new : PageId \union {None}]

TypeInv ==
  /\ on \in [Conn -> Ov \union {None}] /\ lock \in [Conn -> Lock]
  /\ nRef \in [Ov -> Int] /\ nShared \in [Ov -> Int]
  /\ pWriter \in [Ov -> Conn \union {None}] /\ eWriter \in [Ov -> Lock]
  /\ szFile \in [Ov -> Size] /\ apPage \in [Ov -> [Chunk -> PageId \union {None}]]
  /\ count \in [PageId -> Int] /\ bytes \in [PageId -> Nat]
  /\ op \in [Conn -> OpType]
  /\ plan \in [Conn -> File] /\ todo \in [Conn -> SUBSET Chunk]
  /\ committed \in [Ov -> File] /\ view \in [Conn -> File]
  /\ commits \in Nat

(* The locks. *)
Users(o) == {c \in Conn : on[c] = o}
Sharers(o) == {c \in Conn : on[c] = o /\ lock[c] >= SHARED}
CountInv == \A o \in Ov :
  nRef[o] = Cardinality(Users(o)) /\ nShared[o] = Cardinality(Sharers(o))

NoLockInv == \A c \in Conn : on[c] = None => lock[c] = NONE
WriterInv ==
  /\ \A c \in Conn : lock[c] > SHARED => pWriter[on[c]] = c
  /\ \A o \in Ov : IF pWriter[o] = None THEN eWriter[o] = NONE
                   ELSE /\ on[pWriter[o]] = o /\ lock[pWriter[o]] > SHARED
                        /\ eWriter[o] = lock[pWriter[o]]

(* Who writes the file has the only lock. *)
AloneInv == \A c, d \in Conn :
  lock[c] = EXCLUSIVE /\ on[d] = on[c] /\ d # c => lock[d] = NONE

LockInv == CountInv /\ NoLockInv /\ WriterInv /\ AloneInv

(* The pages. *)
Installing(o, i) == \E c \in Conn : on[c] = o /\ op[c].chunk = i /\ op[c].pc = "install"
Holding == {"drop", "install", "write"}

(* Who writes a page has the lock for it.  The page it writes to is its own: *)
(* counted once, in its hand or in its page table.                         *)
OpInv == \A c \in Conn :
  /\ todo[c] # {} => lock[c] = EXCLUSIVE
  /\ IF op[c].pc = "idle" THEN op[c] = Idle ELSE op[c].chunk \in todo[c]
  /\ op[c].pc = "drop" => Page(c) # None
  /\ op[c].pc \in Holding => op[c].new \in PageId /\ count[op[c].new] = 1
  /\ op[c].pc = "write" => Page(c) = op[c].new

(* Past the end of its file an overlay has no page, but for one that is about *)
(* to be written, which makes the file longer.                             *)
Growing(o, i) == \E c \in Conn : on[c] = o /\ op[c].chunk = i /\ op[c].pc = "write"
EndInv == \A o \in Ov, i \in Chunk :
  i >= szFile[o] /\ apPage[o][i] # None => Growing(o, i)

EmptyInv == \A o \in Ov : nRef[o] = 0 => apPage[o] = NoPages

(* A file reads as the last commit, or as the writer has planned it, but for *)
(* the chunks that it still has to write or cut.                           *)
Data(o, i) ==
  IF i >= szFile[o] \/ apPage[o][i] = None THEN 0 ELSE bytes[apPage[o][i]]
SettledInv == \A o \in Ov :
  IF eWriter[o] = EXCLUSIVE
  THEN \A i \in Chunk :
         i \notin todo[pWriter[o]] /\ i < plan[pWriter[o]].size
           => Data(o, i) = plan[pWriter[o]].data[i]
  ELSE szFile[o] = committed[o].size
       /\ \A i \in Chunk : Data(o, i) = committed[o].data[i]

ZerosBeyond(file) == \A i \in Chunk : i >= file.size => file.data[i] = 0
TailInv ==
  (\A o \in Ov : ZerosBeyond(committed[o])) /\ (\A c \in Conn : ZerosBeyond(plan[c]))

ViewInv == \A c \in Conn :
  lock[c] \in {SHARED, RESERVED, PENDING} => view[c] = committed[on[c]]

PageInv ==
  OpInv /\ EndInv /\ EmptyInv /\ PagesAreCounted /\ SettledInv /\ TailInv /\ ViewInv

IInv == TypeInv /\ LockInv /\ PageInv

(***************************************************************************)
(* Sets of connections                                                     *)
(***************************************************************************)
LEMMA LocksDiffer ==
  /\ NONE < SHARED /\ SHARED < RESERVED /\ RESERVED < PENDING /\ PENDING < EXCLUSIVE
  /\ NONE \in Int /\ SHARED \in Int /\ RESERVED \in Int /\ PENDING \in Int
  /\ EXCLUSIVE \in Int
BY DEF NONE, SHARED, RESERVED, PENDING, EXCLUSIVE

LEMMA LockLevels ==
  /\ Lock = {NONE, SHARED, RESERVED, PENDING, EXCLUSIVE}
  /\ \A l \in Lock : l \in Int /\ NONE <= l /\ l <= EXCLUSIVE
BY DEF Lock, NONE, SHARED, RESERVED, PENDING, EXCLUSIVE

LEMMA SomeConns ==
  ASSUME NEW S \in SUBSET Conn
  PROVE  /\ IsFiniteSet(S) /\ Cardinality(S) \in Nat /\ (Cardinality(S) = 0 <=> S = {})
         /\ \A c : Cardinality(S \union {c}) = IF c \in S THEN Cardinality(S)
                                               ELSE Cardinality(S) + 1
         /\ \A c : Cardinality(S \ {c}) = IF c \in S THEN Cardinality(S) - 1
                                          ELSE Cardinality(S)
<1>1. IsFiniteSet(S)
  BY FiniteAssumption, FS_Subset
<1> QED
  BY <1>1, FS_CardinalityType, FS_EmptySet, FS_AddElement, FS_RemoveElement

LEMMA ChunksAreFinite ==
  IsFiniteSet(Chunk) /\ N \in Nat /\ \A i \in Chunk : i \in Int /\ 0 <= i /\ i < N
BY NAssumption, FS_Interval DEF Chunk

LEMMA FilesAreTyped ==
  /\ NoFile \in File /\ ZerosBeyond(NoFile) /\ 0 \in Size
  /\ \A f \in File : f.size \in Size /\ f.data \in [Chunk -> Nat]
  /\ \A n \in Size : n \in Int /\ 0 <= n /\ n <= N
BY NAssumption DEF NoFile, File, Size, ZerosBeyond

(***************************************************************************)
(* Locks: opening, locking, unlocking and closing                          *)
(***************************************************************************)
LEMMA InitLocks == Init => LockInv
<1> SUFFICES ASSUME Init PROVE LockInv
  OBVIOUS
<1>1. \A o \in Ov : Users(o) = {} /\ Sharers(o) = {}
  BY NoneAssumption DEF Init, Users, Sharers
<1>2. CountInv
  BY <1>1, FS_EmptySet DEF CountInv, Init
<1> QED
  BY <1>2, LocksDiffer, NoneAssumption DEF Init, LockInv, NoLockInv, WriterInv, AloneInv

LEMMA SameLocks ==
  ASSUME LockInv, UNCHANGED <<on, nRef, lockVars>>
  PROVE  LockInv'
BY DEF LockInv, CountInv, NoLockInv, WriterInv, AloneInv, Users, Sharers, lockVars

(* A connection opens an overlay. *)
LEMMA JoinsLocks ==
  ASSUME TypeInv, LockInv, NEW c \in Conn, NEW o \in Ov, on[c] = None,
         on' = [on EXCEPT ![c] = o], nRef' = [nRef EXCEPT ![o] = nRef[o] + 1],
         UNCHANGED lockVars
  PROVE  LockInv'
<1>1. lock[c] = NONE /\ o # None
  BY NoneAssumption DEF LockInv, NoLockInv
<1>2. Users(o)' = Users(o) \union {c} /\ c \notin Users(o)
  BY <1>1 DEF TypeInv, Users
<1>3. \A q \in Ov \ {o} : Users(q)' = Users(q)
  BY NoneAssumption DEF TypeInv, Users
<1>4. \A q \in Ov : Sharers(q)' = Sharers(q)
  BY <1>1, NoneAssumption, LocksDiffer DEF TypeInv, Sharers, lockVars
<1>5. CountInv'
  <2>1. Cardinality(Users(o)') = Cardinality(Users(o)) + 1
    BY <1>2, SomeConns DEF Users
  <2> QED
    BY <1>3, <1>4, <2>1 DEF LockInv, CountInv, TypeInv, lockVars
<1>6. NoLockInv'
  BY <1>1 DEF LockInv, NoLockInv, TypeInv, lockVars
<1>7. WriterInv'
  <2>1. \A d \in Conn : lock[d] > SHARED => d # c
    BY <1>1, LocksDiffer
  <2>2. \A q \in Ov : pWriter[q] # c
    BY <2>1, NoneAssumption DEF LockInv, WriterInv
  <2> QED
    BY <2>1, <2>2 DEF LockInv, WriterInv, TypeInv, lockVars
<1>8. AloneInv'
  <2>1. \A d \in Conn : lock[d] = EXCLUSIVE => d # c
    BY <1>1, LocksDiffer
  <2> QED
    BY <1>1, <2>1 DEF LockInv, AloneInv, TypeInv, lockVars
<1> QED
  BY <1>5, <1>6, <1>7, <1>8 DEF LockInv

LEMMA LockSharedLocks ==
  ASSUME TypeInv, LockInv, NEW c \in Conn, LockShared(c)
  PROVE  LockInv'
<1>1. PICK o \in Ov :
         /\ o = on[c] /\ lock[c] = NONE /\ eWriter[o] < PENDING
         /\ nShared' = [nShared EXCEPT ![o] = nShared[o] + 1]
         /\ lock' = [lock EXCEPT ![c] = SHARED] /\ UNCHANGED <<on, nRef, pWriter, eWriter>>
  BY DEF LockShared, CanShare, TypeInv
<1>2. Sharers(o)' = Sharers(o) \union {c} /\ c \notin Sharers(o)
  BY <1>1, LocksDiffer DEF TypeInv, Sharers
<1>3. \A q \in Ov \ {o} : Sharers(q)' = Sharers(q)
  BY <1>1 DEF TypeInv, Sharers
<1>4. CountInv'
  <2>1. Cardinality(Sharers(o)') = Cardinality(Sharers(o)) + 1
    BY <1>2, SomeConns DEF Sharers
  <2>2. \A q \in Ov : Users(q)' = Users(q)
    BY <1>1 DEF Users
  <2>3. nShared'[o] = Cardinality(Sharers(o)')
    BY <1>1, <2>1 DEF LockInv, CountInv, TypeInv
  <2>4. \A q \in Ov \ {o} : nShared'[q] = Cardinality(Sharers(q)')
    BY <1>1, <1>3 DEF LockInv, CountInv, TypeInv
  <2> QED
    BY <1>1, <2>2, <2>3, <2>4 DEF LockInv, CountInv
<1>5. NoLockInv'
  BY <1>1, NoneAssumption DEF LockInv, NoLockInv, TypeInv
<1>6. WriterInv'
  <2>1. \A d \in Conn : lock'[d] > SHARED => d # c /\ lock[d] > SHARED
    BY <1>1, LocksDiffer DEF TypeInv
  <2>2. \A q \in Ov : pWriter[q] # c
    BY <1>1, LocksDiffer, NoneAssumption DEF LockInv, WriterInv
  <2> QED
    BY <1>1, <2>1, <2>2 DEF LockInv, WriterInv, TypeInv
<1>7. AloneInv'
  <2>1. \A d \in Conn : on[d] = o => lock[d] # EXCLUSIVE
    <3>1. ASSUME NEW d \in Conn, on[d] = o, lock[d] = EXCLUSIVE PROVE FALSE
      <4>1. pWriter[o] = d
        BY <3>1, LocksDiffer DEF LockInv, WriterInv
      <4>2. d # None
        BY NoneAssumption
      <4>3. eWriter[o] = EXCLUSIVE
        BY <1>1, <3>1, <4>1, <4>2 DEF LockInv, WriterInv
      <4> QED
        BY <1>1, <4>3, LocksDiffer
    <3> QED
      BY <3>1
  <2>2. \A d \in Conn : lock'[d] = EXCLUSIVE => d # c /\ lock[d] = EXCLUSIVE
    BY <1>1, LocksDiffer DEF TypeInv
  <2> QED
    BY <1>1, <2>1, <2>2 DEF LockInv, AloneInv, TypeInv
<1> QED
  BY <1>4, <1>5, <1>6, <1>7 DEF LockInv

(* A connection that reads becomes the writer, or the one it is goes on.    *)
LEMMA TakesLocks ==
  ASSUME TypeInv, LockInv, NEW c \in Conn, NEW level \in {RESERVED, PENDING, EXCLUSIVE},
         lock[c] \in {SHARED, RESERVED, PENDING}, CanWrite(c), TakeWriter(c, level),
         level = EXCLUSIVE => AloneWith(c)
  PROVE  LockInv'
<1> DEFINE o == on[c]
<1>1. /\ pWriter' = [pWriter EXCEPT ![o] = c] /\ eWriter' = [eWriter EXCEPT ![o] = level]
      /\ lock' = [lock EXCEPT ![c] = level] /\ UNCHANGED <<on, nRef, nShared>>
  BY DEF TakeWriter
<1>2. /\ o \in Ov /\ c # None /\ lock[c] > NONE /\ lock[c] >= SHARED
      /\ level > SHARED /\ level >= SHARED /\ level # NONE
  <2>1. lock[c] > NONE /\ lock[c] >= SHARED /\ lock[c] # NONE
    BY LocksDiffer
  <2>2. on[c] # None
    BY <2>1 DEF LockInv, NoLockInv
  <2> QED
    BY <2>1, <2>2, NoneAssumption, LocksDiffer DEF TypeInv
<1> HIDE DEF o
<1>3. CountInv'
  <2>1. \A q \in Ov : Users(q)' = Users(q)
    BY <1>1 DEF Users
  <2>2. \A q \in Ov : Sharers(q)' = Sharers(q)
    BY <1>1, <1>2 DEF TypeInv, Sharers
  <2> QED
    BY <1>1, <2>1, <2>2 DEF LockInv, CountInv
<1>4. NoLockInv'
  BY <1>1, <1>2, NoneAssumption DEF LockInv, NoLockInv, TypeInv, o
<1>5. WriterInv'
  <2>1. \A d \in Conn \ {c} : on[d] = o => ~(lock[d] > SHARED)
    BY <1>2, NoneAssumption DEF LockInv, WriterInv, CanWrite, o
  <2>2. \A d \in Conn : lock'[d] > SHARED => pWriter'[on[d]] = d
    BY <1>1, <1>2, <2>1 DEF LockInv, WriterInv, TypeInv, o
  <2>3. ASSUME NEW q \in Ov
        PROVE  IF pWriter'[q] = None THEN eWriter'[q] = NONE
               ELSE /\ on[pWriter'[q]] = q /\ lock'[pWriter'[q]] > SHARED
                    /\ eWriter'[q] = lock'[pWriter'[q]]
    <3>1. CASE q = o
      BY <1>1, <1>2, <3>1 DEF TypeInv, o
    <3>2. CASE q # o
      <4>1. pWriter'[q] = pWriter[q] /\ eWriter'[q] = eWriter[q]
        BY <1>1, <3>2 DEF TypeInv
      <4>2. pWriter[q] # None => pWriter[q] # c /\ pWriter[q] \in Conn
        BY <3>2 DEF LockInv, WriterInv, TypeInv, o
      <4>3. pWriter[q] # None => lock'[pWriter[q]] = lock[pWriter[q]]
        BY <1>1, <4>2 DEF TypeInv
      <4> QED
        BY <4>1, <4>3 DEF LockInv, WriterInv
    <3> QED
      BY <3>1, <3>2
  <2> QED
    BY <1>1, <2>2, <2>3 DEF WriterInv
<1>6. AloneInv'
  <2>1. ASSUME level = EXCLUSIVE, NEW d \in Conn, d # c, on[d] = o PROVE lock[d] = NONE
    <3>1. c \in Sharers(o) /\ Sharers(o) \subseteq Conn
      BY <1>2 DEF Sharers, o
    <3>2. Cardinality(Sharers(o)) <= 1
      BY <1>2, <2>1 DEF AloneWith, LockInv, CountInv, o
    <3>3. Cardinality(Sharers(o) \ {c}) = Cardinality(Sharers(o)) - 1
      BY <3>1, SomeConns
    <3>4. Sharers(o) \ {c} = {}
      <4>1. Cardinality(Sharers(o)) \in Nat /\ Cardinality(Sharers(o) \ {c}) \in Nat
        BY <3>1, SomeConns
      <4>2. Cardinality(Sharers(o) \ {c}) = 0
        BY <3>2, <3>3, <4>1
      <4>3. Sharers(o) \ {c} \in SUBSET Conn
        BY <3>1
      <4> QED
        BY <4>2, <4>3, SomeConns
    <3>5. ~(lock[d] >= SHARED)
      BY <2>1, <3>4 DEF Sharers
    <3>6. lock[d] \in Lock
      BY DEF TypeInv
    <3> QED
      BY <3>5, <3>6, LocksDiffer, LockLevels
  <2>2. ASSUME NEW d \in Conn, d # c, on[d] = o PROVE lock[d] # EXCLUSIVE
    BY <1>2, <2>2, LocksDiffer DEF LockInv, AloneInv, o
  <2> QED
    BY <1>1, <2>1, <2>2 DEF LockInv, AloneInv, TypeInv, o
<1> QED
  BY <1>3, <1>4, <1>5, <1>6 DEF LockInv

(* A connection lowers its lock, or gives it up and closes the overlay. *)
LEMMA UnlocksLocks ==
  ASSUME TypeInv, LockInv, NEW c \in Conn, NEW o \in Ov, o = on[c],
         NEW to \in {NONE, SHARED}, lock[c] > to \/ to = NONE, Unlocked(c, o, to),
         \/ on' = on /\ nRef' = nRef
         \/ to = NONE /\ on' = [on EXCEPT ![c] = None]
            /\ nRef' = [nRef EXCEPT ![o] = nRef[o] - 1]
  PROVE  LockInv'
<1>1. /\ lock' = [lock EXCEPT ![c] = to]
      /\ nShared' = [nShared EXCEPT ![o] =
           IF to = NONE /\ lock[c] >= SHARED THEN nShared[o] - 1 ELSE nShared[o]]
  BY DEF Unlocked
<1>2. /\ pWriter' = [pWriter EXCEPT ![o] = IF pWriter[o] = c THEN None ELSE pWriter[o]]
      /\ eWriter' = [eWriter EXCEPT ![o] = IF pWriter[o] = c THEN NONE ELSE eWriter[o]]
  <2>1. lock[c] > SHARED <=> pWriter[o] = c
    BY NoneAssumption DEF LockInv, WriterInv
  <2> QED
    BY <2>1 DEF Unlocked
<1>3. o # None /\ c # None /\ ~(NONE >= SHARED) /\ SHARED >= SHARED /\ to \in Int
  BY NoneAssumption, LocksDiffer
<1>4. \A d \in Conn \ {c} : on'[d] = on[d] /\ lock'[d] = lock[d]
  BY <1>1 DEF TypeInv
<1>5. lock'[c] = to /\ (on'[c] = o \/ (to = NONE /\ on'[c] = None))
  BY <1>1 DEF TypeInv
<1>6. CountInv'
  <2>1. \A q \in Ov \ {o} : Users(q)' = Users(q) /\ Sharers(q)' = Sharers(q)
    BY <1>4, <1>5, NoneAssumption DEF Users, Sharers
  <2>2. nRef'[o] = Cardinality(Users(o)')
    <3>1. CASE on' = on /\ nRef' = nRef
      BY <3>1 DEF LockInv, CountInv, Users
    <3>2. CASE on' = [on EXCEPT ![c] = None] /\ nRef' = [nRef EXCEPT ![o] = nRef[o] - 1]
      <4>1. Users(o)' = Users(o) \ {c} /\ c \in Users(o) /\ Users(o) \subseteq Conn
        BY <1>3, <3>2 DEF TypeInv, Users
      <4>2. Cardinality(Users(o)') = Cardinality(Users(o)) - 1
        BY <4>1, SomeConns
      <4> QED
        BY <3>2, <4>2 DEF LockInv, CountInv, TypeInv
    <3> QED
      BY <3>1, <3>2
  <2>3. nShared'[o] = Cardinality(Sharers(o)')
    <3>1. CASE to = NONE /\ lock[c] >= SHARED
      <4>1. Sharers(o)' = Sharers(o) \ {c} /\ c \in Sharers(o) /\ Sharers(o) \subseteq Conn
        BY <1>3, <1>4, <1>5, <3>1 DEF Sharers
      <4>2. Cardinality(Sharers(o)') = Cardinality(Sharers(o)) - 1
        BY <4>1, SomeConns
      <4> QED
        BY <1>1, <3>1, <4>2 DEF LockInv, CountInv, TypeInv
    <3>2. CASE ~(to = NONE /\ lock[c] >= SHARED)
      <4>1. lock[c] >= SHARED <=> to >= SHARED
        <5>1. CASE to = NONE
          BY <1>3, <3>2, <5>1
        <5>2. CASE to = SHARED
          <6>1. lock[c] \in Int
            BY LockLevels DEF TypeInv
          <6> QED
            BY <1>3, <5>2, <6>1, LocksDiffer
        <5> QED
          BY <5>1, <5>2
      <4>2. Sharers(o)' = Sharers(o)
        BY <1>3, <1>4, <1>5, <4>1 DEF Sharers
      <4> QED
        BY <1>1, <3>2, <4>2 DEF LockInv, CountInv, TypeInv
    <3> QED
      BY <3>1, <3>2
  <2>4. \A q \in Ov \ {o} : nRef'[q] = nRef[q] /\ nShared'[q] = nShared[q]
    BY <1>1 DEF TypeInv
  <2> QED
    BY <2>1, <2>2, <2>3, <2>4 DEF LockInv, CountInv
<1>7. NoLockInv'
  BY <1>3, <1>4, <1>5 DEF LockInv, NoLockInv
<1>8. WriterInv'
  <2>1. ~(to > SHARED)
    BY LocksDiffer
  <2>2. ASSUME NEW d \in Conn, lock'[d] > SHARED PROVE pWriter'[on'[d]] = d
    <3>1. d # c
      BY <1>5, <2>1, <2>2
    <3>2. pWriter[on[d]] = d /\ on'[d] = on[d]
      BY <1>4, <2>2, <3>1 DEF LockInv, WriterInv
    <3>3. on[d] \in Ov
      BY <1>4, <2>2, <3>1, LocksDiffer DEF LockInv, NoLockInv, TypeInv
    <3> QED
      BY <1>2, <3>1, <3>2, <3>3 DEF TypeInv
  <2>3. ASSUME NEW q \in Ov
        PROVE  IF pWriter'[q] = None THEN eWriter'[q] = NONE
               ELSE /\ on'[pWriter'[q]] = q /\ lock'[pWriter'[q]] > SHARED
                    /\ eWriter'[q] = lock'[pWriter'[q]]
    <3>1. CASE pWriter[q] = c
      <4>1. q = o
        BY <1>3, <3>1 DEF LockInv, WriterInv
      <4> QED
        BY <1>2, <3>1, <4>1 DEF TypeInv
    <3>2. CASE pWriter[q] # c
      <4>1. pWriter'[q] = pWriter[q] /\ eWriter'[q] = eWriter[q]
        BY <1>2, <3>2 DEF TypeInv
      <4>2. pWriter[q] # None => pWriter[q] \in Conn \ {c}
        BY <3>2 DEF TypeInv
      <4> QED
        BY <1>4, <4>1, <4>2 DEF LockInv, WriterInv
    <3> QED
      BY <3>1, <3>2
  <2> QED
    BY <2>2, <2>3 DEF WriterInv
<1>9. AloneInv'
  <2>1. to # EXCLUSIVE
    BY LocksDiffer
  <2>2. ASSUME NEW d \in Conn, NEW e \in Conn, lock'[d] = EXCLUSIVE, on'[e] = on'[d], e # d
        PROVE  lock'[e] = NONE
    <3>1. d # c /\ lock[d] = EXCLUSIVE /\ on'[d] = on[d]
      BY <1>4, <1>5, <2>1, <2>2
    <3>2. CASE e = c
      <4>1. CASE on'[c] = o
        <5>1. lock[c] = NONE
          BY <2>2, <3>1, <3>2, <4>1 DEF LockInv, AloneInv
        <5>2. to = NONE
          BY <5>1, LocksDiffer
        <5> QED
          BY <1>5, <3>2, <5>2
      <4> QED
        BY <1>5, <3>2, <4>1
    <3>3. CASE e # c
      BY <1>4, <2>2, <3>1, <3>3 DEF LockInv, AloneInv
    <3> QED
      BY <3>2, <3>3
  <2> QED
    BY <2>2 DEF AloneInv
<1> QED
  BY <1>6, <1>7, <1>8, <1>9 DEF LockInv

(***************************************************************************)
(* Who writes, and what it has in hand                                     *)
(***************************************************************************)
LEMMA Writes ==
  ASSUME TypeInv, LockInv, NEW c \in Conn, lock[c] = EXCLUSIVE
  PROVE  /\ on[c] \in Ov /\ pWriter[on[c]] = c /\ eWriter[on[c]] = EXCLUSIVE
         /\ \A d \in Conn : on[d] = on[c] /\ d # c => lock[d] = NONE
<1>1. lock[c] > SHARED /\ lock[c] # NONE
  BY LocksDiffer
<1>2. on[c] \in Ov /\ pWriter[on[c]] = c
  BY <1>1 DEF TypeInv, LockInv, NoLockInv, WriterInv
<1>3. eWriter[on[c]] = EXCLUSIVE
  BY <1>2, NoneAssumption DEF LockInv, WriterInv
<1> QED
  BY <1>2, <1>3 DEF LockInv, AloneInv

(* An overlay that is written has a connection that does. *)
LEMMA IsWritten ==
  ASSUME TypeInv, LockInv, NEW o \in Ov, eWriter[o] = EXCLUSIVE
  PROVE  pWriter[o] \in Conn /\ on[pWriter[o]] = o /\ lock[pWriter[o]] = EXCLUSIVE
BY LocksDiffer, NoneAssumption DEF TypeInv, LockInv, WriterInv

LEMMA Busy ==
  ASSUME TypeInv, LockInv, OpInv, NEW c \in Conn, op[c].pc # "idle" \/ todo[c] # {}
  PROVE  /\ lock[c] = EXCLUSIVE /\ on[c] \in Ov /\ pWriter[on[c]] = c
         /\ eWriter[on[c]] = EXCLUSIVE
         /\ op[c].pc # "idle" => op[c].chunk \in Chunk /\ op[c].chunk \in todo[c]
         /\ \A d \in Conn : on[d] = on[c] /\ d # c =>
              lock[d] = NONE /\ op[d].pc = "idle" /\ todo[d] = {}
<1>1. lock[c] = EXCLUSIVE
  BY DEF OpInv
<1>2. \A d \in Conn : lock[d] = NONE => op[d].pc = "idle" /\ todo[d] = {}
  BY LocksDiffer DEF OpInv
<1>3. op[c].pc # "idle" => op[c].chunk \in Chunk /\ op[c].chunk \in todo[c]
  BY DEF OpInv, TypeInv
<1> QED
  BY <1>1, <1>2, <1>3, Writes

LEMMA RefsAreFinite ==
  ASSUME NEW p
  PROVE  /\ IsFiniteSet(InTables(p)) /\ Cardinality(InTables(p)) \in Nat
         /\ IsFiniteSet(InHand(p)) /\ Cardinality(InHand(p)) \in Nat
<1>1. InTables(p) \in SUBSET (Ov \X Chunk) /\ InHand(p) \in SUBSET Conn
  BY DEF InTables, InHand
<1>2. IsFiniteSet(Ov \X Chunk)
  BY FiniteAssumption, ChunksAreFinite, FS_Product
<1>3. IsFiniteSet(InTables(p)) /\ IsFiniteSet(InHand(p))
  BY <1>1, <1>2, FiniteAssumption, FS_Subset
<1> QED
  BY <1>3, FS_CardinalityType

LEMMA InTable ==
  ASSUME NEW p, NEW o \in Ov, NEW i \in Chunk
  PROVE  <<o, i>> \in InTables(p) <=> apPage[o][i] = p /\ ~Installing(o, i)
BY DEF InTables, Installing

(* A chunk that is being installed is one its writer still has to write. *)
LEMMA InstalledByWriter ==
  ASSUME TypeInv, LockInv, OpInv, NEW o \in Ov, NEW i \in Chunk, Installing(o, i)
  PROVE  eWriter[o] = EXCLUSIVE /\ i \in todo[pWriter[o]] /\ op[pWriter[o]].pc = "install"
BY Busy DEF Installing

(* What the count of a page tells of those that have it. *)
LEMMA Counted ==
  ASSUME PagesAreCounted, NEW p \in PageId
  PROVE  /\ count[p] = 0 => InTables(p) = {} /\ InHand(p) = {}
         /\ \A x \in InTables(p) : count[p] >= 1
              /\ (count[p] = 1 => InTables(p) = {x} /\ InHand(p) = {})
         /\ \A c \in InHand(p) : count[p] = 1 => InTables(p) = {}
<1> DEFINE T == InTables(p)
           H == InHand(p)
<1>1. /\ IsFiniteSet(T) /\ IsFiniteSet(H) /\ count[p] = Cardinality(T) + Cardinality(H)
      /\ Cardinality(T) \in Nat /\ Cardinality(H) \in Nat
  BY RefsAreFinite DEF PagesAreCounted
<1> HIDE DEF T, H
<1>2. (Cardinality(T) = 0 <=> T = {}) /\ (Cardinality(H) = 0 <=> H = {})
  BY <1>1, FS_EmptySet
<1>3. count[p] = 0 => T = {} /\ H = {}
  BY <1>1, <1>2
<1>4. ASSUME NEW x \in T
      PROVE  count[p] >= 1 /\ (count[p] = 1 => T = {x} /\ H = {})
  <2>1. Cardinality(T) >= 1
    BY <1>1, <1>2
  <2>2. IsFiniteSet(T \ {x}) /\ Cardinality(T \ {x}) = Cardinality(T) - 1
    BY <1>1, FS_RemoveElement
  <2>3. ASSUME count[p] = 1 PROVE T = {x} /\ H = {}
    <3>1. Cardinality(T) = 1 /\ Cardinality(H) = 0
      BY <1>1, <2>1, <2>3
    <3>2. T \ {x} = {}
      BY <2>2, <3>1, FS_EmptySet
    <3> QED
      BY <1>2, <3>1, <3>2
  <2> QED
    BY <1>1, <2>1, <2>3
<1>5. ASSUME NEW c \in H, count[p] = 1 PROVE T = {}
  <2>1. Cardinality(H) >= 1
    BY <1>1, <1>2
  <2> QED
    BY <1>1, <1>2, <1>5, <2>1
<1> QED
  BY <1>3, <1>4, <1>5 DEF T, H

(* A page that is written to, or is about to be, is in no other place. *)
LEMMA HeldOnce ==
  ASSUME TypeInv, LockInv, OpInv, PagesAreCounted, NEW c \in Conn, op[c].pc \in Holding,
         NEW o \in Ov, NEW i \in Chunk, <<o, i>> \in InTables(op[c].new)
  PROVE  op[c].pc = "write" /\ o = on[c] /\ i = op[c].chunk
<1> DEFINE p == op[c].new
<1>1. p \in PageId /\ count[p] = 1
  BY DEF OpInv
<1>2. CASE op[c].pc \in {"drop", "install"}
  <2>1. c \in InHand(p)
    BY <1>2 DEF InHand
  <2> QED
    BY <1>1, <2>1, Counted
<1>3. CASE op[c].pc = "write"
  <2>1. on[c] \in Ov /\ op[c].chunk \in Chunk
    BY <1>3, Busy
  <2>2. ~Installing(on[c], op[c].chunk)
    BY <1>3, Busy DEF Installing
  <2>3. <<on[c], op[c].chunk>> \in InTables(p)
    BY <1>3, <2>1, <2>2, InTable DEF OpInv, Page
  <2> QED
    BY <1>1, <1>3, <2>3, Counted
<1> QED
  BY <1>2, <1>3 DEF Holding

(* A user of an overlay is counted. *)
LEMMA Used ==
  ASSUME TypeInv, LockInv, NEW o \in Ov
  PROVE  /\ nRef[o] \in Nat /\ (nRef[o] = 0 <=> Users(o) = {})
         /\ \A c \in Conn : on[c] = o => nRef[o] >= 1
         /\ \A c, d \in Conn : on[c] = o /\ nRef[o] = 1 /\ on[d] = o => c = d
<1>1. Users(o) \in SUBSET Conn /\ nRef[o] = Cardinality(Users(o))
  BY DEF Users, LockInv, CountInv
<1>2. nRef[o] \in Nat /\ (nRef[o] = 0 <=> Users(o) = {})
  BY <1>1, SomeConns
<1>3. ASSUME NEW c \in Conn, NEW d \in Conn, on[c] = o, on[d] = o, nRef[o] = 1
      PROVE  c = d
  <2>1. Users(o) \ {c} \in SUBSET Conn /\ Cardinality(Users(o) \ {c}) = 0
    BY <1>1, <1>3, SomeConns DEF Users
  <2>2. Users(o) \ {c} = {}
    BY <2>1, SomeConns
  <2> QED
    BY <1>3, <2>2 DEF Users
<1> QED
  BY <1>2, <1>3 DEF Users

LEMMA SomeChunks ==
  ASSUME NEW S \in SUBSET Chunk, NEW o
  PROVE  /\ Cardinality(S) \in Nat /\ (Cardinality(S) # 0 => \E i \in Chunk : i \in S)
         /\ IsFiniteSet({o} \X S) /\ Cardinality({o} \X S) = Cardinality(S)
<1>1. IsFiniteSet(S)
  BY ChunksAreFinite, FS_Subset
<1>2. Cardinality(S) \in Nat /\ (Cardinality(S) = 0 <=> S = {})
  BY <1>1, FS_CardinalityType, FS_EmptySet
<1>3. IsFiniteSet({o} \X S) /\ Cardinality({o} \X S) = Cardinality(S)
  <2>1. IsFiniteSet({o}) /\ Cardinality({o}) = 1
    BY FS_Singleton
  <2>2. IsFiniteSet({o} \X S) /\ Cardinality({o} \X S) = 1 * Cardinality(S)
    BY <1>1, <2>1, FS_Product
  <2> QED
    BY <1>2, <2>2
<1> QED
  BY <1>2, <1>3

LEMMA UsesAreCounted ==
  ASSUME NEW t, NEW p, NEW o
  PROVE  /\ Uses(t, p) \in Nat
         /\ IsFiniteSet({o} \X {i \in Chunk : t[i] = p})
         /\ Cardinality({o} \X {i \in Chunk : t[i] = p}) = Uses(t, p)
         /\ Uses(t, p) # 0 => \E i \in Chunk : t[i] = p
<1>1. {i \in Chunk : t[i] = p} \in SUBSET Chunk
  OBVIOUS
<1> QED
  BY <1>1, SomeChunks DEF Uses

(***************************************************************************)
(* Steps that leave the pages alone                                        *)
(***************************************************************************)
LEMMA SamePages ==
  ASSUME TypeInv, LockInv, OpInv, EndInv, PagesAreCounted, UNCHANGED <<pageVars, op>>,
         \A d \in Conn : op[d].pc # "idle" => on'[d] = on[d] /\ op[d].chunk \in todo'[d],
         \A d \in Conn : todo'[d] # {} => lock'[d] = EXCLUSIVE
  PROVE  /\ OpInv' /\ EndInv' /\ PagesAreCounted' /\ szFile' = szFile
         /\ \A o \in Ov, i \in Chunk : Data(o, i)' = Data(o, i)
<1>1. szFile' = szFile /\ apPage' = apPage /\ count' = count /\ bytes' = bytes /\ op' = op
  BY DEF pageVars
<1>2. ASSUME NEW p PROVE InTables(p)' = InTables(p) /\ InHand(p)' = InHand(p)
  <2>1. \A d \in Conn : op[d].pc = "install" => on'[d] = on[d]
    OBVIOUS
  <2>2. \A q, i : (\E d \in Conn : on'[d] = q /\ op[d].chunk = i /\ op[d].pc = "install")
             <=> (\E d \in Conn : on[d] = q /\ op[d].chunk = i /\ op[d].pc = "install")
    BY <2>1
  <2> QED
    BY <1>1, <2>2 DEF InTables, InHand
<1>3. PagesAreCounted'
  BY <1>1, <1>2 DEF PagesAreCounted
<1>4. ASSUME NEW d \in Conn
      PROVE  /\ todo'[d] # {} => lock'[d] = EXCLUSIVE
             /\ IF op[d].pc = "idle" THEN op[d] = Idle ELSE op[d].chunk \in todo'[d]
             /\ op[d].pc = "drop" => Page(d)' # None
             /\ op[d].pc \in Holding => op[d].new \in PageId /\ count[op[d].new] = 1
             /\ op[d].pc = "write" => Page(d)' = op[d].new
  <2>1. op[d].pc # "idle" => Page(d)' = Page(d)
    BY <1>1 DEF Page
  <2> QED
    BY <2>1 DEF OpInv
<1>5. OpInv'
  BY <1>1, <1>4 DEF OpInv
<1>6. \A o \in Ov, i \in Chunk : Data(o, i)' = Data(o, i)
  BY <1>1 DEF Data
<1>7. EndInv'
  <2>1. \A o \in Ov, i \in Chunk : Growing(o, i) => Growing(o, i)'
    BY <1>1 DEF Growing
  <2> QED
    BY <1>1, <2>1 DEF EndInv
<1> QED
  BY <1>1, <1>3, <1>5, <1>6, <1>7

(* A file that nobody writes reads as it was committed. *)
LEMMA Settled ==
  ASSUME TypeInv, SettledInv, NEW o \in Ov, eWriter[o] # EXCLUSIVE
  PROVE  /\ Content(o) = committed[o] /\ szFile[o] = committed[o].size
         /\ \A i \in Chunk : Data(o, i) = committed[o].data[i]
<1>1. szFile[o] = committed[o].size
      /\ \A i \in Chunk : Data(o, i) = committed[o].data[i]
  BY DEF SettledInv
<1>2. Content(o) = [size |-> szFile[o], data |-> [i \in Chunk |-> Data(o, i)]]
  BY DEF Content, Data
<1>3. /\ committed[o] = [size |-> committed[o].size, data |-> committed[o].data]
      /\ committed[o].data = [i \in Chunk |-> committed[o].data[i]]
  BY DEF TypeInv, File
<1>4. [i \in Chunk |-> Data(o, i)] = committed[o].data
  BY <1>1, <1>3
<1> QED
  BY <1>1, <1>2, <1>3, <1>4

LEMMA ReadableIsSettled ==
  ASSUME TypeInv, LockInv, NEW o \in Ov, eWriter[o] < PENDING \/ pWriter[o] = None
  PROVE  eWriter[o] # EXCLUSIVE
BY LocksDiffer DEF LockInv, WriterInv

LEMMA OpenKeeps ==
  ASSUME IInv, NEW c \in Conn, NEW o \in Ov, Open(c, o)
  PROVE  IInv'
<1> USE DEF IInv, PageInv
<1>1. on[c] = None /\ on' = [on EXCEPT ![c] = o] /\ nRef' = [nRef EXCEPT ![o] = nRef[o] + 1]
      /\ UNCHANGED <<lockVars, pageVars, op, pagerVars, committed, view>>
  BY DEF Open
<1>2. TypeInv'
  BY <1>1 DEF TypeInv, lockVars, pageVars, pagerVars
<1>3. LockInv'
  BY <1>1, JoinsLocks
<1>4. lock[c] = NONE
  BY <1>1 DEF LockInv, NoLockInv
<1>5. OpInv' /\ EndInv' /\ PagesAreCounted' /\ szFile' = szFile
      /\ \A q \in Ov, i \in Chunk : Data(q, i)' = Data(q, i)
  <2>1. todo' = todo /\ lock' = lock
    BY <1>1 DEF lockVars, pagerVars
  <2>2. \A d \in Conn : op[d].pc # "idle" => on'[d] = on[d] /\ op[d].chunk \in todo'[d]
    <3>1. \A d \in Conn : op[d].pc # "idle" => lock[d] = EXCLUSIVE /\ op[d].chunk \in todo[d]
      BY Busy
    <3>2. \A d \in Conn : lock[d] = EXCLUSIVE => d # c
      BY <1>4, LocksDiffer
    <3> QED
      BY <1>1, <2>1, <3>1, <3>2 DEF TypeInv
  <2>3. \A d \in Conn : todo'[d] # {} => lock'[d] = EXCLUSIVE
    BY <2>1 DEF OpInv
  <2> QED
    BY <1>1, <2>2, <2>3, SamePages
<1>6. EmptyInv'
  <2>1. \A q \in Ov : nRef'[q] = 0 => nRef[q] = 0
    BY <1>1, Used DEF TypeInv
  <2> QED
    BY <1>1, <2>1 DEF EmptyInv, pageVars
<1>7. SettledInv' /\ TailInv'
  BY <1>1, <1>5 DEF SettledInv, TailInv, lockVars, pagerVars
<1>8. ViewInv'
  BY <1>1, <1>4, LocksDiffer DEF ViewInv, TypeInv, lockVars
<1> QED
  BY <1>2, <1>3, <1>5, <1>6, <1>7, <1>8

LEMMA LockSharedKeeps ==
  ASSUME IInv, NEW c \in Conn, LockShared(c)
  PROVE  IInv'
<1> USE DEF IInv, PageInv
<1>1. PICK o \in Ov :
         /\ o = on[c] /\ lock[c] = NONE /\ eWriter[o] < PENDING
         /\ lock' = [lock EXCEPT ![c] = SHARED]
         /\ view' = [view EXCEPT ![c] = Content(o)]
  BY DEF LockShared, CanShare, TypeInv
<1>2. UNCHANGED <<on, nRef, pWriter, eWriter, pageVars, op, pagerVars, committed>>
  BY DEF LockShared
<1>3. Content(o) = committed[o]
  BY <1>1, ReadableIsSettled, Settled
<1>4. TypeInv'
  <2>1. nShared' \in [Ov -> Int]
    BY <1>1 DEF LockShared, TypeInv
  <2>2. lock' \in [Conn -> Lock] /\ view' \in [Conn -> File]
    BY <1>1, <1>3, LockLevels DEF TypeInv
  <2> QED
    BY <1>2, <2>1, <2>2 DEF TypeInv, pageVars, pagerVars
<1>5. LockInv'
  BY LockSharedLocks
<1>6. OpInv' /\ EndInv' /\ PagesAreCounted' /\ szFile' = szFile
      /\ \A q \in Ov, i \in Chunk : Data(q, i)' = Data(q, i)
  <2>1. todo' = todo /\ on' = on
    BY <1>2 DEF pagerVars
  <2>2. \A d \in Conn : op[d].pc # "idle" => on'[d] = on[d] /\ op[d].chunk \in todo'[d]
    BY <2>1, Busy
  <2>3. \A d \in Conn : todo'[d] # {} => lock'[d] = EXCLUSIVE
    <3>1. \A d \in Conn : todo[d] # {} => lock[d] = EXCLUSIVE
      BY DEF OpInv
    <3> QED
      BY <1>1, <2>1, <3>1, LocksDiffer DEF TypeInv
  <2> QED
    BY <1>2, <2>2, <2>3, SamePages
<1>7. EmptyInv'
  BY <1>2 DEF EmptyInv, pageVars
<1>8. SettledInv' /\ TailInv'
  BY <1>2, <1>6 DEF SettledInv, TailInv, pagerVars
<1>9. ViewInv'
  BY <1>1, <1>2, <1>3 DEF ViewInv, TypeInv
<1> QED
  BY <1>4, <1>5, <1>6, <1>7, <1>8, <1>9

(* Whoever may become the writer finds the file settled. *)
LEMMA WriterFindsSettled ==
  ASSUME TypeInv, LockInv, SettledInv, NEW c \in Conn,
         lock[c] \in {SHARED, RESERVED, PENDING}, CanWrite(c)
  PROVE  /\ on[c] \in Ov /\ eWriter[on[c]] # EXCLUSIVE
         /\ szFile[on[c]] = committed[on[c]].size
         /\ \A i \in Chunk : Data(on[c], i) = committed[on[c]].data[i]
         /\ \A q \in Ov : q # on[c] => pWriter[q] # c
<1>1. on[c] \in Ov
  BY LocksDiffer DEF LockInv, NoLockInv, TypeInv
<1>2. eWriter[on[c]] # EXCLUSIVE
  <2>1. pWriter[on[c]] = None => eWriter[on[c]] = NONE
    BY <1>1 DEF LockInv, WriterInv
  <2>2. pWriter[on[c]] = c => eWriter[on[c]] = lock[c]
    BY <1>1, NoneAssumption DEF LockInv, WriterInv
  <2> QED
    BY <2>1, <2>2, LocksDiffer DEF CanWrite
<1>3. \A q \in Ov : q # on[c] => pWriter[q] # c
  BY NoneAssumption DEF LockInv, WriterInv
<1> QED
  BY <1>1, <1>2, <1>3, Settled

LEMMA LockWaitingKeeps ==
  ASSUME IInv, NEW c \in Conn, NEW level \in {RESERVED, PENDING},
         lock[c] \in {SHARED, RESERVED}, CanWrite(c), TakeWriter(c, level),
         UNCHANGED pagerVars
  PROVE  IInv'
<1> USE DEF IInv, PageInv
<1>1. PICK o \in Ov :
         /\ o = on[c] /\ eWriter[o] # EXCLUSIVE /\ szFile[o] = committed[o].size
         /\ \A i \in Chunk : Data(o, i) = committed[o].data[i]
         /\ \A q \in Ov : q # o => pWriter[q] # c
  BY WriterFindsSettled
<1>2. /\ pWriter' = [pWriter EXCEPT ![o] = c] /\ eWriter' = [eWriter EXCEPT ![o] = level]
      /\ lock' = [lock EXCEPT ![c] = level]
      /\ UNCHANGED <<on, nRef, nShared, pageVars, op, committed, view>>
  BY <1>1 DEF TakeWriter
<1>3. TypeInv'
  BY <1>2, LockLevels DEF TypeInv, pageVars, pagerVars
<1>4. LockInv'
  BY TakesLocks, LocksDiffer
<1>5. OpInv' /\ EndInv' /\ PagesAreCounted' /\ szFile' = szFile
      /\ \A q \in Ov, i \in Chunk : Data(q, i)' = Data(q, i)
  <2>1. todo' = todo /\ on' = on
    BY <1>2 DEF pagerVars
  <2>2. \A d \in Conn : op[d].pc # "idle" => on'[d] = on[d] /\ op[d].chunk \in todo'[d]
    BY <2>1, Busy
  <2>3. \A d \in Conn : todo'[d] # {} => lock'[d] = EXCLUSIVE
    <3>1. \A d \in Conn : todo[d] # {} => lock[d] = EXCLUSIVE /\ d # c
      BY LocksDiffer DEF OpInv
    <3> QED
      BY <1>2, <2>1, <3>1 DEF TypeInv
  <2> QED
    BY <1>2, <2>2, <2>3, SamePages
<1>6. EmptyInv'
  BY <1>2 DEF EmptyInv, pageVars
<1>7. SettledInv'
  <2>1. todo' = todo /\ plan' = plan /\ committed' = committed
    BY <1>2 DEF pagerVars
  <2>2. eWriter'[o] # EXCLUSIVE
    BY <1>2, LocksDiffer DEF TypeInv
  <2>3. \A q \in Ov : q # o => eWriter'[q] = eWriter[q] /\ pWriter'[q] = pWriter[q]
    BY <1>2 DEF TypeInv
  <2>4. /\ szFile'[o] = committed'[o].size
        /\ \A i \in Chunk : Data(o, i)' = committed'[o].data[i]
    BY <1>1, <1>5, <2>1
  <2> QED
    BY <1>5, <2>1, <2>2, <2>3, <2>4 DEF SettledInv
<1>8. ViewInv' /\ TailInv'
  BY <1>2 DEF ViewInv, TailInv, TypeInv, pagerVars
<1> QED
  BY <1>3, <1>4, <1>5, <1>6, <1>7, <1>8

LEMMA LockExclusiveKeeps ==
  ASSUME IInv, NEW c \in Conn, LockExclusive(c)
  PROVE  IInv'
<1> USE DEF IInv, PageInv
<1>1. PICK o \in Ov :
         /\ o = on[c] /\ eWriter[o] # EXCLUSIVE /\ szFile[o] = committed[o].size
         /\ \A i \in Chunk : Data(o, i) = committed[o].data[i]
         /\ \A q \in Ov : q # o => pWriter[q] # c
  BY WriterFindsSettled DEF LockExclusive
<1>2. /\ pWriter' = [pWriter EXCEPT ![o] = c] /\ eWriter' = [eWriter EXCEPT ![o] = EXCLUSIVE]
      /\ lock' = [lock EXCEPT ![c] = EXCLUSIVE]
      /\ UNCHANGED <<on, nRef, nShared, pageVars, op, committed, view>>
  BY <1>1 DEF LockExclusive, TakeWriter
<1>3. PICK n \in Size \ {0} : \E chunks \in SUBSET (0 .. n - 1) :
         /\ todo' = [todo EXCEPT ![c] = chunks]
         /\ plan' = [plan EXCEPT ![c] =
              [size |-> n,
               data |-> [i \in Chunk |-> IF i \in chunks THEN commits + 1
                                         ELSE IF i < n THEN committed[on[c]].data[i] ELSE 0]]]
         /\ commits' = commits + 1
  BY Zenon DEF LockExclusive
<1>4. PICK chunks \in SUBSET (0 .. n - 1) :
         /\ todo' = [todo EXCEPT ![c] = chunks]
         /\ plan' = [plan EXCEPT ![c] =
              [size |-> n,
               data |-> [i \in Chunk |-> IF i \in chunks THEN commits + 1
                                         ELSE IF i < n THEN committed[on[c]].data[i] ELSE 0]]]
         /\ commits' = commits + 1
  BY Zenon, <1>3
<1> DEFINE data == [i \in Chunk |-> IF i \in chunks THEN commits + 1
                                    ELSE IF i < n THEN committed[on[c]].data[i] ELSE 0]
<1>5. /\ plan'[c].size = n /\ todo'[c] = chunks
      /\ \A i \in Chunk : plan'[c].data[i] = IF i \in chunks THEN commits + 1
                                     ELSE IF i < n THEN committed[o].data[i] ELSE 0
  BY <1>1, <1>4 DEF TypeInv
<1>6. TypeInv'
  <2>1. [size |-> n, data |-> data] \in File /\ chunks \subseteq Chunk
    <3>1. \A i \in Chunk : committed[on[c]].data[i] \in Nat
      BY <1>1, FilesAreTyped DEF TypeInv
    <3>2. data \in [Chunk -> Nat]
      BY <3>1 DEF TypeInv
    <3>3. n \in Int /\ n <= N /\ N \in Int
      BY FilesAreTyped, NAssumption
    <3> HIDE DEF data
    <3> QED
      BY <3>2, <3>3 DEF File, Chunk
  <2>2. plan' \in [Conn -> File] /\ todo' \in [Conn -> SUBSET Chunk]
        /\ commits' \in Nat
    <3>1. plan' = [plan EXCEPT ![c] = [size |-> n, data |-> data]]
          /\ todo' = [todo EXCEPT ![c] = chunks] /\ commits' = commits + 1
      BY <1>4
    <3> HIDE DEF data
    <3>2. plan' \in [Conn -> File]
      BY <2>1, <3>1 DEF TypeInv
    <3>3. todo' \in [Conn -> SUBSET Chunk] /\ commits' \in Nat
      BY <2>1, <3>1 DEF TypeInv
    <3> QED
      BY <3>2, <3>3
  <2> QED
    BY <1>2, <2>2, LockLevels DEF TypeInv, pageVars
<1>7. LockInv'
  BY TakesLocks DEF LockExclusive
<1>8. lock[c] # EXCLUSIVE
  BY LocksDiffer DEF LockExclusive
<1>9. OpInv' /\ EndInv' /\ PagesAreCounted' /\ szFile' = szFile
      /\ \A q \in Ov, i \in Chunk : Data(q, i)' = Data(q, i)
  <2>1. on' = on /\ \A d \in Conn \ {c} : todo'[d] = todo[d] /\ lock'[d] = lock[d]
    BY <1>2, <1>4 DEF TypeInv
  <2>2. \A d \in Conn : op[d].pc # "idle" => on'[d] = on[d] /\ op[d].chunk \in todo'[d]
    BY <1>8, <2>1, Busy
  <2>3. \A d \in Conn : todo'[d] # {} => lock'[d] = EXCLUSIVE
    BY <1>2, <2>1 DEF OpInv, TypeInv
  <2> QED
    BY <1>2, <2>2, <2>3, SamePages
<1>10. EmptyInv'
  BY <1>2 DEF EmptyInv, pageVars
<1>11. SettledInv'
  <2>1. ASSUME NEW i \in Chunk
        PROVE  /\ eWriter'[o] = EXCLUSIVE /\ pWriter'[o] = c
               /\ i \notin todo'[c] /\ i < plan'[c].size => Data(o, i) = plan'[c].data[i]
    BY <1>1, <1>2, <1>5 DEF TypeInv
  <2>2. ASSUME NEW q \in Ov, q # o
        PROVE  /\ eWriter'[q] = eWriter[q] /\ pWriter'[q] = pWriter[q]
               /\ eWriter[q] = EXCLUSIVE =>
                 /\ todo'[pWriter[q]] = todo[pWriter[q]]
                 /\ plan'[pWriter[q]] = plan[pWriter[q]]
    <3>1. eWriter'[q] = eWriter[q] /\ pWriter'[q] = pWriter[q]
      BY <1>2, <2>2 DEF TypeInv
    <3>2. eWriter[q] = EXCLUSIVE => pWriter[q] \in Conn /\ pWriter[q] # c
      BY <1>1, <2>2, IsWritten
    <3> QED
      BY <1>4, <3>1, <3>2 DEF TypeInv
  <2> QED
    BY <1>2, <1>9, <2>1, <2>2 DEF SettledInv
<1>12. ViewInv'
  BY <1>2, LocksDiffer DEF ViewInv, TypeInv
<1>13. TailInv'
  <2>1. ZerosBeyond(plan'[c])
    <3>1. \A i \in Chunk : i >= n => i \notin chunks /\ ~(i < n)
      BY ChunksAreFinite, FilesAreTyped
    <3> QED
      BY <1>5, <3>1 DEF ZerosBeyond
  <2>2. \A d \in Conn \ {c} : plan'[d] = plan[d]
    BY <1>4 DEF TypeInv
  <2> QED
    BY <1>2, <2>1, <2>2 DEF TailInv, ZerosBeyond
<1> QED
  BY <1>6, <1>7, <1>9, <1>10, <1>11, <1>12, <1>13

LEMMA UnlockKeeps ==
  ASSUME IInv, NEW c \in Conn, NEW to \in {NONE, SHARED}, Unlock(c, to)
  PROVE  IInv'
<1> USE DEF IInv, PageInv
<1>1. on[c] \in Ov
  <2>1. lock[c] # NONE
    BY LocksDiffer DEF Unlock
  <2> QED
    BY <2>1 DEF LockInv, NoLockInv, TypeInv
<1>2. PICK o \in Ov : o = on[c] /\ Unlocked(c, o, to)
  BY <1>1 DEF Unlock
<1>3. /\ op[c] = Idle /\ todo[c] = {} /\ lock[c] > to
      /\ (lock[c] = EXCLUSIVE => szFile[o] = plan[c].size) /\ plan' = [plan EXCEPT ![c] = NoFile]
      /\ committed' = IF lock[c] = EXCLUSIVE THEN [committed EXCEPT ![o] = plan[c]]
                      ELSE committed
      /\ view' = [view EXCEPT ![c] = IF to = NONE THEN NoFile ELSE committed'[o]]
      /\ UNCHANGED <<on, nRef, pageVars, op, todo, commits>>
  BY <1>2 DEF Unlock
<1>4. /\ lock' = [lock EXCEPT ![c] = to]
      /\ nShared' = [nShared EXCEPT ![o] =
           IF to = NONE /\ lock[c] >= SHARED THEN nShared[o] - 1 ELSE nShared[o]]
      /\ pWriter' = [pWriter EXCEPT ![o] = IF pWriter[o] = c THEN None ELSE pWriter[o]]
      /\ eWriter' = [eWriter EXCEPT ![o] = IF pWriter[o] = c THEN NONE ELSE eWriter[o]]
  <2>1. lock[c] > SHARED <=> pWriter[o] = c
    BY <1>2, NoneAssumption DEF LockInv, WriterInv
  <2> QED
    BY <1>2, <2>1 DEF Unlocked
<1>5. TypeInv'
  <2>1. NoFile \in File
    BY FilesAreTyped
  <2>2. committed' \in [Ov -> File] /\ plan' \in [Conn -> File]
    BY <1>3, <2>1 DEF TypeInv
  <2>3. view' \in [Conn -> File]
    BY <1>3, <2>1, <2>2 DEF TypeInv
  <2>4. /\ lock' \in [Conn -> Lock] /\ pWriter' \in [Ov -> Conn \union {None}]
        /\ eWriter' \in [Ov -> Lock] /\ nShared' \in [Ov -> Int]
    BY <1>4, LockLevels DEF TypeInv
  <2> QED
    BY <1>3, <2>2, <2>3, <2>4 DEF TypeInv, pageVars
<1>6. LockInv'
  BY <1>2, <1>3, UnlocksLocks
<1>7. OpInv' /\ EndInv' /\ PagesAreCounted' /\ szFile' = szFile
      /\ \A q \in Ov, i \in Chunk : Data(q, i)' = Data(q, i)
  <2>1. on' = on /\ todo' = todo
    BY <1>3
  <2>2. \A d \in Conn : op[d].pc # "idle" => on'[d] = on[d] /\ op[d].chunk \in todo'[d]
    BY <2>1, Busy
  <2>3. \A d \in Conn : todo'[d] # {} => lock'[d] = EXCLUSIVE
    BY <1>3, <1>4 DEF OpInv, TypeInv
  <2> QED
    BY <1>3, <2>2, <2>3, SamePages
<1>8. EmptyInv'
  BY <1>3 DEF EmptyInv, pageVars
<1>9. ASSUME NEW q \in Ov, q # o
      PROVE  /\ eWriter'[q] = eWriter[q] /\ pWriter'[q] = pWriter[q]
             /\ committed'[q] = committed[q]
             /\ eWriter[q] = EXCLUSIVE => plan'[pWriter[q]] = plan[pWriter[q]]
  <2>1. eWriter'[q] = eWriter[q] /\ pWriter'[q] = pWriter[q] /\ committed'[q] = committed[q]
    BY <1>3, <1>4, <1>9 DEF TypeInv
  <2>2. eWriter[q] = EXCLUSIVE => pWriter[q] \in Conn /\ pWriter[q] # c
    BY <1>2, <1>9, IsWritten
  <2> QED
    BY <1>3, <2>1, <2>2 DEF TypeInv
<1>10. TailInv'
  <2>1. \A q \in Ov : committed'[q] \in {committed[q], plan[c]}
    BY <1>3 DEF TypeInv
  <2>2. \A d \in Conn : plan'[d] \in {plan[d], NoFile}
    BY <1>3 DEF TypeInv
  <2> QED
    BY <2>1, <2>2, FilesAreTyped DEF TailInv
<1>11. CASE lock[c] = EXCLUSIVE
  <2>1. /\ pWriter[o] = c /\ eWriter[o] = EXCLUSIVE
        /\ \A d \in Conn : on[d] = o /\ d # c => lock[d] = NONE
    BY <1>2, <1>11, Writes
  <2>2. committed'[o] = plan[c] /\ eWriter'[o] = NONE
    BY <1>3, <1>4, <1>11, <2>1 DEF TypeInv
  <2>3. SettledInv'
    <3>1. \A i \in Chunk : Data(o, i) = plan[c].data[i]
      <4>1. ASSUME NEW i \in Chunk PROVE Data(o, i) = plan[c].data[i]
        <5>1. i \in Int /\ plan[c].size \in Int
          BY ChunksAreFinite, FilesAreTyped DEF TypeInv
        <5>2. CASE i < plan[c].size
          BY <1>3, <2>1, <5>2 DEF SettledInv
        <5>3. CASE i >= plan[c].size
          BY <1>3, <1>11, <5>3 DEF TailInv, ZerosBeyond, Data
        <5> QED
          BY <5>1, <5>2, <5>3
      <4> QED
        BY <4>1
    <3> QED
      BY <1>3, <1>7, <1>9, <1>11, <2>2, <3>1, LocksDiffer DEF SettledInv
  <2>4. ViewInv'
    <3>1. ASSUME NEW d \in Conn, lock'[d] \in {SHARED, RESERVED, PENDING}
          PROVE  view'[d] = committed'[on[d]]
      <4>1. CASE d = c
        <5>1. to # NONE
          BY <1>4, <3>1, <4>1, LocksDiffer DEF TypeInv
        <5> QED
          BY <1>2, <1>3, <4>1, <5>1 DEF TypeInv
      <4>2. CASE d # c
        <5>1. lock'[d] = lock[d] /\ view'[d] = view[d]
          BY <1>3, <1>4, <4>2 DEF TypeInv
        <5>2. on[d] # o
          BY <2>1, <3>1, <4>2, <5>1, LocksDiffer
        <5>3. committed'[on[d]] = committed[on[d]]
          BY <1>3, <5>2 DEF TypeInv
        <5> QED
          BY <3>1, <5>1, <5>3 DEF ViewInv
      <4> QED
        BY <4>1, <4>2
    <3> QED
      BY <1>3, <3>1 DEF ViewInv
  <2> QED
    BY <1>5, <1>6, <1>7, <1>8, <1>10, <2>3, <2>4
<1>12. CASE lock[c] # EXCLUSIVE
  <2>1. committed' = committed /\ lock[c] # NONE
    BY <1>3, <1>12, LocksDiffer
  <2>2. eWriter[o] # EXCLUSIVE
    <3>1. ASSUME eWriter[o] = EXCLUSIVE PROVE FALSE
      <4>1. pWriter[o] \in Conn /\ on[pWriter[o]] = o /\ lock[pWriter[o]] = EXCLUSIVE
        BY <3>1, IsWritten
      <4>2. pWriter[o] # c
        BY <1>12, <4>1
      <4> QED
        BY <1>2, <2>1, <4>1, <4>2 DEF LockInv, AloneInv
    <3> QED
      BY <3>1
  <2>3. eWriter'[o] # EXCLUSIVE
    BY <1>4, <2>2, LocksDiffer DEF TypeInv
  <2>4. SettledInv'
    <3>1. szFile[o] = committed[o].size
          /\ \A i \in Chunk : Data(o, i) = committed[o].data[i]
      BY <2>2 DEF SettledInv
    <3> QED
      BY <1>3, <1>7, <1>9, <2>1, <2>3, <3>1 DEF SettledInv
  <2>5. ViewInv'
    <3>1. ASSUME NEW d \in Conn, lock'[d] \in {SHARED, RESERVED, PENDING}
          PROVE  view'[d] = committed[on[d]]
      <4>1. CASE d = c
        <5>1. to # NONE
          BY <1>4, <3>1, <4>1, LocksDiffer DEF TypeInv
        <5> QED
          BY <1>2, <1>3, <2>1, <4>1, <5>1 DEF TypeInv
      <4>2. CASE d # c
        <5>1. lock'[d] = lock[d] /\ view'[d] = view[d]
          BY <1>3, <1>4, <4>2 DEF TypeInv
        <5> QED
          BY <3>1, <5>1 DEF ViewInv
      <4> QED
        BY <4>1, <4>2
    <3> QED
      BY <1>3, <2>1, <3>1 DEF ViewInv
  <2> QED
    BY <1>5, <1>6, <1>7, <1>8, <1>10, <2>4, <2>5
<1> QED
  BY <1>11, <1>12

LEMMA RollbackKeeps ==
  ASSUME IInv, NEW c \in Conn, Rollback(c)
  PROVE  IInv'
<1> USE DEF IInv, PageInv
<1>1. PICK o \in Ov : o = on[c] /\ pWriter[o] = c /\ eWriter[o] = EXCLUSIVE
  BY Writes DEF Rollback
<1>2. /\ lock[c] = EXCLUSIVE /\ op[c] = Idle
      /\ plan' = [plan EXCEPT ![c] = committed[o]]
      /\ todo' = [todo EXCEPT ![c] =
           {i \in 0 .. committed[o].size - 1 :
              Content(o).data[i] # committed[o].data[i]
              \/ (i = committed[o].size - 1 /\ Content(o).size < committed[o].size)}]
      /\ UNCHANGED <<on, nRef, lockVars, pageVars, op, commits, committed, view>>
  BY <1>1 DEF Rollback
<1>3. committed[o].size \in Int /\ committed[o].size <= N /\ N \in Int
  BY FilesAreTyped, NAssumption DEF TypeInv
<1>4. TypeInv'
  <2>1. 0 .. committed[o].size - 1 \subseteq Chunk
    BY <1>3 DEF Chunk
  <2>2. todo' \in [Conn -> SUBSET Chunk] /\ plan' \in [Conn -> File]
    BY <1>2, <2>1 DEF TypeInv
  <2> QED
    BY <1>2, <2>2 DEF TypeInv, lockVars, pageVars
<1>5. LockInv'
  BY <1>2, SameLocks
<1>6. OpInv' /\ EndInv' /\ PagesAreCounted' /\ szFile' = szFile
      /\ \A q \in Ov, i \in Chunk : Data(q, i)' = Data(q, i)
  <2>1. on' = on /\ lock' = lock /\ \A d \in Conn \ {c} : todo'[d] = todo[d]
    BY <1>2 DEF TypeInv, lockVars
  <2>2. \A d \in Conn : op[d].pc # "idle" => on'[d] = on[d] /\ op[d].chunk \in todo'[d]
    <3>1. op[c].pc = "idle"
      BY <1>2 DEF Idle
    <3> QED
      BY <2>1, <3>1, Busy
  <2>3. \A d \in Conn : todo'[d] # {} => lock'[d] = EXCLUSIVE
    BY <1>2, <2>1 DEF OpInv
  <2> QED
    BY <1>2, <2>2, <2>3, SamePages
<1>7. EmptyInv'
  BY <1>2 DEF EmptyInv, pageVars
<1>8. SettledInv'
  <2>1. ASSUME NEW i \in Chunk, i \notin todo'[c], i < plan'[c].size
        PROVE  Data(o, i) = plan'[c].data[i]
    <3>1. plan'[c] = committed[o]
      BY <1>2 DEF TypeInv
    <3>2. i \in 0 .. committed[o].size - 1
      BY <1>3, <2>1, <3>1, ChunksAreFinite
    <3>3. Content(o).data[i] = committed[o].data[i]
      BY <1>2, <2>1, <3>2 DEF TypeInv
    <3> QED
      BY <3>1, <3>3 DEF Content, Data
  <2>2. ASSUME NEW q \in Ov, q # o, eWriter[q] = EXCLUSIVE
        PROVE  todo'[pWriter[q]] = todo[pWriter[q]] /\ plan'[pWriter[q]] = plan[pWriter[q]]
    <3>1. pWriter[q] \in Conn /\ pWriter[q] # c
      BY <1>1, <2>2, IsWritten
    <3> QED
      BY <1>2, <3>1 DEF TypeInv
  <2>3. ASSUME NEW q \in Ov
        PROVE  IF eWriter[q] = EXCLUSIVE
               THEN \A i \in Chunk :
                      i \notin todo'[pWriter[q]] /\ i < plan'[pWriter[q]].size
                        => Data(q, i)' = plan'[pWriter[q]].data[i]
               ELSE szFile'[q] = committed[q].size
                    /\ \A i \in Chunk : Data(q, i)' = committed[q].data[i]
    <3>1. CASE q = o
      BY <1>1, <1>6, <2>1, <3>1
    <3>2. CASE q # o
      BY <1>6, <2>2, <3>2 DEF SettledInv
    <3> QED
      BY <3>1, <3>2
  <2> QED
    BY <1>2, <2>3 DEF SettledInv, lockVars
<1>9. ViewInv'
  BY <1>2 DEF ViewInv, lockVars
<1>10. TailInv'
  <2>1. \A d \in Conn : plan'[d] \in {plan[d], committed[o]}
    BY <1>2 DEF TypeInv
  <2> QED
    BY <1>2, <2>1 DEF TailInv
<1> QED
  BY <1>4, <1>5, <1>6, <1>7, <1>8, <1>9, <1>10

LEMMA Removed ==
  ASSUME NEW S, NEW U, IsFiniteSet(S), S \intersect U = U
  PROVE  Cardinality(S \ U) = Cardinality(S) - Cardinality(U)
<1>1. Cardinality(S \ U) = Cardinality(S) - Cardinality(S \intersect U)
  BY FS_Difference
<1> QED
  BY <1>1

LEMMA Added ==
  ASSUME NEW S, NEW U, IsFiniteSet(S), IsFiniteSet(U), S \intersect U = {}
  PROVE  Cardinality(S \union U) = Cardinality(S) + Cardinality(U)
<1>1. Cardinality(S \union U)
        = Cardinality(S) + Cardinality(U) - Cardinality(S \intersect U)
  BY FS_Union
<1>2. Cardinality(S) \in Nat /\ Cardinality(U) \in Nat
  BY FS_CardinalityType
<1> QED
  BY <1>1, <1>2, FS_EmptySet

(* The pages that an overlay lets go of, whose connections write none of them. *)
LEMMA PagesDropped ==
  ASSUME IInv, NEW o \in Ov, NEW n \in Size, DropPages(o, n),
         szFile' = [szFile EXCEPT ![o] = n],
         \A d \in Conn : on[d] = o => op[d].pc = "idle", op' = op, todo' = todo,
         \A d \in Conn : op[d].pc # "idle" => on'[d] = on[d],
         \A d \in Conn : todo[d] # {} => lock'[d] = lock[d]
  PROVE  /\ OpInv' /\ EndInv' /\ PagesAreCounted'
         /\ szFile' \in [Ov -> Size] /\ count' \in [PageId -> Int]
         /\ apPage' \in [Ov -> [Chunk -> PageId \union {None}]]
         /\ \A i \in Chunk : apPage'[o][i] = IF i < n THEN apPage[o][i] ELSE None
         /\ \A q \in Ov : q # o => apPage'[q] = apPage[q]
<1> USE DEF IInv, PageInv
<1> DEFINE Gone(p) == {i \in Chunk : i >= n /\ apPage[o][i] = p}
<1>1. /\ apPage' = [apPage EXCEPT
           ![o] = [i \in Chunk |-> IF i < n THEN apPage[o][i] ELSE None]]
      /\ count' = [p \in PageId |-> count[p] - Cardinality(Gone(p))]
  BY DEF DropPages
<1>2. /\ \A i \in Chunk : apPage'[o][i] = IF i < n THEN apPage[o][i] ELSE None
      /\ \A q \in Ov : q # o => apPage'[q] = apPage[q]
  BY <1>1 DEF TypeInv
<1>3. \A p : Gone(p) \in SUBSET Chunk
  OBVIOUS
<1>4. /\ szFile' \in [Ov -> Size] /\ apPage' \in [Ov -> [Chunk -> PageId \union {None}]]
      /\ count' \in [PageId -> Int]
  <2>1. count' \in [PageId -> Int]
    <3>1. \A p \in PageId : Cardinality(Gone(p)) \in Nat /\ count[p] \in Int
      BY <1>3, SomeChunks DEF TypeInv
    <3> HIDE DEF Gone
    <3> QED
      BY <1>1, <3>1
  <2>2. apPage' \in [Ov -> [Chunk -> PageId \union {None}]]
    <3>1. [i \in Chunk |-> IF i < n THEN apPage[o][i] ELSE None]
            \in [Chunk -> PageId \union {None}]
      BY DEF TypeInv
    <3> QED
      BY <1>1, <3>1 DEF TypeInv
  <2> QED
    BY <2>1, <2>2 DEF TypeInv
<1>5. \A i \in Chunk : ~Installing(o, i)
  BY DEF Installing
<1>6. \A q \in Ov, i \in Chunk : Installing(q, i)' <=> Installing(q, i)
  BY <1>5 DEF Installing
<1>7. ASSUME NEW p \in PageId
      PROVE  LET U == {o} \X Gone(p)
             IN  /\ InTables(p)' = InTables(p) \ U /\ InTables(p) \intersect U = U
                 /\ InHand(p)' = InHand(p)
  <2>1. \A x : x \in InTables(p)' <=> /\ x \in Ov \X Chunk /\ apPage'[x[1]][x[2]] = p
                                      /\ ~Installing(x[1], x[2])'
    BY DEF InTables, Installing
  <2>2. \A x : x \in InTables(p) <=> /\ x \in Ov \X Chunk /\ apPage[x[1]][x[2]] = p
                                     /\ ~Installing(x[1], x[2])
    BY DEF InTables, Installing
  <2>3. ASSUME NEW q \in Ov, NEW i \in Chunk
        PROVE  apPage'[q][i] = p <=> apPage[q][i] = p /\ ~(q = o /\ i >= n)
    <3>1. i \in Int /\ n \in Int /\ p # None
      BY ChunksAreFinite, FilesAreTyped, NoneAssumption
    <3> QED
      BY <1>2, <3>1
  <2>4. ASSUME NEW q \in Ov, NEW i \in Chunk
        PROVE  /\ <<q, i>> \in InTables(p)' <=>
                    <<q, i>> \in InTables(p) /\ ~(q = o /\ i \in Gone(p))
               /\ q = o /\ i \in Gone(p) => <<q, i>> \in InTables(p)
    BY <1>5, <1>6, <2>1, <2>2, <2>3
  <2> HIDE DEF Gone
  <2> QED
    BY <1>3, <2>1, <2>2, <2>4 DEF InHand
<1>8. PagesAreCounted'
  <2>1. ASSUME NEW p \in PageId
        PROVE  count'[p] = Cardinality(InTables(p)') + Cardinality(InHand(p)')
    <3> DEFINE U == {o} \X Gone(p)
    <3>1. InTables(p)' = InTables(p) \ U /\ InTables(p) \intersect U = U
      BY <1>7
    <3>2. Cardinality(U) = Cardinality(Gone(p)) /\ Cardinality(Gone(p)) \in Nat
      BY <1>3, SomeChunks
    <3>3. IsFiniteSet(InTables(p)) /\ Cardinality(InTables(p)) \in Nat
          /\ Cardinality(InHand(p)) \in Nat
      BY RefsAreFinite
    <3>4. InHand(p)' = InHand(p) /\ count'[p] = count[p] - Cardinality(Gone(p))
      BY <1>1, <1>7
    <3> HIDE DEF U, Gone
    <3>5. Cardinality(InTables(p) \ U) = Cardinality(InTables(p)) - Cardinality(U)
      BY <3>1, <3>3, Removed
    <3>6. count[p] = Cardinality(InTables(p)) + Cardinality(InHand(p))
      BY DEF PagesAreCounted
    <3> QED
      BY <3>1, <3>2, <3>3, <3>4, <3>5, <3>6
  <2> QED
    BY <2>1 DEF PagesAreCounted
<1>9. OpInv'
  <2>1. ASSUME NEW d \in Conn, op[d].pc \in Holding
        PROVE  op[d].new \in PageId /\ count'[op[d].new] = 1
    <3>1. op[d].new \in PageId /\ count[op[d].new] = 1
      BY <2>1 DEF OpInv
    <3>2. Cardinality(Gone(op[d].new)) = 0
      <4>1. ASSUME NEW i \in Chunk, i \in Gone(op[d].new) PROVE FALSE
        <5>1. <<o, i>> \in InTables(op[d].new)
          BY <1>5, <4>1, InTable
        <5>2. o = on[d]
          BY <2>1, <5>1, HeldOnce
        <5> QED
          BY <2>1, <5>2 DEF Holding
      <4>2. Gone(op[d].new) \in SUBSET Chunk
        BY <1>3
      <4> HIDE DEF Gone
      <4> QED
        BY <4>1, <4>2, SomeChunks
    <3> HIDE DEF Gone
    <3> QED
      BY <1>1, <3>1, <3>2
  <2>2. ASSUME NEW d \in Conn, op[d].pc # "idle"
        PROVE  Page(d)' = Page(d)
    <3>1. on[d] # o /\ on[d] \in Ov
      BY <2>2, Busy
    <3> QED
      BY <1>2, <2>2, <3>1 DEF Page
  <2>3. ASSUME NEW d \in Conn, todo[d] # {}
        PROVE  lock'[d] = EXCLUSIVE
    BY <2>3 DEF OpInv
  <2>4. ASSUME NEW d \in Conn
        PROVE  /\ todo'[d] # {} => lock'[d] = EXCLUSIVE
               /\ IF op'[d].pc = "idle" THEN op'[d] = Idle ELSE op'[d].chunk \in todo'[d]
               /\ op'[d].pc = "drop" => Page(d)' # None
               /\ op'[d].pc \in Holding => op'[d].new \in PageId /\ count'[op'[d].new] = 1
               /\ op'[d].pc = "write" => Page(d)' = op'[d].new
    BY <2>1, <2>2, <2>3 DEF OpInv
  <2> QED
    BY <2>4 DEF OpInv
<1>10. EndInv'
  <2>1. \A q \in Ov, i \in Chunk : Growing(q, i) => Growing(q, i)'
    BY DEF Growing
  <2>2. ASSUME NEW q \in Ov, NEW i \in Chunk, i >= szFile'[q], apPage'[q][i] # None
        PROVE  Growing(q, i)'
    <3>1. CASE q = o
      <4>1. i >= n /\ i \in Int /\ n \in Int
        BY <2>2, <3>1, ChunksAreFinite, FilesAreTyped DEF TypeInv
      <4> QED
        BY <1>2, <2>2, <3>1, <4>1
    <3>2. CASE q # o
      <4>1. i >= szFile[q] /\ apPage[q][i] # None
        BY <1>2, <2>2, <3>2 DEF TypeInv
      <4> QED
        BY <2>1, <4>1 DEF EndInv
    <3> QED
      BY <3>1, <3>2
  <2> QED
    BY <2>2 DEF EndInv
<1> QED
  BY <1>2, <1>4, <1>8, <1>9, <1>10

LEMMA CloseKeeps ==
  ASSUME IInv, NEW c \in Conn, Close(c)
  PROVE  IInv'
<1> USE DEF IInv, PageInv
<1>1. PICK o \in Ov : o = on[c] /\ lock[c] # EXCLUSIVE /\ Unlocked(c, o, NONE)
  BY DEF Close, TypeInv
<1>2. /\ on' = [on EXCEPT ![c] = None] /\ nRef' = [nRef EXCEPT ![o] = nRef[o] - 1]
      /\ view' = [view EXCEPT ![c] = NoFile]
      /\ UNCHANGED <<bytes, op, pagerVars>>
  BY <1>1 DEF Close
<1>3. IF nRef[o] = 1
      THEN /\ DropPages(o, 0) /\ szFile' = [szFile EXCEPT ![o] = 0]
           /\ committed' = [committed EXCEPT ![o] = NoFile]
      ELSE UNCHANGED <<szFile, apPage, count, committed>>
  BY <1>1 DEF Close
<1>4. /\ lock' = [lock EXCEPT ![c] = NONE]
      /\ nShared' = [nShared EXCEPT ![o] = IF lock[c] >= SHARED THEN nShared[o] - 1
                                           ELSE nShared[o]]
      /\ pWriter' = [pWriter EXCEPT ![o] = IF pWriter[o] = c THEN None ELSE pWriter[o]]
      /\ eWriter' = [eWriter EXCEPT ![o] = IF pWriter[o] = c THEN NONE ELSE eWriter[o]]
  <2>1. lock[c] > SHARED <=> pWriter[o] = c
    BY <1>1, NoneAssumption DEF LockInv, WriterInv
  <2> QED
    BY <1>1, <2>1 DEF Unlocked
<1>5. LockInv'
  BY <1>1, <1>2, UnlocksLocks
<1>6. op[c].pc = "idle" /\ todo[c] = {} /\ todo' = todo /\ plan' = plan /\ op' = op
  BY <1>1, <1>2, Busy DEF pagerVars
<1>7. \A d \in Conn \ {c} : on'[d] = on[d] /\ lock'[d] = lock[d] /\ view'[d] = view[d]
  BY <1>2, <1>4 DEF TypeInv
<1>8. /\ OpInv' /\ EndInv' /\ PagesAreCounted'
      /\ szFile' \in [Ov -> Size] /\ count' \in [PageId -> Int]
      /\ apPage' \in [Ov -> [Chunk -> PageId \union {None}]]
      /\ nRef[o] = 1 => \A i \in Chunk : apPage'[o][i] = None
      /\ \A q \in Ov : q # o => apPage'[q] = apPage[q] /\ szFile'[q] = szFile[q]
  <2>1. \A d \in Conn : op[d].pc # "idle" => on'[d] = on[d] /\ op[d].chunk \in todo'[d]
    BY <1>6, <1>7, Busy
  <2>2. \A d \in Conn : todo[d] # {} => lock'[d] = lock[d]
    BY <1>6, <1>7
  <2>3. CASE nRef[o] = 1
    <3>1. \A d \in Conn : on[d] = o => op[d].pc = "idle"
      BY <1>1, <1>6, <2>3, Used
    <3>2. DropPages(o, 0) /\ szFile' = [szFile EXCEPT ![o] = 0] /\ 0 \in Size
      BY <1>3, <2>3, FilesAreTyped
    <3>3. \A i \in Chunk : ~(i < 0)
      BY ChunksAreFinite
    <3>4. /\ OpInv' /\ EndInv' /\ PagesAreCounted'
          /\ szFile' \in [Ov -> Size] /\ count' \in [PageId -> Int]
          /\ apPage' \in [Ov -> [Chunk -> PageId \union {None}]]
          /\ \A i \in Chunk : apPage'[o][i] = IF i < 0 THEN apPage[o][i] ELSE None
          /\ \A q \in Ov : q # o => apPage'[q] = apPage[q]
      BY <1>6, <2>1, <2>2, <3>1, <3>2, PagesDropped
    <3> QED
      BY <3>2, <3>3, <3>4 DEF TypeInv
  <2>4. CASE nRef[o] # 1
    <3>1. \A d \in Conn : todo'[d] # {} => lock'[d] = EXCLUSIVE
      BY <1>6, <2>2 DEF OpInv
    <3>2. UNCHANGED <<pageVars, op>>
      BY <1>2, <1>3, <2>4 DEF pageVars
    <3>3. OpInv' /\ EndInv' /\ PagesAreCounted'
      BY <2>1, <3>1, <3>2, SamePages
    <3> QED
      BY <2>4, <3>2, <3>3 DEF TypeInv, pageVars
  <2> QED
    BY <2>3, <2>4
<1>9. TypeInv'
  <2>1. committed' \in [Ov -> File]
    BY <1>3, FilesAreTyped DEF TypeInv
  <2>2. /\ lock' \in [Conn -> Lock] /\ pWriter' \in [Ov -> Conn \union {None}]
        /\ eWriter' \in [Ov -> Lock] /\ nShared' \in [Ov -> Int]
    BY <1>4, LockLevels DEF TypeInv
  <2>3. /\ on' \in [Conn -> Ov \union {None}] /\ nRef' \in [Ov -> Int]
        /\ view' \in [Conn -> File]
    BY <1>2, FilesAreTyped DEF TypeInv
  <2> QED
    BY <1>2, <1>8, <2>1, <2>2, <2>3 DEF TypeInv, pagerVars
<1>10. EmptyInv'
  <2>1. \A q \in Ov : nRef'[q] = 0 /\ q # o => nRef[q] = 0 /\ apPage'[q] = apPage[q]
    BY <1>2, <1>8 DEF TypeInv
  <2>2. nRef'[o] = 0 => nRef[o] = 1
    BY <1>2, Used DEF TypeInv
  <2>3. apPage'[o] = [i \in Chunk |-> apPage'[o][i]]
    BY <1>8
  <2>4. nRef'[o] = 0 => apPage'[o] = NoPages
    BY <1>8, <2>2, <2>3 DEF NoPages
  <2> QED
    BY <2>1, <2>4 DEF EmptyInv
<1>11. ASSUME NEW q \in Ov, q # o
       PROVE  /\ szFile'[q] = szFile[q] /\ \A i \in Chunk : Data(q, i)' = Data(q, i)
              /\ committed'[q] = committed[q]
              /\ eWriter'[q] = eWriter[q] /\ pWriter'[q] = pWriter[q]
  <2>1. apPage'[q] = apPage[q] /\ szFile'[q] = szFile[q] /\ bytes' = bytes
    BY <1>2, <1>8, <1>11
  <2> QED
    BY <1>3, <1>4, <1>11, <2>1 DEF TypeInv, Data
<1>12. SettledInv'
  <2>1. CASE nRef[o] = 1
    <3>1. eWriter'[o] # EXCLUSIVE
      <4>1. \A d \in Conn : on[d] = o => d = c
        BY <1>1, <2>1, Used
      <4>2. eWriter[o] # EXCLUSIVE
        BY <1>1, <4>1, IsWritten
      <4> QED
        BY <1>4, <4>2, LocksDiffer DEF TypeInv
    <3>2. committed'[o] = NoFile /\ szFile'[o] = 0
      BY <1>3, <2>1 DEF TypeInv
    <3>3. /\ szFile'[o] = committed'[o].size
          /\ \A i \in Chunk : Data(o, i)' = committed'[o].data[i]
      BY <1>8, <2>1, <3>2 DEF Data, NoFile
    <3> QED
      BY <1>6, <1>11, <3>1, <3>3 DEF SettledInv
  <2>2. CASE nRef[o] # 1
    <3>1. /\ szFile' = szFile /\ committed' = committed
          /\ \A i \in Chunk : Data(o, i)' = Data(o, i)
      BY <1>2, <1>3, <2>2 DEF Data
    <3>2. pWriter[o] = c => eWriter[o] # EXCLUSIVE
      BY <1>1, IsWritten
    <3>3. eWriter'[o] = EXCLUSIVE <=> eWriter[o] = EXCLUSIVE
      BY <1>4, <3>2, LocksDiffer DEF TypeInv
    <3>4. eWriter[o] = EXCLUSIVE => pWriter'[o] = pWriter[o]
      BY <1>4, <3>2 DEF TypeInv
    <3> QED
      BY <1>6, <1>11, <3>1, <3>3, <3>4 DEF SettledInv
  <2> QED
    BY <2>1, <2>2
<1>13. ViewInv'
  <2>1. ASSUME NEW d \in Conn, lock'[d] \in {SHARED, RESERVED, PENDING}
        PROVE  view'[d] = committed'[on'[d]]
    <3>1. d # c /\ lock[d] \in {SHARED, RESERVED, PENDING}
      BY <1>4, <1>7, <2>1, LocksDiffer DEF TypeInv
    <3>2. on[d] \in Ov
      BY <3>1, LocksDiffer DEF LockInv, NoLockInv, TypeInv
    <3>3. committed'[on[d]] = committed[on[d]]
      BY <1>1, <1>3, <1>11, <3>1, <3>2, Used
    <3> QED
      BY <1>7, <3>1, <3>3 DEF ViewInv
  <2> QED
    BY <2>1 DEF ViewInv
<1>14. TailInv'
  <2>1. \A q \in Ov : committed'[q] \in {committed[q], NoFile}
    BY <1>3 DEF TypeInv
  <2> QED
    BY <1>6, <2>1, FilesAreTyped DEF TailInv
<1> QED
  BY <1>9, <1>5, <1>8, <1>10, <1>12, <1>13, <1>14

(* The end of the file is cut off: the pages of no other overlay are lost.  *)
LEMMA TruncateKeeps ==
  ASSUME IInv, NEW c \in Conn, Truncate(c)
  PROVE  IInv'
<1> USE DEF IInv, PageInv
<1>1. PICK o \in Ov : /\ o = on[c] /\ pWriter[o] = c /\ eWriter[o] = EXCLUSIVE
                      /\ \A d \in Conn : on[d] = o /\ d # c => lock[d] = NONE
  BY Writes DEF Truncate
<1>2. PICK n \in Size :
         /\ n = plan[c].size /\ n < szFile[o] /\ op[c] = Idle /\ lock[c] = EXCLUSIVE
         /\ DropPages(o, n) /\ szFile' = [szFile EXCEPT ![o] = n]
  <2>1. plan[c].size \in Size
    BY FilesAreTyped DEF TypeInv
  <2> QED
    BY <1>1, <2>1 DEF Truncate
<1>3. UNCHANGED <<on, nRef, lockVars, bytes, op, pagerVars, committed, view>>
  BY DEF Truncate
<1>4. todo' = todo /\ lock' = lock /\ plan' = plan /\ op[c].pc = "idle"
  BY <1>2, <1>3 DEF lockVars, pagerVars, Idle
<1>5. /\ OpInv' /\ EndInv' /\ PagesAreCounted'
      /\ szFile' \in [Ov -> Size] /\ count' \in [PageId -> Int]
      /\ apPage' \in [Ov -> [Chunk -> PageId \union {None}]]
      /\ \A i \in Chunk : apPage'[o][i] = IF i < n THEN apPage[o][i] ELSE None
      /\ \A q \in Ov : q # o => apPage'[q] = apPage[q]
  <2>1. \A d \in Conn : on[d] = o => op[d].pc = "idle"
    BY <1>1, <1>2, <1>4, Busy
  <2> QED
    BY <1>2, <1>3, <1>4, <2>1, PagesDropped
<1>6. TypeInv'
  BY <1>3, <1>5 DEF TypeInv, lockVars, pagerVars
<1>7. LockInv'
  BY <1>3, SameLocks
<1>8. EmptyInv'
  <2>1. nRef[o] # 0
    BY <1>1, Used
  <2> QED
    BY <1>3, <1>5, <2>1 DEF EmptyInv
<1>9. SettledInv'
  <2>1. ASSUME NEW q \in Ov, q # o
        PROVE  szFile'[q] = szFile[q] /\ \A i \in Chunk : Data(q, i)' = Data(q, i)
    <3>1. szFile'[q] = szFile[q] /\ apPage'[q] = apPage[q] /\ bytes' = bytes
      BY <1>2, <1>3, <1>5, <2>1 DEF TypeInv
    <3> QED
      BY <3>1 DEF Data
  <2>2. ASSUME NEW i \in Chunk, i < n PROVE Data(o, i)' = Data(o, i)
    <3>1. szFile'[o] = n /\ apPage'[o][i] = apPage[o][i] /\ bytes' = bytes
      BY <1>2, <1>3, <1>5, <2>2 DEF TypeInv
    <3>2. ~(i >= n) /\ ~(i >= szFile[o])
      <4>1. i \in Int /\ n \in Int /\ szFile[o] \in Int
        BY ChunksAreFinite, FilesAreTyped DEF TypeInv
      <4> QED
        BY <1>2, <2>2, <4>1
    <3> QED
      BY <3>1, <3>2 DEF Data
  <2>3. ASSUME NEW q \in Ov
        PROVE  IF eWriter[q] = EXCLUSIVE
               THEN \A i \in Chunk :
                      i \notin todo[pWriter[q]] /\ i < plan[pWriter[q]].size
                        => Data(q, i)' = plan[pWriter[q]].data[i]
               ELSE szFile'[q] = committed[q].size
                    /\ \A i \in Chunk : Data(q, i)' = committed[q].data[i]
    <3>1. CASE q = o
      BY <1>1, <1>2, <2>2, <3>1 DEF SettledInv
    <3>2. CASE q # o
      BY <2>1, <3>2 DEF SettledInv
    <3> QED
      BY <3>1, <3>2
  <2> QED
    BY <1>3, <1>4, <2>3 DEF SettledInv, lockVars
<1>10. TailInv' /\ ViewInv'
  BY <1>3, <1>4 DEF TailInv, ViewInv
<1> QED
  BY <1>5, <1>6, <1>7, <1>8, <1>9, <1>10

(* A fork shares every page of what it is forked from. *)
LEMMA ForkedPages ==
  ASSUME IInv, NEW c \in Conn, NEW o \in Ov, NEW src \in Ov, Fork(c, o, src)
  PROVE  OpInv' /\ EndInv' /\ PagesAreCounted'
<1> USE DEF IInv, PageInv
<1>1. /\ on[c] = None /\ on' = [on EXCEPT ![c] = o] /\ nRef[o] = 0
      /\ szFile' = [szFile EXCEPT ![o] = szFile[src]]
      /\ eWriter[src] < PENDING /\ apPage' = [apPage EXCEPT ![o] = apPage[src]]
      /\ count' = [p \in PageId |-> count[p] + Uses(apPage[src], p)]
      /\ lock' = lock /\ op' = op /\ todo' = todo /\ apPage[o] = NoPages
  BY DEF Fork, CanFork, lockVars, pagerVars, EmptyInv
<1>2. op[c].pc = "idle" /\ todo[c] = {}
  <2>1. lock[c] # EXCLUSIVE
    BY <1>1, LocksDiffer DEF LockInv, NoLockInv
  <2> QED
    BY <2>1, Busy
<1>3. \A d \in Conn : on[d] # o
  BY <1>1, Used
<1>4. \A i \in Chunk : ~Installing(o, i)' /\ ~Installing(o, i)
  BY <1>1, <1>2, <1>3 DEF Installing, TypeInv
<1>5. \A i \in Chunk : ~Installing(src, i)
  BY InstalledByWriter, ReadableIsSettled, <1>1
<1>6. ASSUME NEW p \in PageId
      PROVE  LET U == {o} \X {i \in Chunk : apPage[src][i] = p}
             IN  /\ InTables(p)' = InTables(p) \union U /\ InTables(p) \intersect U = {}
                 /\ InHand(p)' = InHand(p)
  <2>1. \A q \in Ov, i \in Chunk : Installing(q, i)' <=> Installing(q, i)
    BY <1>1, <1>2, <1>3 DEF Installing, TypeInv
  <2>2. \A q \in Ov, i \in Chunk : q # o => apPage'[q][i] = apPage[q][i]
    BY <1>1 DEF TypeInv
  <2>3. \A i \in Chunk : apPage'[o][i] = apPage[src][i] /\ apPage[o][i] # p
    BY <1>1, NoneAssumption DEF TypeInv, NoPages
  <2>4. \A x : x \in InTables(p)' <=> /\ x \in Ov \X Chunk /\ apPage'[x[1]][x[2]] = p
                                      /\ ~Installing(x[1], x[2])'
    BY DEF InTables, Installing
  <2>5. \A x : x \in InTables(p) <=> /\ x \in Ov \X Chunk /\ apPage[x[1]][x[2]] = p
                                     /\ ~Installing(x[1], x[2])
    BY DEF InTables, Installing
  <2>6. ASSUME NEW q \in Ov, NEW i \in Chunk
        PROVE  /\ <<q, i>> \in InTables(p)' <=>
                    <<q, i>> \in InTables(p) \/ (q = o /\ apPage[src][i] = p)
               /\ ~(<<q, i>> \in InTables(p) /\ q = o)
    BY <1>4, <2>1, <2>2, <2>3, <2>4, <2>5
  <2> QED
    BY <1>1, <2>4, <2>5, <2>6 DEF InHand
<1>7. PagesAreCounted'
  <2>1. ASSUME NEW p \in PageId
        PROVE  count'[p] = Cardinality(InTables(p)') + Cardinality(InHand(p)')
    <3> DEFINE U == {o} \X {i \in Chunk : apPage[src][i] = p}
    <3>1. InTables(p)' = InTables(p) \union U /\ InTables(p) \intersect U = {}
      BY <1>6
    <3>2. Cardinality(U) = Uses(apPage[src], p) /\ Uses(apPage[src], p) \in Nat
          /\ IsFiniteSet(U)
      BY UsesAreCounted
    <3>3. IsFiniteSet(InTables(p)) /\ Cardinality(InTables(p)) \in Nat
          /\ Cardinality(InHand(p)) \in Nat
      BY RefsAreFinite
    <3> HIDE DEF U
    <3>4. Cardinality(InTables(p) \union U) = Cardinality(InTables(p)) + Cardinality(U)
      BY <3>1, <3>2, <3>3, Added
    <3>5. count'[p] = count[p] + Uses(apPage[src], p)
      BY <1>1
    <3>6. count[p] = Cardinality(InTables(p)) + Cardinality(InHand(p))
      BY DEF PagesAreCounted
    <3> QED
      BY <1>6, <3>1, <3>2, <3>3, <3>4, <3>5, <3>6
  <2> QED
    BY <2>1 DEF PagesAreCounted
<1>8. OpInv'
  <2>1. ASSUME NEW d \in Conn, op[d].pc \in Holding
        PROVE  op[d].new \in PageId /\ count'[op[d].new] = 1
    <3>1. op[d].new \in PageId /\ count[op[d].new] = 1
      BY <2>1 DEF OpInv
    <3>2. Uses(apPage[src], op[d].new) = 0
      <4>1. ASSUME NEW i \in Chunk, apPage[src][i] = op[d].new PROVE FALSE
        <5>1. <<src, i>> \in InTables(op[d].new)
          BY <1>5, <4>1, InTable
        <5>2. src = on[d]
          BY <2>1, <5>1, HeldOnce
        <5>3. eWriter[src] = EXCLUSIVE
          BY <2>1, <5>2, Busy DEF Holding
        <5> QED
          BY <1>1, <5>3, LocksDiffer
      <4> QED
        BY <4>1, UsesAreCounted
    <3> QED
      BY <1>1, <3>1, <3>2
  <2>2. ASSUME NEW d \in Conn, op[d].pc # "idle"
        PROVE  Page(d)' = Page(d)
    <3>1. d # c /\ on[d] # o /\ on[d] \in Ov
      BY <1>2, <1>3, <2>2, Busy
    <3> QED
      BY <1>1, <3>1 DEF Page, TypeInv
  <2>3. ASSUME NEW d \in Conn
        PROVE  /\ todo'[d] # {} => lock'[d] = EXCLUSIVE
               /\ IF op'[d].pc = "idle" THEN op'[d] = Idle ELSE op'[d].chunk \in todo'[d]
               /\ op'[d].pc = "drop" => Page(d)' # None
               /\ op'[d].pc \in Holding => op'[d].new \in PageId /\ count'[op'[d].new] = 1
               /\ op'[d].pc = "write" => Page(d)' = op'[d].new
    BY <1>1, <2>1, <2>2 DEF OpInv
  <2> QED
    BY <2>3 DEF OpInv
<1>9. EndInv'
  <2>1. \A q \in Ov, i \in Chunk : Growing(q, i) => Growing(q, i)'
    BY <1>1, <1>2 DEF Growing, TypeInv
  <2>2. \A i \in Chunk : ~Growing(src, i)
    BY <1>1, Busy, ReadableIsSettled DEF Growing
  <2>3. ASSUME NEW q \in Ov, NEW i \in Chunk, i >= szFile'[q], apPage'[q][i] # None
        PROVE  Growing(q, i)'
    <3>1. CASE q = o
      <4>1. i >= szFile[src] /\ apPage[src][i] # None
        BY <1>1, <2>3, <3>1 DEF TypeInv
      <4> QED
        BY <2>2, <4>1 DEF EndInv
    <3>2. CASE q # o
      <4>1. i >= szFile[q] /\ apPage[q][i] # None
        BY <1>1, <2>3, <3>2 DEF TypeInv
      <4> QED
        BY <2>1, <4>1 DEF EndInv
    <3> QED
      BY <3>1, <3>2
  <2> QED
    BY <2>3 DEF EndInv
<1> QED
  BY <1>7, <1>8, <1>9

LEMMA ForkKeeps ==
  ASSUME IInv, NEW c \in Conn, NEW o \in Ov, NEW src \in Ov, Fork(c, o, src)
  PROVE  IInv'
<1> USE DEF IInv, PageInv
<1>1. /\ on[c] = None /\ on' = [on EXCEPT ![c] = o] /\ nRef[o] = 0
      /\ nRef' = [nRef EXCEPT ![o] = nRef[o] + 1] /\ nRef[src] > 0 /\ eWriter[src] < PENDING
      /\ szFile' = [szFile EXCEPT ![o] = szFile[src]]
      /\ apPage' = [apPage EXCEPT ![o] = apPage[src]]
      /\ count' = [p \in PageId |-> count[p] + Uses(apPage[src], p)]
      /\ committed' = [committed EXCEPT ![o] = committed[src]]
      /\ UNCHANGED <<lockVars, bytes, op, pagerVars, view>>
  BY DEF Fork, CanFork
<1>2. TypeInv'
  <2>1. ASSUME NEW p \in PageId PROVE count[p] + Uses(apPage[src], p) \in Int
    <3>1. Uses(apPage[src], p) \in Nat /\ count[p] \in Int
      BY UsesAreCounted DEF TypeInv
    <3> QED
      BY <3>1
  <2>2. count' \in [PageId -> Int]
    BY <1>1, <2>1
  <2>3. /\ on' \in [Conn -> Ov \union {None}] /\ nRef' \in [Ov -> Int]
        /\ apPage' \in [Ov -> [Chunk -> PageId \union {None}]]
        /\ committed' \in [Ov -> File] /\ szFile' \in [Ov -> Size]
    BY <1>1 DEF TypeInv
  <2> QED
    BY <1>1, <2>2, <2>3 DEF TypeInv, lockVars, pagerVars
<1>3. LockInv'
  BY <1>1, JoinsLocks
<1>4. OpInv' /\ EndInv' /\ PagesAreCounted'
  BY ForkedPages
<1>5. EmptyInv'
  BY <1>1 DEF EmptyInv, TypeInv
<1>6. \A q \in Ov : q # o =>
        /\ szFile'[q] = szFile[q] /\ committed'[q] = committed[q]
        /\ \A i \in Chunk : Data(q, i)' = Data(q, i)
  BY <1>1 DEF Data, TypeInv
<1>7. SettledInv'
  <2>1. eWriter'[o] # EXCLUSIVE
    <3>1. pWriter[o] = None
      BY <1>1, Used DEF LockInv, WriterInv, TypeInv
    <3> QED
      BY <1>1, <3>1, ReadableIsSettled DEF lockVars
  <2>2. szFile'[o] = szFile[src] /\ \A i \in Chunk : Data(o, i)' = Data(src, i)
    <3>1. apPage'[o] = apPage[src] /\ szFile'[o] = szFile[src] /\ bytes' = bytes
      BY <1>1 DEF TypeInv
    <3> QED
      BY <3>1 DEF Data
  <2>3. szFile[src] = committed[src].size
        /\ \A i \in Chunk : Data(src, i) = committed[src].data[i]
    BY <1>1, ReadableIsSettled, Settled
  <2>4. committed'[o] = committed[src]
    BY <1>1 DEF TypeInv
  <2> QED
    BY <1>1, <1>6, <2>1, <2>2, <2>3, <2>4 DEF SettledInv, lockVars, pagerVars
<1>8. ViewInv'
  <2>1. ASSUME NEW d \in Conn, lock'[d] \in {SHARED, RESERVED, PENDING}
        PROVE  view'[d] = committed'[on'[d]]
    <3>1. lock[d] \in {SHARED, RESERVED, PENDING} /\ view'[d] = view[d]
      BY <1>1, <2>1 DEF lockVars
    <3>2. on[d] \in Ov
      BY <3>1, LocksDiffer DEF LockInv, NoLockInv, TypeInv
    <3>3. d # c /\ on[d] # o
      BY <1>1, <3>2, Used, NoneAssumption
    <3>4. on'[d] = on[d] /\ committed'[on[d]] = committed[on[d]]
      BY <1>1, <3>2, <3>3 DEF TypeInv
    <3> QED
      BY <3>1, <3>4 DEF ViewInv
  <2> QED
    BY <2>1 DEF ViewInv
<1>9. TailInv'
  <2>1. \A q \in Ov : committed'[q] \in {committed[q], committed[src]}
    BY <1>1 DEF TypeInv
  <2> QED
    BY <1>1, <2>1 DEF TailInv, pagerVars
<1> QED
  BY <1>2, <1>3, <1>4, <1>5, <1>7, <1>8, <1>9

(***************************************************************************)
(* A write of a page                                                       *)
(***************************************************************************)
LEMMA RecordsKeepTheirType ==
  ASSUME NEW r \in OpType
  PROVE  /\ \A pc \in {"idle", "copy", "drop", "install", "write"} :
              [r EXCEPT !.pc = pc] \in OpType
         /\ \A p \in PageId : [r EXCEPT !.new = p] \in OpType
BY DEF OpType

LEMMA WriteStartKeeps ==
  ASSUME IInv, NEW c \in Conn, NEW i \in Chunk, WriteStart(c, i)
  PROVE  IInv'
<1> USE DEF IInv, PageInv
<1> DEFINE p == apPage[on[c]][i]
<1>1. /\ op[c] = Idle /\ i \in todo[c]
      /\ op' = [op EXCEPT ![c] =
           [pc |-> IF p = None \/ count[p] > 1 THEN "copy" ELSE "write",
            chunk |-> i, new |-> p]]
      /\ UNCHANGED <<on, nRef, lockVars, pageVars, pagerVars, committed, view>>
  BY DEF WriteStart, Shared
<1>2. /\ on[c] \in Ov /\ lock[c] = EXCLUSIVE
      /\ \A d \in Conn : on[d] = on[c] /\ d # c => op[d].pc = "idle"
  BY <1>1, Busy
<1>3. p \in PageId \union {None}
  BY <1>2 DEF TypeInv
<1> HIDE DEF p
<1>4. /\ \A d \in Conn \ {c} : op'[d] = op[d]
      /\ op'[c].chunk = i /\ op'[c].new = p /\ op'[c].pc \in {"copy", "write"}
      /\ op'[c].pc = "write" => p # None /\ ~(count[p] > 1)
  BY <1>1 DEF TypeInv
<1>5. TypeInv'
  <2>1. op' \in [Conn -> OpType]
    BY <1>1, <1>3 DEF TypeInv, OpType
  <2> QED
    BY <1>1, <2>1 DEF TypeInv, lockVars, pageVars, pagerVars
<1>6. LockInv'
  BY <1>1, SameLocks
<1>7. op[c].pc = "idle"
  BY <1>1 DEF Idle
<1>8. OpInv'
  <2>1. ASSUME p \in PageId, ~(count[p] > 1) PROVE count[p] = 1
    <3>1. ~Installing(on[c], i)
      BY <1>2, <1>7 DEF Installing
    <3>2. <<on[c], i>> \in InTables(p)
      BY <1>2, <3>1, InTable DEF p
    <3>3. count[p] >= 1 /\ count[p] \in Int
      BY <2>1, <3>2, Counted DEF TypeInv
    <3> QED
      BY <2>1, <3>3
  <2>2. UNCHANGED <<on, lock, todo, count, apPage>>
    BY <1>1 DEF lockVars, pageVars, pagerVars
  <2>3. Page(c)' = p
    BY <1>4, <2>2 DEF Page, p
  <2>4. \A d \in Conn \ {c} : Page(d)' = Page(d)
    BY <1>4, <2>2 DEF Page
  <2>5. ASSUME NEW d \in Conn
        PROVE  /\ todo'[d] # {} => lock'[d] = EXCLUSIVE
               /\ IF op'[d].pc = "idle" THEN op'[d] = Idle ELSE op'[d].chunk \in todo'[d]
               /\ op'[d].pc = "drop" => Page(d)' # None
               /\ op'[d].pc \in Holding => op'[d].new \in PageId /\ count'[op'[d].new] = 1
               /\ op'[d].pc = "write" => Page(d)' = op'[d].new
    <3>1. CASE d = c
      BY <1>1, <1>2, <1>3, <1>4, <2>1, <2>2, <2>3, <3>1 DEF Holding
    <3>2. CASE d # c
      BY <1>4, <2>2, <2>4, <3>2 DEF OpInv
    <3> QED
      BY <3>1, <3>2
  <2> QED
    BY <2>5 DEF OpInv
<1>9. PagesAreCounted'
  <2>1. ASSUME NEW r \in PageId PROVE InTables(r)' = InTables(r) /\ InHand(r)' = InHand(r)
    <3>1. \A d \in Conn : op'[d].pc \in {"drop", "install"} <=>
                            op[d].pc \in {"drop", "install"}
      BY <1>4, <1>7
    <3>2. \A d \in Conn : op[d].pc \in {"drop", "install"} => op'[d] = op[d]
      BY <1>4, <1>7
    <3>3. InHand(r)' = InHand(r)
      BY <3>1, <3>2 DEF InHand
    <3>4. on' = on /\ apPage' = apPage
      BY <1>1 DEF pageVars
    <3>5. \A d \in Conn : \A x :
            (on[d] = x[1] /\ op'[d].chunk = x[2] /\ op'[d].pc = "install")
        <=> (on[d] = x[1] /\ op[d].chunk = x[2] /\ op[d].pc = "install")
      BY <1>4, <1>7
    <3> QED
      BY <3>3, <3>4, <3>5 DEF InTables
  <2> QED
    BY <1>1, <2>1 DEF PagesAreCounted, pageVars
<1>10. EmptyInv' /\ SettledInv' /\ TailInv' /\ ViewInv'
  BY <1>1 DEF EmptyInv, SettledInv, TailInv, ViewInv, Data, lockVars, pageVars, pagerVars
<1>11. EndInv'
  <2>1. \A o \in Ov, j \in Chunk : Growing(o, j) => Growing(o, j)'
    BY <1>1, <1>4, <1>7 DEF Growing
  <2> QED
    BY <1>1, <2>1 DEF EndInv, pageVars
<1> QED
  BY <1>5, <1>6, <1>8, <1>9, <1>10, <1>11

LEMMA CopyKeeps ==
  ASSUME IInv, NEW c \in Conn, Copy(c)
  PROVE  IInv'
<1> USE DEF IInv, PageInv
<1>1. PICK p \in PageId :
         /\ count[p] = 0 /\ count' = [count EXCEPT ![p] = 1]
         /\ bytes' = [bytes EXCEPT ![p] = IF Page(c) = None THEN 0 ELSE bytes[Page(c)]]
         /\ op' = [op EXCEPT ![c].new = p,
                     ![c].pc = IF Page(c) = None THEN "install" ELSE "drop"]
  <2>1. (CHOOSE p \in PageId : count[p] = 0) \in PageId
        /\ count[CHOOSE p \in PageId : count[p] = 0] = 0
    BY DEF Copy
  <2> QED
    BY <2>1 DEF Copy
<1>2. /\ op[c].pc = "copy"
      /\ UNCHANGED <<on, nRef, lockVars, szFile, apPage, pagerVars, committed, view>>
  BY DEF Copy
<1>3. /\ on[c] \in Ov /\ lock[c] = EXCLUSIVE
      /\ op[c].chunk \in Chunk /\ op[c].chunk \in todo[c]
      /\ \A d \in Conn : on[d] = on[c] /\ d # c => op[d].pc = "idle"
  BY <1>2, Busy
<1>4. /\ \A d \in Conn \ {c} : op'[d] = op[d]
      /\ op'[c].chunk = op[c].chunk /\ op'[c].new = p
      /\ op'[c].pc = IF Page(c) = None THEN "install" ELSE "drop"
  BY <1>1 DEF TypeInv, OpType
<1>5. Page(c) \in PageId \union {None}
  BY <1>3 DEF Page, TypeInv
<1>6. TypeInv'
  <2>1. op' \in [Conn -> OpType]
    <3>1. PICK pc \in {"install", "drop"} : op' = [op EXCEPT ![c].new = p, ![c].pc = pc]
      BY <1>1
    <3>2. [op[c] EXCEPT !.new = p, !.pc = pc] \in OpType
      <4>1. op[c] \in OpType
        BY DEF TypeInv
      <4>2. [op[c] EXCEPT !.new = p] \in OpType
        BY <4>1, RecordsKeepTheirType
      <4> QED
        BY <4>2, RecordsKeepTheirType
    <3>3. op' = [d \in Conn |-> op'[d]] /\ \A d \in Conn : d # c => op'[d] = op[d]
      BY <3>1 DEF TypeInv
    <3>4. op'[c] = [op[c] EXCEPT !.new = p, !.pc = pc]
      BY <3>1 DEF TypeInv
    <3>5. \A d \in Conn : op'[d] \in OpType
      BY <3>2, <3>3, <3>4 DEF TypeInv
    <3> QED
      BY <3>3, <3>5
  <2>2. count' \in [PageId -> Int] /\ bytes' \in [PageId -> Nat]
    BY <1>1, <1>5 DEF TypeInv
  <2> QED
    BY <1>2, <2>1, <2>2 DEF TypeInv, lockVars, pagerVars
<1>7. LockInv'
  BY <1>2, SameLocks
<1>8. InTables(p) = {} /\ InHand(p) = {}
  BY <1>1, Counted
<1>9. UNCHANGED <<on, lock, todo, apPage>>
  BY <1>2 DEF lockVars, pagerVars
<1>10. OpInv'
  <2>1. \A d \in Conn : Page(d)' = Page(d)
    BY <1>4, <1>9 DEF Page
  <2>2. ASSUME NEW d \in Conn
        PROVE  /\ todo'[d] # {} => lock'[d] = EXCLUSIVE
               /\ IF op'[d].pc = "idle" THEN op'[d] = Idle ELSE op'[d].chunk \in todo'[d]
               /\ op'[d].pc = "drop" => Page(d)' # None
               /\ op'[d].pc \in Holding => op'[d].new \in PageId /\ count'[op'[d].new] = 1
               /\ op'[d].pc = "write" => Page(d)' = op'[d].new
    <3>1. CASE d = c
      <4>1. count'[p] = 1
        BY <1>1 DEF TypeInv
      <4> QED
        BY <1>3, <1>4, <1>9, <2>1, <3>1, <4>1 DEF OpInv
    <3>2. CASE d # c
      <4>1. op[d].pc \in Holding => op[d].new \in PageId /\ count'[op[d].new] = 1
        BY <1>1 DEF OpInv, TypeInv
      <4> QED
        BY <1>4, <1>9, <2>1, <3>2, <4>1 DEF OpInv
    <3> QED
      BY <3>1, <3>2
  <2> QED
    BY <2>2 DEF OpInv
<1>11. PagesAreCounted'
  <2>1. ASSUME NEW r \in PageId PROVE InTables(r)' = InTables(r)
    <3>1. ASSUME NEW q \in Ov, NEW i \in Chunk, apPage[q][i] = r
          PROVE  Installing(q, i)' <=> Installing(q, i)
      <4>1. op'[c].pc = "install" => ~(q = on[c] /\ i = op[c].chunk)
        BY <1>4, <3>1, NoneAssumption DEF Page
      <4> QED
        BY <1>2, <1>4, <1>9, <4>1 DEF Installing
    <3> QED
      BY <1>9, <3>1 DEF InTables, Installing
  <2>2. InHand(p)' = {c}
    BY <1>4, <1>8 DEF InHand
  <2>3. \A r \in PageId : r # p => InHand(r)' = InHand(r)
    BY <1>2, <1>4 DEF InHand
  <2>4. count'[p] = Cardinality(InTables(p)') + Cardinality(InHand(p)')
    <3>1. Cardinality(InTables(p)') = 0 /\ Cardinality(InHand(p)') = 1
      BY <1>8, <2>1, <2>2, FS_EmptySet, FS_Singleton
    <3> QED
      BY <1>1, <3>1 DEF TypeInv
  <2>5. \A r \in PageId : r # p =>
          count'[r] = Cardinality(InTables(r)') + Cardinality(InHand(r)')
    BY <1>1, <2>1, <2>3 DEF TypeInv, PagesAreCounted
  <2> QED
    BY <2>4, <2>5 DEF PagesAreCounted
<1>12. EmptyInv' /\ TailInv' /\ ViewInv'
  BY <1>2 DEF EmptyInv, TailInv, ViewInv, lockVars, pagerVars
<1>13. SettledInv'
  <2>1. ASSUME NEW q \in Ov, NEW i \in Chunk
        PROVE  \/ Data(q, i)' = Data(q, i)
               \/ eWriter[q] = EXCLUSIVE /\ i \in todo[pWriter[q]]
    <3>1. CASE apPage[q][i] = p
      BY <1>8, <3>1, InTable, InstalledByWriter
    <3>2. CASE apPage[q][i] # p
      <4>1. apPage[q][i] \in PageId \union {None}
        BY DEF TypeInv
      <4>2. apPage[q][i] # None => bytes'[apPage[q][i]] = bytes[apPage[q][i]]
        BY <1>1, <3>2, <4>1 DEF TypeInv
      <4> QED
        BY <1>2, <1>9, <4>2 DEF Data
    <3> QED
      BY <3>1, <3>2
  <2> QED
    BY <1>2, <2>1 DEF SettledInv, lockVars, pagerVars
<1>14. EndInv'
  <2>1. \A o \in Ov, i \in Chunk : Growing(o, i) => Growing(o, i)'
    BY <1>2, <1>4 DEF Growing
  <2> QED
    BY <1>2, <2>1 DEF EndInv
<1> QED
  BY <1>6, <1>7, <1>10, <1>11, <1>12, <1>13, <1>14

LEMMA DropKeeps ==
  ASSUME IInv, NEW c \in Conn, Drop(c)
  PROVE  IInv'
<1> USE DEF IInv, PageInv
<1>1. /\ op[c].pc = "drop" /\ op' = [op EXCEPT ![c].pc = "install"]
      /\ count' = [count EXCEPT ![Page(c)] = count[Page(c)] - 1]
      /\ UNCHANGED <<on, nRef, lockVars, szFile, apPage, bytes, pagerVars, committed, view>>
  BY DEF Drop
<1>2. /\ on[c] \in Ov /\ lock[c] = EXCLUSIVE
      /\ op[c].chunk \in Chunk /\ op[c].chunk \in todo[c]
      /\ \A d \in Conn : on[d] = on[c] /\ d # c => op[d].pc = "idle"
  BY <1>1, Busy
<1>3. PICK p \in PageId : p = Page(c) /\ count' = [count EXCEPT ![p] = count[p] - 1]
  <2>1. Page(c) # None
    BY <1>1 DEF OpInv
  <2>2. Page(c) \in PageId
    BY <1>2, <2>1 DEF Page, TypeInv
  <2> QED
    BY <1>1, <2>2
<1>4. PICK x : x = <<on[c], op[c].chunk>>
  OBVIOUS
<1>5. /\ \A d \in Conn \ {c} : op'[d] = op[d]
      /\ op'[c].chunk = op[c].chunk /\ op'[c].new = op[c].new /\ op'[c].pc = "install"
  BY <1>1 DEF TypeInv, OpType
<1>6. UNCHANGED <<on, lock, todo, apPage>>
  BY <1>1 DEF lockVars, pagerVars
<1>7. x \in InTables(p)
  <2>1. ~Installing(on[c], op[c].chunk)
    BY <1>1, <1>2 DEF Installing
  <2> QED
    BY <1>2, <1>3, <1>4, <2>1, InTable DEF Page
<1>8. TypeInv'
  <2>1. op' \in [Conn -> OpType]
    <3>1. [op[c] EXCEPT !.pc = "install"] \in OpType
      <4>1. op[c] \in OpType
        BY DEF TypeInv
      <4> QED
        BY <4>1, RecordsKeepTheirType
    <3>2. op' = [d \in Conn |-> op'[d]] /\ \A d \in Conn : d # c => op'[d] = op[d]
      BY <1>1 DEF TypeInv
    <3>3. op'[c] = [op[c] EXCEPT !.pc = "install"]
      BY <1>1 DEF TypeInv
    <3>4. \A d \in Conn : op'[d] \in OpType
      BY <3>1, <3>2, <3>3 DEF TypeInv
    <3> QED
      BY <3>2, <3>4
  <2>2. count' \in [PageId -> Int]
    BY <1>3 DEF TypeInv
  <2> QED
    BY <1>1, <2>1, <2>2 DEF TypeInv, lockVars, pagerVars
<1>9. LockInv'
  BY <1>1, SameLocks
<1>10. OpInv'
  <2>1. \A d \in Conn : Page(d)' = Page(d)
    BY <1>5, <1>6 DEF Page
  <2>2. ASSUME NEW d \in Conn, op[d].pc \in Holding
        PROVE  op[d].new \in PageId /\ count'[op[d].new] = 1
    <3>1. op[d].new \in PageId /\ count[op[d].new] = 1
      BY <2>2 DEF OpInv
    <3>2. op[d].new # p
      <4>1. ASSUME op[d].new = p PROVE FALSE
        <5>1. op[d].pc = "write" /\ on[c] = on[d]
          BY <1>2, <1>4, <1>7, <2>2, <4>1, HeldOnce
        <5> QED
          BY <1>1, <1>2, <5>1
      <4> QED
        BY <4>1
    <3> QED
      BY <1>3, <3>1, <3>2 DEF TypeInv
  <2>3. ASSUME NEW d \in Conn
        PROVE  /\ todo'[d] # {} => lock'[d] = EXCLUSIVE
               /\ IF op'[d].pc = "idle" THEN op'[d] = Idle ELSE op'[d].chunk \in todo'[d]
               /\ op'[d].pc = "drop" => Page(d)' # None
               /\ op'[d].pc \in Holding => op'[d].new \in PageId /\ count'[op'[d].new] = 1
               /\ op'[d].pc = "write" => Page(d)' = op'[d].new
    <3>1. CASE d = c
      BY <1>1, <1>2, <1>5, <1>6, <2>1, <2>2, <3>1 DEF OpInv, Holding
    <3>2. CASE d # c
      BY <1>5, <1>6, <2>1, <2>2, <3>2 DEF OpInv
    <3> QED
      BY <3>1, <3>2
  <2> QED
    BY <2>3 DEF OpInv
<1>11. PagesAreCounted'
  <2>1. \A r \in PageId : InHand(r)' = InHand(r)
    BY <1>1, <1>5 DEF InHand
  <2>2. ASSUME NEW r \in PageId PROVE InTables(r)' = InTables(r) \ {x}
    <3>1. ASSUME NEW q \in Ov, NEW i \in Chunk
          PROVE  Installing(q, i)' <=> Installing(q, i) \/ <<q, i>> = x
      BY <1>1, <1>4, <1>5, <1>6 DEF Installing
    <3> QED
      BY <1>6, <3>1 DEF InTables, Installing
  <2>3. ASSUME NEW r \in PageId, r # p PROVE x \notin InTables(r)
    BY <1>2, <1>3, <1>4, <2>3, InTable DEF Page
  <2>4. \A r \in PageId : IsFiniteSet(InTables(r)) /\ Cardinality(InTables(r)) \in Nat
                          /\ Cardinality(InHand(r)) \in Nat
    BY RefsAreFinite
  <2>5. count'[p] = Cardinality(InTables(p)') + Cardinality(InHand(p)')
    <3>1. Cardinality(InTables(p)') = Cardinality(InTables(p)) - 1
      BY <1>7, <2>2, <2>4, FS_RemoveElement
    <3>2. count[p] = Cardinality(InTables(p)) + Cardinality(InHand(p))
      BY DEF PagesAreCounted
    <3>3. count'[p] = count[p] - 1
      BY <1>3 DEF TypeInv
    <3> QED
      BY <2>1, <2>4, <3>1, <3>2, <3>3
  <2>6. ASSUME NEW r \in PageId, r # p
        PROVE  count'[r] = Cardinality(InTables(r)') + Cardinality(InHand(r)')
    <3>1. InTables(r)' = InTables(r)
      BY <2>2, <2>3, <2>6
    <3> QED
      BY <1>3, <2>1, <2>6, <3>1 DEF TypeInv, PagesAreCounted
  <2> QED
    BY <2>5, <2>6 DEF PagesAreCounted
<1>12. EmptyInv' /\ SettledInv' /\ TailInv' /\ ViewInv'
  BY <1>1 DEF EmptyInv, SettledInv, TailInv, ViewInv, Data, lockVars, pagerVars
<1>13. EndInv'
  <2>1. \A o \in Ov, i \in Chunk : Growing(o, i) => Growing(o, i)'
    BY <1>1, <1>5 DEF Growing
  <2> QED
    BY <1>1, <2>1 DEF EndInv
<1> QED
  BY <1>8, <1>9, <1>10, <1>11, <1>12, <1>13

LEMMA InstallKeeps ==
  ASSUME IInv, NEW c \in Conn, Install(c)
  PROVE  IInv'
<1> USE DEF IInv, PageInv
<1>1. /\ op[c].pc = "install" /\ op' = [op EXCEPT ![c].pc = "write"]
      /\ apPage' = [apPage EXCEPT ![on[c]][op[c].chunk] = op[c].new]
      /\ UNCHANGED <<on, nRef, lockVars, szFile, count, bytes, pagerVars, committed, view>>
  BY DEF Install
<1>2. /\ on[c] \in Ov /\ lock[c] = EXCLUSIVE /\ pWriter[on[c]] = c
      /\ eWriter[on[c]] = EXCLUSIVE
      /\ op[c].chunk \in Chunk /\ op[c].chunk \in todo[c]
      /\ \A d \in Conn : on[d] = on[c] /\ d # c => op[d].pc = "idle"
  BY <1>1, Busy
<1>3. PICK p \in PageId : p = op[c].new /\ count[p] = 1
  BY <1>1 DEF OpInv, Holding
<1>4. PICK o \in Ov, i \in Chunk : o = on[c] /\ i = op[c].chunk
  BY <1>2
<1>5. /\ \A d \in Conn \ {c} : op'[d] = op[d]
      /\ op'[c].chunk = op[c].chunk /\ op'[c].new = op[c].new /\ op'[c].pc = "write"
  BY <1>1 DEF TypeInv, OpType
<1>6. /\ apPage' = [apPage EXCEPT ![o] = [apPage[o] EXCEPT ![i] = p]]
      /\ UNCHANGED <<on, lock, todo, count>>
  BY <1>1, <1>3, <1>4 DEF lockVars, pagerVars
<1>7. /\ apPage'[o][i] = p
      /\ \A q \in Ov, j \in Chunk : <<q, j>> # <<o, i>> => apPage'[q][j] = apPage[q][j]
  BY <1>6 DEF TypeInv
<1>8. TypeInv'
  <2>1. op' \in [Conn -> OpType]
    <3>1. [op[c] EXCEPT !.pc = "write"] \in OpType
      <4>1. op[c] \in OpType
        BY DEF TypeInv
      <4> QED
        BY <4>1, RecordsKeepTheirType
    <3>2. op' = [d \in Conn |-> op'[d]] /\ \A d \in Conn : d # c => op'[d] = op[d]
      BY <1>1 DEF TypeInv
    <3>3. op'[c] = [op[c] EXCEPT !.pc = "write"]
      BY <1>1 DEF TypeInv
    <3>4. \A d \in Conn : op'[d] \in OpType
      BY <3>1, <3>2, <3>3 DEF TypeInv
    <3> QED
      BY <3>2, <3>4
  <2>2. apPage' \in [Ov -> [Chunk -> PageId \union {None}]]
    BY <1>6 DEF TypeInv
  <2> QED
    BY <1>1, <2>1, <2>2 DEF TypeInv, lockVars, pagerVars
<1>9. LockInv'
  BY <1>1, SameLocks
<1>10. OpInv'
  <2>1. Page(c)' = p
    BY <1>4, <1>5, <1>6, <1>7 DEF Page
  <2>2. ASSUME NEW d \in Conn, d # c, op[d].pc # "idle" PROVE Page(d)' = Page(d)
    <3>1. on[d] \in Ov /\ op[d].chunk \in Chunk /\ on[d] # o
      BY <1>2, <1>4, <2>2, Busy
    <3> QED
      BY <1>5, <1>6, <1>7, <2>2, <3>1 DEF Page
  <2>3. ASSUME NEW d \in Conn
        PROVE  /\ todo'[d] # {} => lock'[d] = EXCLUSIVE
               /\ IF op'[d].pc = "idle" THEN op'[d] = Idle ELSE op'[d].chunk \in todo'[d]
               /\ op'[d].pc = "drop" => Page(d)' # None
               /\ op'[d].pc \in Holding => op'[d].new \in PageId /\ count'[op'[d].new] = 1
               /\ op'[d].pc = "write" => Page(d)' = op'[d].new
    <3>1. CASE d = c
      BY <1>2, <1>3, <1>5, <1>6, <2>1, <3>1
    <3>2. CASE d # c
      BY <1>5, <1>6, <2>2, <3>2 DEF OpInv
    <3> QED
      BY <3>1, <3>2
  <2> QED
    BY <2>3 DEF OpInv
<1>11. PagesAreCounted'
  <2>1. c \in InHand(p)
    BY <1>1, <1>3 DEF InHand
  <2>2. \A d \in Conn : op'[d].pc \in {"drop", "install"} <=>
                          op[d].pc \in {"drop", "install"} /\ d # c
    BY <1>5
  <2>3. ASSUME NEW r PROVE InHand(r)' = InHand(r) \ {c}
    BY <1>5, <2>2 DEF InHand
  <2>4. \A r \in PageId : r # p => c \notin InHand(r)
    BY <1>3 DEF InHand
  <2>5. PICK x : x = <<o, i>>
    OBVIOUS
  <2>6. ASSUME NEW q \in Ov, NEW j \in Chunk
        PROVE  Installing(q, j)' <=> Installing(q, j) /\ <<q, j>> # x
    BY <1>1, <1>2, <1>4, <1>5, <1>6, <2>5 DEF Installing
  <2>7. InTables(p) = {}
    BY <1>3, <2>1, Counted
  <2>8. \A q \in Ov, j \in Chunk : Installing(q, j) /\ <<q, j>> = x => q = o /\ j = i
    BY <2>5
  <2>9. Installing(o, i)
    BY <1>1, <1>4 DEF Installing
  <2>10. ASSUME NEW r \in PageId
         PROVE  InTables(r)' = IF r = p THEN InTables(r) \union {x} ELSE InTables(r)
    <3>1. \A y : y \in InTables(r)' <=> /\ y \in Ov \X Chunk /\ apPage'[y[1]][y[2]] = r
                                        /\ ~Installing(y[1], y[2])'
      BY DEF InTables, Installing
    <3>2. \A y : y \in InTables(r) <=> /\ y \in Ov \X Chunk /\ apPage[y[1]][y[2]] = r
                                       /\ ~Installing(y[1], y[2])
      BY DEF InTables, Installing
    <3>3. ASSUME NEW q \in Ov, NEW j \in Chunk
          PROVE  <<q, j>> \in InTables(r)' <=>
                   <<q, j>> \in InTables(r) \/ (r = p /\ <<q, j>> = x)
      BY <1>7, <2>5, <2>6, <2>9, <3>1, <3>2
    <3>4. x \in Ov \X Chunk
      BY <2>5
    <3>5. \A y : y \in InTables(r)' <=> y \in InTables(r) \/ (r = p /\ y = x)
      BY <3>1, <3>2, <3>3, <3>4
    <3> QED
      BY <3>5
  <2>11. \A r \in PageId : IsFiniteSet(InHand(r)) /\ Cardinality(InHand(r)) \in Nat
    BY RefsAreFinite
  <2>12. count'[p] = Cardinality(InTables(p)') + Cardinality(InHand(p)')
    <3>1. InTables(p)' = {x}
      BY <2>7, <2>10
    <3>2. Cardinality(InTables(p)') = 1
      BY <3>1, FS_Singleton
    <3>3. Cardinality(InHand(p)') = Cardinality(InHand(p)) - 1
      BY <2>1, <2>3, <2>11, FS_RemoveElement
    <3>4. count[p] = 0 + Cardinality(InHand(p))
      BY <2>7, FS_EmptySet DEF PagesAreCounted
    <3> QED
      BY <1>6, <2>11, <3>2, <3>3, <3>4
  <2>13. ASSUME NEW r \in PageId, r # p
         PROVE  count'[r] = Cardinality(InTables(r)') + Cardinality(InHand(r)')
    <3>1. InTables(r)' = InTables(r) /\ InHand(r)' = InHand(r)
      BY <2>3, <2>4, <2>10, <2>13
    <3> QED
      BY <1>6, <3>1 DEF PagesAreCounted
  <2> QED
    BY <2>12, <2>13 DEF PagesAreCounted
<1>12. EmptyInv' /\ TailInv' /\ ViewInv'
  <2>1. nRef[o] # 0
    BY <1>4, Used
  <2> QED
    BY <1>1, <1>6, <2>1 DEF EmptyInv, TailInv, ViewInv, TypeInv, lockVars, pagerVars
<1>13. SettledInv'
  <2>1. ASSUME NEW q \in Ov, NEW j \in Chunk, <<q, j>> # <<o, i>>
        PROVE  Data(q, j)' = Data(q, j)
    BY <1>1, <1>7, <2>1 DEF Data
  <2> QED
    BY <1>1, <1>2, <1>4, <2>1 DEF SettledInv, lockVars, pagerVars
<1>14. EndInv'
  <2>1. \A q \in Ov, j \in Chunk : Growing(q, j) => Growing(q, j)'
    BY <1>1, <1>5 DEF Growing
  <2>2. Growing(o, i)'
    BY <1>1, <1>4, <1>5 DEF Growing
  <2>3. ASSUME NEW q \in Ov, NEW j \in Chunk, j >= szFile'[q], apPage'[q][j] # None
        PROVE  Growing(q, j)'
    <3>1. CASE q = o /\ j = i
      BY <2>2, <3>1
    <3>2. CASE ~(q = o /\ j = i)
      <4>1. j >= szFile[q] /\ apPage[q][j] # None
        BY <1>1, <1>7, <2>3, <3>2
      <4> QED
        BY <2>1, <4>1 DEF EndInv
    <3> QED
      BY <3>1, <3>2
  <2> QED
    BY <2>3 DEF EndInv
<1> QED
  BY <1>8, <1>9, <1>10, <1>11, <1>12, <1>13, <1>14

LEMMA WriteKeeps ==
  ASSUME IInv, NEW c \in Conn, Write(c)
  PROVE  IInv'
<1> USE DEF IInv, PageInv
<1>1. /\ op[c].pc = "write" /\ op' = [op EXCEPT ![c] = Idle]
      /\ bytes' = [bytes EXCEPT ![op[c].new] = plan[c].data[op[c].chunk]]
      /\ szFile' = [szFile EXCEPT
           ![on[c]] = IF op[c].chunk >= szFile[on[c]] THEN op[c].chunk + 1 ELSE szFile[on[c]]]
      /\ todo' = [todo EXCEPT ![c] = todo[c] \ {op[c].chunk}]
      /\ UNCHANGED <<on, nRef, lockVars, apPage, count, plan, commits, committed, view>>
  BY DEF Write
<1>2. /\ on[c] \in Ov /\ lock[c] = EXCLUSIVE /\ pWriter[on[c]] = c
      /\ eWriter[on[c]] = EXCLUSIVE
      /\ op[c].chunk \in Chunk /\ op[c].chunk \in todo[c]
      /\ \A d \in Conn : on[d] = on[c] /\ d # c => op[d].pc = "idle"
  BY <1>1, Busy
<1>3. PICK p \in PageId : p = op[c].new /\ Page(c) = p
  BY <1>1 DEF OpInv, Holding
<1>4. PICK o \in Ov, i \in Chunk : o = on[c] /\ i = op[c].chunk /\ apPage[o][i] = p
  BY <1>2, <1>3 DEF Page
<1>5. /\ \A d \in Conn \ {c} : op'[d] = op[d] /\ todo'[d] = todo[d]
      /\ op'[c] = Idle /\ op'[c].pc = "idle" /\ todo'[c] = todo[c] \ {i}
      /\ UNCHANGED <<on, lock, apPage, count>>
  BY <1>1, <1>4 DEF TypeInv, Idle, lockVars
<1>6. /\ szFile'[o] = IF i >= szFile[o] THEN i + 1 ELSE szFile[o]
      /\ \A q \in Ov : q # o => szFile'[q] = szFile[q]
      /\ i \in Int /\ szFile[o] \in Int /\ i < szFile'[o] /\ szFile[o] <= szFile'[o]
      /\ szFile' \in [Ov -> Size]
  <2>1. i \in Int /\ 0 <= i /\ i < N /\ N \in Int /\ szFile[o] \in Int
    BY ChunksAreFinite, FilesAreTyped DEF TypeInv
  <2>2. i + 1 \in Size
    BY <2>1 DEF Size
  <2>3. /\ szFile'[o] = IF i >= szFile[o] THEN i + 1 ELSE szFile[o]
        /\ \A q \in Ov : q # o => szFile'[q] = szFile[q]
    BY <1>1, <1>4 DEF TypeInv
  <2>4. szFile' \in [Ov -> Size]
    BY <1>1, <1>4, <2>2 DEF TypeInv
  <2> QED
    BY <2>1, <2>3, <2>4
<1>7. plan[c].data \in [Chunk -> Nat]
  BY FilesAreTyped DEF TypeInv
<1>8. TypeInv'
  <2>1. Idle \in OpType
    BY DEF Idle, OpType
  <2>2. op' \in [Conn -> OpType] /\ todo' \in [Conn -> SUBSET Chunk]
    BY <1>1, <2>1 DEF TypeInv
  <2>3. bytes' \in [PageId -> Nat]
    BY <1>1, <1>2, <1>7 DEF TypeInv
  <2> QED
    BY <1>1, <1>6, <2>2, <2>3 DEF TypeInv, lockVars
<1>9. LockInv'
  BY <1>1, SameLocks
<1>10. OpInv'
  <2>1. \A d \in Conn \ {c} : Page(d)' = Page(d)
    BY <1>5 DEF Page
  <2>2. ASSUME NEW d \in Conn
        PROVE  /\ todo'[d] # {} => lock'[d] = EXCLUSIVE
               /\ IF op'[d].pc = "idle" THEN op'[d] = Idle ELSE op'[d].chunk \in todo'[d]
               /\ op'[d].pc = "drop" => Page(d)' # None
               /\ op'[d].pc \in Holding => op'[d].new \in PageId /\ count'[op'[d].new] = 1
               /\ op'[d].pc = "write" => Page(d)' = op'[d].new
    <3>1. CASE d = c
      BY <1>2, <1>5, <3>1 DEF Holding
    <3>2. CASE d # c
      BY <1>5, <2>1, <3>2 DEF OpInv
    <3> QED
      BY <3>1, <3>2
  <2> QED
    BY <2>2 DEF OpInv
<1>11. PagesAreCounted'
  <2>1. \A d \in Conn : /\ op'[d].pc \in {"drop", "install"} <=>
                             op[d].pc \in {"drop", "install"}
                        /\ op[d].pc \in {"drop", "install"} => op'[d] = op[d]
    BY <1>1, <1>5
  <2>2. ASSUME NEW r PROVE InHand(r)' = InHand(r)
    BY <2>1 DEF InHand
  <2>3. \A d \in Conn : \A x :
            (on[d] = x[1] /\ op'[d].chunk = x[2] /\ op'[d].pc = "install")
        <=> (on[d] = x[1] /\ op[d].chunk = x[2] /\ op[d].pc = "install")
    BY <2>1
  <2>4. ASSUME NEW r PROVE InTables(r)' = InTables(r)
    BY <1>5, <2>3 DEF InTables
  <2> QED
    BY <1>5, <2>2, <2>4 DEF PagesAreCounted
<1>12. EmptyInv' /\ TailInv' /\ ViewInv'
  BY <1>1 DEF EmptyInv, TailInv, ViewInv, lockVars
<1>13. \A j \in Chunk : j # i => ~Growing(o, j)
  BY <1>2, <1>4 DEF Growing
<1>14. SettledInv'
  <2>1. ASSUME NEW q \in Ov, NEW j \in Chunk, <<q, j>> # <<o, i>>
        PROVE  \/ Data(q, j)' = Data(q, j)
               \/ eWriter[q] = EXCLUSIVE /\ j \in todo'[pWriter[q]]
    <3>1. CASE apPage[q][j] = p
      <4>1. Installing(q, j)
        BY <1>1, <1>3, <1>4, <2>1, <3>1, HeldOnce, InTable DEF Holding
      <4>2. /\ eWriter[q] = EXCLUSIVE /\ j \in todo[pWriter[q]]
            /\ op[pWriter[q]].pc = "install"
        BY <4>1, InstalledByWriter
      <4>3. pWriter[q] \in Conn /\ pWriter[q] # c
        BY <1>1, <4>2, IsWritten
      <4> QED
        BY <1>5, <4>2, <4>3
    <3>2. CASE apPage[q][j] # p
      <4>1. apPage[q][j] \in PageId \union {None}
        BY DEF TypeInv
      <4>2. apPage[q][j] # None => bytes'[apPage[q][j]] = bytes[apPage[q][j]]
        BY <1>1, <1>3, <3>2, <4>1 DEF TypeInv
      <4>3. \/ j >= szFile'[q] <=> j >= szFile[q]
            \/ q = o /\ j >= szFile[q] /\ apPage[q][j] = None
        <5>1. CASE q = o
          <6>1. j \in Int /\ j # i
            BY <2>1, <5>1, ChunksAreFinite
          <6>2. j >= szFile[o] => apPage[o][j] = None
            BY <1>13, <6>1 DEF EndInv
          <6> QED
            BY <1>6, <5>1, <6>1, <6>2
        <5>2. CASE q # o
          BY <1>6, <5>2
        <5> QED
          BY <5>1, <5>2
      <4> QED
        BY <1>5, <4>2, <4>3 DEF Data
    <3> QED
      BY <3>1, <3>2
  <2>2. Data(o, i)' = plan[c].data[i]
    <3>1. bytes'[p] = plan[c].data[i] /\ p # None
      BY <1>1, <1>3, <1>4, NoneAssumption DEF TypeInv
    <3> QED
      BY <1>4, <1>5, <1>6, <3>1 DEF Data
  <2>3. /\ plan' = plan /\ committed' = committed /\ eWriter' = eWriter
        /\ pWriter' = pWriter
    BY <1>1 DEF lockVars
  <2>4. ASSUME NEW q \in Ov, NEW j \in Chunk
        PROVE  IF eWriter[q] = EXCLUSIVE
               THEN j \notin todo'[pWriter[q]] /\ j < plan[pWriter[q]].size
                      => Data(q, j)' = plan[pWriter[q]].data[j]
               ELSE Data(q, j)' = committed[q].data[j]
    <3>1. CASE q = o /\ j = i
      BY <1>2, <1>4, <2>2, <3>1
    <3>2. CASE ~(q = o /\ j = i)
      <4>1. eWriter[q] = EXCLUSIVE => (j \in todo'[pWriter[q]] \/ j \notin todo[pWriter[q]])
        <5>1. CASE q = o
          BY <1>2, <1>4, <1>5, <3>2, <5>1
        <5>2. CASE q # o
          <6>1. eWriter[q] = EXCLUSIVE => pWriter[q] \in Conn /\ pWriter[q] # c
            BY <1>4, <5>2, IsWritten
          <6> QED
            BY <1>5, <6>1
        <5> QED
          BY <5>1, <5>2
      <4> QED
        BY <2>1, <3>2, <4>1 DEF SettledInv
    <3> QED
      BY <3>1, <3>2
  <2>5. \A q \in Ov : eWriter[q] # EXCLUSIVE => szFile'[q] = committed[q].size
    BY <1>2, <1>4, <1>6 DEF SettledInv
  <2> QED
    BY <2>3, <2>4, <2>5 DEF SettledInv
<1>15. EndInv'
  <2>1. \A q \in Ov, j \in Chunk : q # o /\ Growing(q, j) => Growing(q, j)'
    BY <1>4, <1>5 DEF Growing
  <2>2. ASSUME NEW q \in Ov, NEW j \in Chunk, j >= szFile'[q], apPage'[q][j] # None
        PROVE  Growing(q, j)'
    <3>1. CASE q = o
      <4>1. j # i /\ j >= szFile[o] /\ apPage[o][j] # None
        <5>1. j \in Int /\ szFile'[o] \in Int
          BY <1>6, ChunksAreFinite, FilesAreTyped
        <5> QED
          BY <1>5, <1>6, <2>2, <3>1, <5>1
      <4> QED
        BY <1>13, <4>1 DEF EndInv
    <3>2. CASE q # o
      BY <1>5, <1>6, <2>1, <2>2, <3>2 DEF EndInv
    <3> QED
      BY <3>1, <3>2
  <2> QED
    BY <2>2 DEF EndInv
<1> QED
  BY <1>8, <1>9, <1>10, <1>11, <1>12, <1>14, <1>15

(***************************************************************************)
(* The theorems                                                            *)
(***************************************************************************)
LEMMA InitHolds == Init => IInv
<1> SUFFICES ASSUME Init PROVE IInv
  OBVIOUS
<1>1. NoFile \in File /\ 0 \in Size /\ NoPages \in [Chunk -> PageId \union {None}]
      /\ Idle \in OpType
  BY FilesAreTyped DEF NoPages, Idle, OpType
<1>2. TypeInv
  BY <1>1, LockLevels DEF Init, TypeInv
<1>3. OpInv
  BY DEF Init, OpInv, Idle, Holding
<1>4. PagesAreCounted
  <2>1. ASSUME NEW p \in PageId PROVE InTables(p) = {} /\ InHand(p) = {}
    <3>1. InHand(p) = {}
      BY DEF Init, InHand, Idle
    <3>2. \A o \in Ov, i \in Chunk : apPage[o][i] # p
      BY NoneAssumption DEF Init, NoPages
    <3> QED
      BY <3>1, <3>2 DEF InTables
  <2>2. \A p \in PageId : count[p] = 0
    BY DEF Init
  <2>3. Cardinality({}) = 0
    BY FS_EmptySet
  <2> QED
    BY <2>1, <2>2, <2>3 DEF PagesAreCounted
<1>5. EmptyInv
  BY DEF Init, EmptyInv
<1>6. SettledInv
  BY LocksDiffer DEF Init, SettledInv, Data, NoPages, NoFile
<1>7. ViewInv
  BY LocksDiffer DEF Init, ViewInv
<1>8. EndInv /\ TailInv
  BY FilesAreTyped DEF Init, EndInv, TailInv, NoPages
<1> QED
  BY <1>2, <1>3, <1>4, <1>5, <1>6, <1>7, <1>8, InitLocks DEF IInv, PageInv

LEMMA StutterKeeps ==
  ASSUME IInv, UNCHANGED vars
  PROVE  IInv'
<1> USE DEF IInv, PageInv
<1>1. UNCHANGED <<on, nRef, lockVars, pageVars, op, pagerVars, committed, view>>
  BY DEF vars
<1>2. TypeInv'
  BY <1>1 DEF TypeInv, lockVars, pageVars, pagerVars
<1>3. LockInv'
  BY <1>1, SameLocks
<1>4. OpInv' /\ EndInv' /\ PagesAreCounted'
  BY <1>1 DEF OpInv, EndInv, Growing, PagesAreCounted, InTables, InHand, Page, lockVars,
              pageVars, pagerVars
<1>5. EmptyInv' /\ SettledInv' /\ TailInv' /\ ViewInv'
  BY <1>1 DEF EmptyInv, SettledInv, TailInv, ViewInv, Data, lockVars, pageVars, pagerVars
<1> QED
  BY <1>2, <1>3, <1>4, <1>5

LEMMA StepKeeps ==
  ASSUME IInv, [Next]_vars
  PROVE  IInv'
<1>1. CASE UNCHANGED vars
  BY <1>1, StutterKeeps
<1>2. ASSUME NEW c \in Conn, NEW o \in Ov, Open(c, o) PROVE IInv'
  BY <1>2, OpenKeeps
<1>3. ASSUME NEW c \in Conn, NEW o \in Ov, NEW src \in Ov, Fork(c, o, src) PROVE IInv'
  BY <1>3, ForkKeeps
<1>4. ASSUME NEW c \in Conn, Close(c) PROVE IInv'
  BY <1>4, CloseKeeps
<1>5. ASSUME NEW c \in Conn, LockShared(c) PROVE IInv'
  BY <1>5, LockSharedKeeps
<1>6. ASSUME NEW c \in Conn, LockReserved(c) PROVE IInv'
  BY <1>6, LockWaitingKeeps DEF LockReserved
<1>7. ASSUME NEW c \in Conn, LockPending(c) PROVE IInv'
  BY <1>7, LockWaitingKeeps DEF LockPending
<1>8. ASSUME NEW c \in Conn, LockExclusive(c) PROVE IInv'
  BY <1>8, LockExclusiveKeeps
<1>9. ASSUME NEW c \in Conn, Unlock(c, NONE) \/ Unlock(c, SHARED) PROVE IInv'
  BY <1>9, UnlockKeeps
<1>10. ASSUME NEW c \in Conn, Rollback(c) PROVE IInv'
  BY <1>10, RollbackKeeps
<1>11. ASSUME NEW c \in Conn, NEW i \in Chunk, WriteStart(c, i) PROVE IInv'
  BY <1>11, WriteStartKeeps
<1>12. ASSUME NEW c \in Conn, Copy(c) PROVE IInv'
  BY <1>12, CopyKeeps
<1>13. ASSUME NEW c \in Conn, Drop(c) PROVE IInv'
  BY <1>13, DropKeeps
<1>14. ASSUME NEW c \in Conn, Install(c) PROVE IInv'
  BY <1>14, InstallKeeps
<1>15. ASSUME NEW c \in Conn, Write(c) PROVE IInv'
  BY <1>15, WriteKeeps
<1>16. ASSUME NEW c \in Conn, Truncate(c) PROVE IInv'
  BY <1>16, TruncateKeeps
<1> QED
  BY <1>1, <1>2, <1>3, <1>4, <1>5, <1>6, <1>7, <1>8, <1>9, <1>10, <1>11, <1>12, <1>13,
     <1>14, <1>15, <1>16 DEF Next

(* Every reachable state satisfies the invariant, whichever threads lock,   *)
(* write, fork and close which overlays of memory, and in whatever order.   *)
THEOREM Invariant == Spec => []IInv
<1>1. Init => IInv
  BY InitHolds
<1>2. IInv /\ [Next]_vars => IInv'
  BY StepKeeps
<1> QED
  BY <1>1, <1>2, PTL DEF Spec

LEMMA TypeFollows == IInv => TypeOK
<1> SUFFICES ASSUME IInv PROVE TypeOK
  OBVIOUS
<1>1. \A o \in Ov : nRef[o] \in Nat /\ nShared[o] \in Nat
  <2>1. \A o \in Ov : Users(o) \in SUBSET Conn /\ Sharers(o) \in SUBSET Conn
    BY DEF Users, Sharers
  <2> QED
    BY <2>1, SomeConns DEF IInv, LockInv, CountInv
<1>2. \A p \in PageId : count[p] \in Nat
  BY RefsAreFinite DEF IInv, PageInv, PagesAreCounted
<1>3. nRef \in [Ov -> Nat] /\ nShared \in [Ov -> Nat] /\ count \in [PageId -> Nat]
  BY <1>1, <1>2 DEF IInv, TypeInv
<1> QED
  BY <1>3 DEF IInv, TypeInv, TypeOK, OpType

(* TypeOK holds of every reachable state: no count of an overlay or of a    *)
(* page drops below zero (ovUnlock, ovClose, ovPageForWrite).               *)
THEOREM TypeCorrect == Spec => []TypeOK
<1>1. Spec => []IInv
  BY Invariant
<1> QED
  BY <1>1, TypeFollows, PTL

(* LocksAreCounted for any number of threads and overlays: nRef and nShared *)
(* are the numbers of connections, and who has a RESERVED lock or more is   *)
(* the one pWriter names, with the lock eWriter tells (ovLock, ovUnlock).   *)
THEOREM LockCountsAreRight == Spec => []LocksAreCounted
<1>1. IInv => LocksAreCounted
  <2> SUFFICES ASSUME IInv PROVE LocksAreCounted
    OBVIOUS
  <2>1. ASSUME NEW o \in Ov, NEW c \in Conn, on[c] = o, lock[c] > SHARED
        PROVE  pWriter[o] = c /\ eWriter[o] = lock[c]
    BY <2>1, NoneAssumption DEF IInv, LockInv, WriterInv
  <2>2. \A o \in Ov : nRef[o] = Cardinality(Users(o)) /\ nShared[o] = Cardinality(Sharers(o))
    BY DEF IInv, LockInv, CountInv
  <2> QED
    BY <2>1, <2>2 DEF LocksAreCounted, Users, Sharers
<1>2. Spec => []IInv
  BY Invariant
<1> QED
  BY <1>1, <1>2, PTL

(* ForksAreIsolated for any number of forks of forks: an overlay that is    *)
(* not being written reads its own last commit (ovPageForWrite).            *)
THEOREM ForksKeepToThemselves == Spec => []ForksAreIsolated
<1>1. IInv => ForksAreIsolated
  BY Settled, LocksDiffer DEF IInv, PageInv, ForksAreIsolated
<1>2. Spec => []IInv
  BY Invariant
<1> QED
  BY <1>1, <1>2, PTL

(* ReadersSeeOneCommit: as long as a connection has a lock, and does not    *)
(* write, it reads the state that was committed when it got it (ovLock).    *)
THEOREM ReadersAreStable == Spec => []ReadersSeeOneCommit
<1>1. IInv => ReadersSeeOneCommit
  <2> SUFFICES ASSUME IInv, NEW c \in Conn, lock[c] \in SHARED .. PENDING
               PROVE  Content(on[c]) = view[c]
    BY DEF ReadersSeeOneCommit
  <2>1. lock[c] \in {SHARED, RESERVED, PENDING} /\ lock[c] # NONE /\ lock[c] # EXCLUSIVE
    BY DEF SHARED, RESERVED, PENDING, NONE, EXCLUSIVE
  <2>2. on[c] \in Ov
    BY <2>1 DEF IInv, TypeInv, LockInv, NoLockInv
  <2>3. eWriter[on[c]] # EXCLUSIVE
    BY <2>1, <2>2, IsWritten DEF IInv, LockInv, AloneInv
  <2> QED
    BY <2>1, <2>2, <2>3, Settled DEF IInv, PageInv, ViewInv
<1>2. Spec => []IInv
  BY Invariant
<1> QED
  BY <1>1, <1>2, PTL

(* PagesAreCounted for any number of pages: the count of a page is the      *)
(* number of tables it is in and of writes that hold it, so that it is      *)
(* freed with the last of them (ovPageForWrite, ovDestroyLocked).           *)
THEOREM PageCountsAreRight == Spec => []PagesAreCounted
<1>1. IInv => PagesAreCounted
  BY DEF IInv, PageInv
<1>2. Spec => []IInv
  BY Invariant
<1> QED
  BY <1>1, <1>2, PTL

=============================================================================
