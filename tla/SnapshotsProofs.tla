--------------------------- MODULE SnapshotsProofs ---------------------------
(***************************************************************************)
(* No snapshot loses what it lies over, and no reader what it reads, for   *)
(* any number of Workers, snapshots, branches and layers, and of Workers    *)
(* that end between any two steps: what the Web Locks of directory stores, *)
(* and the transactions of IndexedDB, are enough for.                      *)
(*                                                                         *)
(* The second part is about the files that databases read snapshots from    *)
(* (BaseFiles, ReadOnlyFile).                                              *)
(***************************************************************************)
EXTENDS Snapshots, BaseFiles, FiniteSetTheorems, TLAPS

(***************************************************************************)
(* The invariant                                                           *)
(***************************************************************************)
Layers == SUBSET (Key \X Nat)
Storing  == {"meta", "content", "abort", "abortMeta"}      \* under the write lock
Deleting == {"removeMain", "removeMeta"}
Looking  == {"openHold", "joinHold", "openGet", "joinGet"}
Pc == {"idle", "saveHold", "write", "move", "retain", "check"}
        \union Looking \union Storing \union Deleting
Op == [pc : Pc, key : Key \union {None}, at : Nat, delta : BOOLEAN, from : Base,
       held : SUBSET Key, chain : Layers, top : Base, plan : SUBSET Key, retry : BOOLEAN]
DbRecord == [open : BOOLEAN, branch : Branch \union {None}, base : Base]

TypeInv ==
  /\ main \in [Key -> File] /\ meta \in [Key -> Meta]
  /\ db \in [Worker -> DbRecord] /\ op \in [Worker -> Op]
  /\ clock \in Nat /\ crashes \in Nat /\ locking \in BOOLEAN

(* A base is none, or reads the snapshot that it names. *)
Named(base) == base = NoBase \/ (base.key \in Key /\ <<base.key, base.at>> \in base.chain)

(* Which steps belong to which store, and have a key. *)
StepInv(w) ==
  /\ op[w].pc \notin {"idle", "retain"} => op[w].key \in Key
  /\ op[w].pc \in Storing \union Deleting => locking
  /\ Named(db[w].base) /\ Named(op[w].from)
  /\ op[w].delta => op[w].from # NoBase
  /\ op[w].pc \in Looking /\ op[w].at # 0 =>
       op[w].top.key \in Key /\ <<op[w].top.key, op[w].top.at>> \in op[w].chain

(* What a call has to hold. *)
HeldInv(w) ==
  /\ op[w].pc \in {"openGet", "joinGet", "write", "move"} \union Storing =>
       op[w].key \in op[w].held
  /\ \A layer \in op[w].chain : layer[1] \in op[w].held
  /\ op[w].pc = "saveHold" => op[w].chain = {}

(* What a call has written or found so far. *)
WriteInv(w) ==
  /\ op[w].pc \in {"meta", "content", "abort"} => main[op[w].key] = Empty
  /\ op[w].pc \in {"abortMeta", "removeMeta"} => main[op[w].key].state # "full"
  /\ op[w].pc = "content" => meta[op[w].key] = NewMeta(w, op[w].at)
  /\ op[w].pc \in Deleting => \A j \in Full : meta[j].parent # op[w].key

Stands(layer) == main[layer[1]] = [state |-> "full", at |-> layer[2]]

(* With locks, what is read, saved or resolved stays. *)
ReadInv(w) == locking =>
  /\ \A layer \in db[w].base.chain \union op[w].from.chain \union op[w].chain : Stands(layer)
  /\ op[w].pc = "move" => Stands(<<op[w].key, op[w].at>>)

CallInv(w) == StepInv(w) /\ HeldInv(w) /\ WriteInv(w) /\ ReadInv(w)

(* The Web Locks do what they are for: who removes a snapshot is alone with  *)
(* it, and so is who writes one.                                           *)
LockInv ==
  /\ locking => \A v, w \in Worker : \A k \in Key : Removing(w, k) =>
       k \notin Held(v) /\ (Removing(v, k) => v = w)
  /\ \A v, w \in Worker : op[v].pc \in Storing /\ op[w].pc \in Storing /\ op[v].key = op[w].key
       => v = w

IInv == TypeInv /\ (\A w \in Worker : CallInv(w)) /\ LockInv /\ ChainsAreWhole

(***************************************************************************)
(* Steps                                                                   *)
(***************************************************************************)
(* What a step may do of the locks. *)
Locks(w) ==
  /\ locking => \A k \in Key :
       /\ k \in Held(w)' => k \in Held(w) \/ CanHold(k)
       /\ Removing(w, k)' => k \notin Held(w)' /\ (Removing(w, k) \/ Unread(k))
  /\ op'[w].pc \in Storing =>
       (op[w].pc \in Storing /\ op'[w].key = op[w].key) \/ CanWrite(op'[w].key)

Aside(w) ==
  /\ locking' = locking
  /\ \A v \in Worker \ {w} : op'[v] = op[v] /\ db'[v] = db[v]

LEMMA LockStep ==
  ASSUME IInv, NEW w \in Worker, Aside(w), Locks(w)
  PROVE  LockInv'
<1>1. \A v \in Worker \ {w} : Held(v)' = Held(v) /\ \A k \in Key : Removing(v, k)' <=> Removing(v, k)
  BY DEF Aside, Held, Removing, Keys
<1>2. locking' = locking
  BY DEF Aside
<1>3. ASSUME locking, NEW u \in Worker, NEW v \in Worker, NEW k \in Key, Removing(v, k)'
      PROVE  k \notin Held(u)' /\ (Removing(u, k)' => u = v)
  <2>1. \A x, y \in Worker : Removing(y, k) => k \notin Held(x) /\ (Removing(x, k) => x = y)
    BY <1>3 DEF IInv, LockInv
  <2>2. /\ k \in Held(w)' => k \in Held(w) \/ \A x \in Worker : ~Removing(x, k)
        /\ Removing(w, k)' =>
             /\ k \notin Held(w)'
             /\ Removing(w, k) \/ \A x \in Worker : ~Removing(x, k) /\ k \notin Held(x)
    BY <1>3 DEF Locks, CanHold, Unread
  <2>3. CASE u = w /\ v = w
    BY <1>3, <2>2, <2>3
  <2>4. CASE u = w /\ v # w
    BY <1>1, <1>3, <2>1, <2>2, <2>4
  <2>5. CASE u # w /\ v = w
    BY <1>1, <1>3, <2>1, <2>2, <2>5
  <2>6. CASE u # w /\ v # w
    BY <1>1, <1>3, <2>1, <2>6
  <2> QED
    BY <2>3, <2>4, <2>5, <2>6
<1>4. ASSUME NEW u \in Worker, NEW v \in Worker,
             op'[u].pc \in Storing, op'[v].pc \in Storing, op'[u].key = op'[v].key
      PROVE  u = v
  <2>1. \A x, y \in Worker : op[x].pc \in Storing /\ op[y].pc \in Storing /\ op[x].key = op[y].key
          => x = y
    BY DEF IInv, LockInv
  <2>2. op'[w].pc \in Storing =>
          \/ op[w].pc \in Storing /\ op'[w].key = op[w].key
          \/ \A x \in Worker : ~(op[x].pc \in Storing /\ op[x].key = op'[w].key)
    BY DEF Locks, CanWrite, Storing
  <2>3. \A x \in Worker \ {w} : op'[x] = op[x]
    BY DEF Aside
  <2> QED
    BY <1>4, <2>1, <2>2, <2>3
<1> QED
  BY <1>2, <1>3, <1>4 DEF LockInv

(* The call of another Worker is where it was. *)
LEMMA OthersKeep ==
  ASSUME IInv, NEW w \in Worker, Aside(w), NEW v \in Worker \ {w}
  PROVE  StepInv(v)' /\ HeldInv(v)'
BY DEF IInv, CallInv, StepInv, HeldInv, Aside

(* A step that leaves the store alone. *)
LEMMA QuietStep ==
  ASSUME IInv, TypeInv', NEW w \in Worker, Aside(w), Locks(w), CallInv(w)', UNCHANGED storeVars
  PROVE  IInv'
<1>1. LockInv'
  BY LockStep
<1>2. UNCHANGED <<main, meta>>
  BY DEF storeVars
<1>3. ChainsAreWhole'
  BY <1>2 DEF IInv, ChainsAreWhole, Full
<1>4. ASSUME NEW v \in Worker \ {w} PROVE CallInv(v)'
  <2>1. CallInv(v) /\ op'[v] = op[v] /\ db'[v] = db[v] /\ locking' = locking
    BY DEF IInv, Aside
  <2>2. WriteInv(v)' /\ ReadInv(v)'
    BY <1>2, <2>1 DEF CallInv, WriteInv, NewMeta, Full, ReadInv, Stands
  <2> QED
    BY <2>2, OthersKeep DEF CallInv
<1> QED
  BY <1>1, <1>3, <1>4 DEF IInv

(* A step that changes the snapshot of its key, which is not whole or to be  *)
(* removed: nothing lies over it, and nobody else reads it.                *)
Alters(w) ==
  LET k == op[w].key IN
  /\ k \in Key
  /\ \A j \in Key \ {k} : main'[j] = main[j] /\ meta'[j] = meta[j]
  /\ \/ locking /\ op[w].pc \in Storing /\ main[k].state # "full"
     \/ locking /\ op[w].pc = "write" /\ main[k].state # "full" /\ CanWrite(k)
     \/ locking /\ op[w].pc \in Deleting
     \/ ~locking /\ (main[k].state # "full" \/ ~LiesOver(k))
  /\ main'[k].state = "full" =>
       /\ meta'[k].at = main'[k].at
       /\ meta'[k].parent # None =>
            /\ meta'[k].parent \in Key \ {k} /\ meta'[k].parent \in Held(w)
            /\ main[meta'[k].parent] = [state |-> "full", at |-> meta'[k].parentAt]

(* With locks, nobody else is at a step that matters. *)
LEMMA Alone ==
  ASSUME IInv, NEW w \in Worker, Alters(w), locking, NEW v \in Worker, v # w
  PROVE  op[v].pc \in Storing \union Deleting => op[v].key # op[w].key
<1> DEFINE k == op[w].key
<1>1. /\ k \in Key /\ CallInv(w) /\ CallInv(v)
      /\ op[w].pc \in Storing \union {"write"} \union Deleting
      /\ op[w].pc = "write" => CanWrite(k)
  <2>1. CallInv(w) /\ CallInv(v)
    BY DEF IInv
  <2>2. \/ op[w].pc \in Storing \/ (op[w].pc = "write" /\ CanWrite(k)) \/ op[w].pc \in Deleting
    BY DEF Alters
  <2>3. k \in Key
    BY DEF Alters
  <2>4. op[w].pc = "write" => op[w].pc \notin Storing \union Deleting
    BY DEF Storing, Deleting
  <2> QED
    BY <2>1, <2>2, <2>3, <2>4
<1>2. /\ op[w].pc \in Storing \union {"write"} => k \in Held(w)
      /\ op[w].pc \in Deleting => Removing(w, k)
  BY <1>1 DEF CallInv, HeldInv, Held, Removing, Deleting
<1>3. ASSUME op[v].key = k
      PROVE  /\ op[v].pc \in Storing => k \in Held(v)
             /\ op[v].pc \in Deleting => Removing(v, k)
  BY <1>1, <1>3 DEF CallInv, HeldInv, Held, Removing, Deleting
<1>4. /\ Removing(w, k) => k \notin Held(v) /\ ~Removing(v, k)
      /\ Removing(v, k) => k \notin Held(w) /\ ~Removing(w, k)
  BY <1>1 DEF IInv, LockInv
<1>5. op[w].pc \in Storing \union {"write"} /\ op[v].pc \in Storing => op[v].key # k
  BY <1>1 DEF IInv, LockInv, CanWrite, Storing
<1> QED
  BY <1>1, <1>2, <1>3, <1>4, <1>5

LEMMA NobodyReads ==
  ASSUME IInv, NEW w \in Worker, Alters(w), locking, NEW v \in Worker
  PROVE  /\ \A layer \in db[v].base.chain \union op[v].from.chain \union op[v].chain :
              layer[1] # op[w].key
         /\ op[v].pc = "move" => op[v].key # op[w].key
<1> DEFINE k == op[w].key
<1>1. k \in Key /\ CallInv(w) /\ CallInv(v)
  BY DEF Alters, IInv
<1>2. CASE main[k].state # "full"
  <2>1. \A layer : Stands(layer) => layer[1] # k
    BY <1>2 DEF Stands
  <2> QED
    BY <1>1, <2>1 DEF CallInv, ReadInv
<1>3. CASE op[w].pc \in Deleting
  <2>1. k \notin Held(v)
    BY <1>1, <1>3 DEF IInv, LockInv, Removing, Deleting
  <2>2. \A layer \in db[v].base.chain \union op[v].from.chain \union op[v].chain :
          layer[1] \in Held(v)
    BY <1>1 DEF CallInv, HeldInv, Held, Keys
  <2>3. op[v].pc = "move" => op[v].key \in Held(v)
    BY <1>1 DEF CallInv, HeldInv, Held
  <2> QED
    BY <2>1, <2>2, <2>3
<1> QED
  BY <1>2, <1>3 DEF Alters

LEMMA NothingLiesOver ==
  ASSUME IInv, NEW w \in Worker, Alters(w), NEW j \in Full, j # op[w].key
  PROVE  meta[j].parent # op[w].key
<1> DEFINE k == op[w].key
<1>1. k \in Key /\ CallInv(w) /\ None \notin Key
  BY NoneAssumption DEF Alters, IInv
<1>2. CASE main[k].state # "full"
  <2>1. ASSUME meta[j].parent # None PROVE main[meta[j].parent].state = "full"
    <3>1. main[meta[j].parent] = [state |-> "full", at |-> meta[j].parentAt]
      BY <2>1 DEF IInv, ChainsAreWhole
    <3> QED
      BY <3>1
  <2> QED
    BY <1>1, <1>2, <2>1
<1>3. CASE op[w].pc \in Deleting
  BY <1>1, <1>3 DEF CallInv, WriteInv
<1>4. CASE ~LiesOver(k)
  BY <1>4 DEF LiesOver, Listed, Full
<1> QED
  BY <1>2, <1>3, <1>4 DEF Alters

(* A step that writes to the store, or removes from it. *)
LEMMA StoreStep ==
  ASSUME IInv, TypeInv', NEW w \in Worker, Aside(w), Locks(w), Alters(w), StepInv(w)', HeldInv(w)',
         WriteInv(w)', ReadInv(w)'
  PROVE  IInv'
<1> DEFINE k == op[w].key
<1>1. LockInv'
  BY LockStep
<1>2. /\ k \in Key /\ None \notin Key
      /\ \A j \in Key \ {k} : main'[j] = main[j] /\ meta'[j] = meta[j]
  BY NoneAssumption DEF Alters
<1>3. ChainsAreWhole'
  <2> SUFFICES ASSUME NEW j \in Key, main'[j].state = "full"
               PROVE  /\ meta'[j].at = main'[j].at
                      /\ meta'[j].parent # None =>
                           main'[meta'[j].parent] = [state |-> "full", at |-> meta'[j].parentAt]
    BY DEF ChainsAreWhole, Full
  <2>1. CASE j = k
    BY <1>2, <2>1 DEF Alters
  <2>2. CASE j # k
    <3>1. j \in Full /\ main'[j] = main[j] /\ meta'[j] = meta[j]
      BY <1>2, <2>2 DEF Full
    <3>2. meta[j].parent # k
      BY <2>2, <3>1, NothingLiesOver
    <3>3. meta[j].parent \in Key \union {None}
      BY DEF IInv, TypeInv, Meta
    <3> QED
      BY <1>2, <3>1, <3>2, <3>3 DEF IInv, ChainsAreWhole
  <2> QED
    BY <2>1, <2>2
<1>4. ASSUME NEW v \in Worker \ {w} PROVE CallInv(v)'
  <2>1. CallInv(v) /\ op'[v] = op[v] /\ db'[v] = db[v] /\ locking' = locking
    BY DEF IInv, Aside
  <2>2. ReadInv(v)'
    <3> SUFFICES ASSUME locking
                 PROVE  /\ \A layer \in db[v].base.chain \union op[v].from.chain \union op[v].chain :
                             Stands(layer)'
                        /\ op[v].pc = "move" => main'[op[v].key] = [state |-> "full", at |-> op[v].at]
      BY <2>1 DEF ReadInv, Stands
    <3>1. \A layer \in db[v].base.chain \union op[v].from.chain \union op[v].chain :
            layer[1] # k /\ layer[1] \in Key /\ Stands(layer)
      <4>1. db[v].base.chain \union op[v].from.chain \union op[v].chain \subseteq Key \X Nat
        BY DEF IInv, TypeInv, Op, DbRecord, Base, Layers
      <4>2. \A layer \in db[v].base.chain \union op[v].from.chain \union op[v].chain : layer[1] # k
        BY NobodyReads
      <4> QED
        BY <2>1, <4>1, <4>2 DEF CallInv, ReadInv
    <3>2. op[v].pc = "move" => op[v].key # k /\ op[v].key \in Key
                               /\ main[op[v].key] = [state |-> "full", at |-> op[v].at]
      BY <2>1, NobodyReads DEF CallInv, ReadInv, StepInv, Stands
    <3> QED
      BY <1>2, <3>1, <3>2 DEF Stands
  <2>3. WriteInv(v)'
    <3> SUFFICES ASSUME op[v].pc \in Storing \union Deleting PROVE WriteInv(v)'
      BY <2>1 DEF WriteInv, Storing, Deleting
    <3>1. locking /\ op[v].key \in Key
      BY <2>1 DEF CallInv, StepInv, Storing, Deleting
    <3>2. op[v].key # k
      BY <3>1, Alone
    <3>3. main'[op[v].key] = main[op[v].key] /\ meta'[op[v].key] = meta[op[v].key]
      BY <1>2, <3>1, <3>2
    <3>4. NewMeta(v, op[v].at)' = NewMeta(v, op[v].at)
      BY <2>1 DEF NewMeta
    <3>5. ASSUME op[v].pc \in Deleting, NEW j \in Key, main'[j].state = "full"
          PROVE  meta'[j].parent # op[v].key
      <4>1. CASE j # k
        <5>1. j \in Full /\ meta'[j] = meta[j]
          BY <1>2, <3>5, <4>1 DEF Full
        <5> QED
          BY <2>1, <3>5, <5>1 DEF CallInv, WriteInv
      <4>2. CASE j = k
        <5>1. Removing(v, op[v].key)
          BY <3>5 DEF Removing, Deleting
        <5>2. op[v].key \notin Held(w)
          BY <3>1, <5>1 DEF IInv, LockInv
        <5> QED
          BY <1>2, <3>1, <3>5, <4>2, <5>2 DEF Alters
      <4> QED
        BY <4>1, <4>2
    <3> QED
      BY <2>1, <3>3, <3>4, <3>5 DEF CallInv, WriteInv, Full
  <2> QED
    BY <2>2, <2>3, OthersKeep DEF CallInv
<1> QED
  BY <1>1, <1>3, <1>4 DEF IInv, CallInv

(***************************************************************************)
(* Types and fields                                                        *)
(***************************************************************************)
LEMMA Nothings ==
  /\ NoBase \in Base /\ Named(NoBase) /\ NoBase.chain = {} /\ Keys(NoBase) = {}
  /\ NoFile \in File /\ Empty \in File /\ NoMeta \in Meta
  /\ NoFile.state = "absent" /\ Empty.state = "empty"
  /\ Idle \in Op /\ Idle.pc = "idle" /\ Idle.from = NoBase /\ Idle.held = {} /\ Idle.chain = {}
  /\ Idle.at = 0 /\ ~Idle.delta
  /\ Closed \in DbRecord /\ Closed.base = NoBase
<1>1. NoBase \in Base /\ Named(NoBase) /\ NoBase.chain = {} /\ Keys(NoBase) = {}
  BY DEF NoBase, Base, Named, Keys
<1>2. NoFile \in File /\ Empty \in File /\ NoMeta \in Meta /\ NoFile.state = "absent"
      /\ Empty.state = "empty"
  BY DEF NoFile, File, Empty, NoMeta, Meta
<1>3. Idle.pc = "idle" /\ Idle.from = NoBase /\ Idle.held = {} /\ Idle.chain = {} /\ Idle.at = 0
      /\ ~Idle.delta
  BY DEF Idle
<1>4. Idle \in Op
  <2>1. ASSUME NEW d \in BOOLEAN, NEW r \in BOOLEAN
        PROVE  [pc |-> "idle", key |-> None, at |-> 0, delta |-> d, from |-> NoBase, held |-> {},
                chain |-> {}, top |-> NoBase, plan |-> {}, retry |-> r] \in Op
    BY <1>1 DEF Op, Pc, Layers
  <2> QED
    BY <2>1, Zenon DEF Idle
<1>5. Closed \in DbRecord /\ Closed.base = NoBase
  <2>1. ASSUME NEW b \in BOOLEAN PROVE [open |-> b, branch |-> None, base |-> NoBase] \in DbRecord
    BY <1>1 DEF DbRecord
  <2>2. Closed \in DbRecord
    BY <2>1, Zenon DEF Closed
  <2> QED
    BY <2>2 DEF Closed
<1> QED
  BY <1>1, <1>2, <1>3, <1>4, <1>5

LEMMA StepFields ==
  ASSUME TypeInv, NEW w \in Worker, NEW new, Step(w, new)
  PROVE  /\ op'[w] = new /\ \A v \in Worker \ {w} : op'[v] = op[v]
         /\ new \in Op => op' \in [Worker -> Op]
BY DEF TypeInv, Step

LEMMA WholeFile ==
  ASSUME TypeInv, NEW k \in Key, main[k].state = "full"
  PROVE  Stands(<<k, main[k].at>>) /\ main[k].at \in Nat
BY DEF TypeInv, File, Stands

(* Locks that a step keeps or gives back. *)
LEMMA NoNewLock ==
  ASSUME IInv, NEW w \in Worker,
         \A k \in Key : /\ k \in Held(w)' => k \in Held(w)
                        /\ Removing(w, k)' => Removing(w, k),
         op'[w].pc \in Storing => op[w].pc \in Storing /\ op'[w].key = op[w].key
  PROVE  Locks(w)
BY DEF Locks, IInv, LockInv

(* What resolve found: the layers down to the last. *)
LEMMA ResolvedFields ==
  ASSUME IInv, NEW w \in Worker, op[w].pc \in {"openGet", "joinGet"}, Readable(w)
  PROVE  /\ Resolved(w) \in Base /\ Resolved(w).chain = op[w].chain \union {Layer(w)}
         /\ Resolved(w).key \in Key /\ <<Resolved(w).key, Resolved(w).at>> \in Resolved(w).chain
         /\ \A layer \in Resolved(w).chain : layer[1] \in op[w].held
         /\ locking => \A layer \in Resolved(w).chain : Stands(layer)
         /\ op[w].key \in Key
<1> DEFINE k == op[w].key  o == op[w]
           top == IF o.at = 0
                  THEN [key |-> k, at |-> main[k].at, branch |-> meta[k].branch, chain |-> {}]
                  ELSE o.top
<1>1. /\ TypeInv /\ CallInv(w) /\ o \in Op /\ k \in Key /\ k \in o.held
      /\ main[k].state = "full"
  BY DEF IInv, CallInv, TypeInv, StepInv, HeldInv, Readable
<1>2. Stands(<<k, main[k].at>>) /\ main[k].at \in Nat
  BY <1>1, WholeFile
<1>3. Layer(w) = <<k, main[k].at>>
  BY DEF Layer
<1>4. o.chain \in Layers /\ o.top \in Base /\ meta[k].branch \in Branch \union {None}
  BY <1>1 DEF Op, TypeInv, Meta
<1>5. top \in Base /\ top.key \in Key /\ <<top.key, top.at>> \in o.chain \union {Layer(w)}
  <2>1. CASE o.at = 0
    BY <1>1, <1>2, <1>3, <1>4, <2>1 DEF Base
  <2>2. CASE o.at # 0
    BY <1>1, <1>4, <2>2 DEF CallInv, StepInv, Looking
  <2> QED
    BY <2>1, <2>2
<1>6. Resolved(w) = [top EXCEPT !.chain = o.chain \union {Layer(w)}]
  BY DEF Resolved
<1>7. o.chain \union {Layer(w)} \in Layers
  BY <1>1, <1>2, <1>3, <1>4 DEF Layers
<1> HIDE DEF top
<1>8. /\ Resolved(w) \in Base /\ Resolved(w).chain = o.chain \union {Layer(w)}
      /\ Resolved(w).key = top.key /\ Resolved(w).at = top.at
  BY <1>5, <1>6, <1>7 DEF Base, Layers
<1>9. \A layer \in o.chain \union {Layer(w)} : layer[1] \in o.held
  BY <1>1, <1>3 DEF CallInv, HeldInv
<1>10. locking => \A layer \in o.chain \union {Layer(w)} : Stands(layer)
  BY <1>1, <1>2, <1>3 DEF CallInv, ReadInv
<1> QED
  BY <1>1, <1>5, <1>8, <1>9, <1>10

(***************************************************************************)
(* The steps of a call that leave the store alone                          *)
(***************************************************************************)
(* A call ends, or a Worker; its database may read another base.           *)
LEMMA EndStep ==
  ASSUME IInv, NEW w \in Worker, Done(w), NEW d \in DbRecord, db' = db \/ db' = [db EXCEPT ![w] = d],
         Named(d.base), \A layer \in d.base.chain : layer[1] \in Held(w),
         locking => \A layer \in d.base.chain : Stands(layer),
         UNCHANGED <<storeVars, clock, locking>>, crashes' \in Nat
  PROVE  IInv'
<1>1. TypeInv /\ CallInv(w)
  BY DEF IInv
<1>2. op'[w] = Idle /\ op' \in [Worker -> Op] /\ \A v \in Worker \ {w} : op'[v] = op[v]
  BY <1>1, StepFields, Nothings DEF Done
<1>3. UNCHANGED <<main, meta>> /\ locking' = locking
  BY DEF storeVars
<1>4. db' \in [Worker -> DbRecord] /\ (db'[w] = db[w] \/ db'[w] = d)
      /\ \A v \in Worker \ {w} : db'[v] = db[v]
  BY <1>1 DEF TypeInv
<1>5. TypeInv'
  BY <1>1, <1>2, <1>3, <1>4 DEF TypeInv
<1>6. Aside(w)
  BY <1>2, <1>3, <1>4 DEF Aside
<1>7. Locks(w)
  <2>1. op'[w].pc \notin Storing /\ \A k \in Key : ~Removing(w, k)'
    BY <1>2, Nothings DEF Removing, Storing
  <2>2. \A k \in Key : k \in Held(w)' => k \in Held(w)
    <3>1. \A layer \in db[w].base.chain : layer[1] \in Held(w)
      BY DEF Held, Keys
    <3>2. Held(w)' = Keys(db'[w].base)
      <4>1. op'[w].held = {} /\ op'[w].from = NoBase
        BY <1>2, Nothings
      <4> QED
        BY <4>1, Nothings DEF Held, Keys
    <3>3. \A layer \in db'[w].base.chain : layer[1] \in Held(w)
      BY <1>4, <3>1
    <3> QED
      BY <3>2, <3>3 DEF Keys
  <2> QED
    BY <2>1, <2>2, NoNewLock
<1>8. CallInv(w)'
  <2>1. StepInv(w)' /\ HeldInv(w)' /\ WriteInv(w)'
    BY <1>1, <1>2, <1>4, Nothings
    DEF CallInv, StepInv, HeldInv, WriteInv, Storing, Deleting, Looking, Named
  <2>2. ReadInv(w)'
    BY <1>1, <1>2, <1>3, <1>4, Nothings DEF CallInv, ReadInv, Stands
  <2> QED
    BY <2>1, <2>2 DEF CallInv
<1> QED
  BY <1>5, <1>6, <1>7, <1>8, QuietStep

(* A database is opened empty or closed, whatever its save is doing. *)
LEMMA DbStep ==
  ASSUME IInv, NEW w \in Worker, NEW b, (b \in Branch /\ OpenEmpty(w, b)) \/ Close(w),
         UNCHANGED locking
  PROVE  IInv'
<1>1. TypeInv /\ CallInv(w)
  BY DEF IInv
<1>2. PICK d \in DbRecord : d.base = NoBase /\ db' = [db EXCEPT ![w] = d]
  <2>1. CASE b \in Branch /\ OpenEmpty(w, b)
    <3>1. ASSUME NEW x \in BOOLEAN
          PROVE  [open |-> x, branch |-> b, base |-> NoBase] \in DbRecord
      BY <2>1, Nothings DEF DbRecord
    <3>2. [open |-> TRUE, branch |-> b, base |-> NoBase] \in DbRecord
      BY <3>1, Zenon
    <3> QED
      BY <2>1, <3>2 DEF OpenEmpty
  <2>2. CASE Close(w)
    BY <2>2, Nothings DEF Close
  <2> QED
    BY <2>1, <2>2
<1>3. UNCHANGED <<main, meta, op, clock, crashes, locking>> /\ UNCHANGED storeVars
  BY DEF OpenEmpty, Close, storeVars
<1>4. db'[w] = d /\ db' \in [Worker -> DbRecord] /\ \A v \in Worker \ {w} : db'[v] = db[v]
  BY <1>1, <1>2 DEF TypeInv
<1>5. TypeInv'
  BY <1>1, <1>3, <1>4 DEF TypeInv
<1>6. Aside(w)
  BY <1>3, <1>4 DEF Aside
<1>7. Locks(w)
  <2>1. \A k \in Key : (k \in Held(w)' => k \in Held(w)) /\ (Removing(w, k)' => Removing(w, k))
    BY <1>2, <1>3, <1>4, Nothings DEF Held, Removing, Keys
  <2> QED
    BY <1>3, <2>1, NoNewLock
<1>8. CallInv(w)'
  <2>1. StepInv(w)' /\ HeldInv(w)' /\ WriteInv(w)'
    BY <1>1, <1>2, <1>3, <1>4, Nothings
    DEF CallInv, StepInv, HeldInv, WriteInv, NewMeta, Full, Named
  <2>2. ReadInv(w)'
    BY <1>1, <1>2, <1>3, <1>4, Nothings DEF CallInv, ReadInv, Stands
  <2> QED
    BY <2>1, <2>2 DEF CallInv
<1> QED
  BY <1>3, <1>5, <1>6, <1>7, <1>8, QuietStep

(* A call begins or goes on without a new lock, and writes nothing.        *)
LEMMA OnStep ==
  ASSUME IInv, NEW w \in Worker, NEW new \in Op, Step(w, new), UNCHANGED <<storeVars, db, clock, crashes, locking>>,
         new.pc \notin Storing \union Deleting \union {"check", "move"},
         new.held = op[w].held \/ (new.held = {} /\ new.chain = {}),
         new.from = op[w].from \/ new.from = db[w].base \/ new.from = NoBase,
         new.pc # "idle" /\ new.pc # "retain" => new.key \in Key,
         new.delta => new.from # NoBase, new.pc = "saveHold" => new.chain = {},
         new.pc \in {"openGet", "joinGet", "write", "move"} => new.key \in new.held,
         new.pc \in Looking /\ new.at # 0 =>
           new.top.key \in Key /\ <<new.top.key, new.top.at>> \in new.chain,
         \A layer \in new.chain : layer[1] \in new.held /\ (locking => Stands(layer))
  PROVE  IInv'
<1>1. TypeInv /\ CallInv(w)
  BY DEF IInv
<1>2. op'[w] = new /\ op' \in [Worker -> Op] /\ \A v \in Worker \ {w} : op'[v] = op[v]
  BY <1>1, StepFields
<1>3. UNCHANGED <<main, meta, db, locking>>
  BY DEF storeVars
<1>4. TypeInv'
  BY <1>1, <1>2, <1>3 DEF TypeInv
<1>5. Aside(w)
  BY <1>2, <1>3 DEF Aside
<1>6. Locks(w)
  <2>1. op'[w].pc \notin Storing /\ \A k \in Key : ~Removing(w, k)'
    BY <1>2 DEF Removing, Storing, Deleting
  <2>2. \A k \in Key : k \in Held(w)' => k \in Held(w)
    <3>1. Held(w)' = new.held \union Keys(new.from) \union Keys(db[w].base)
      BY <1>2, <1>3 DEF Held, Keys
    <3>2. new.held \subseteq op[w].held
      OBVIOUS
    <3>3. Keys(new.from) \in {Keys(op[w].from), Keys(db[w].base), {}}
      BY Nothings
    <3> QED
      BY <3>1, <3>2, <3>3 DEF Held
  <2> QED
    BY <2>1, <2>2, NoNewLock
<1>7. CallInv(w)'
  <2>1. Named(new.from)
    BY <1>1, Nothings DEF CallInv, StepInv
  <2>2. StepInv(w)' /\ HeldInv(w)'
    BY <1>1, <1>2, <1>3, <2>1 DEF CallInv, StepInv, HeldInv, Named
  <2>3. WriteInv(w)'
    BY <1>2 DEF WriteInv, Storing, Deleting
  <2>4. locking => \A layer \in new.from.chain : Stands(layer)
    BY <1>1, Nothings DEF CallInv, ReadInv
  <2>5. ReadInv(w)'
    BY <1>1, <1>2, <1>3, <2>4 DEF CallInv, ReadInv, Stands
  <2> QED
    BY <2>2, <2>3, <2>5 DEF CallInv
<1> QED
  BY <1>4, <1>5, <1>6, <1>7, QuietStep

LEMMA OpenStep ==
  ASSUME IInv, NEW w \in Worker, NEW k, (k \in Key /\ (Open(w, k) \/ Save(w, k))) \/ Retain(w),
         UNCHANGED locking
  PROVE  IInv'
<1>1. TypeInv /\ CallInv(w)
  BY DEF IInv
<1>2. CASE k \in Key /\ Open(w, k)
  <2> DEFINE new == [Idle EXCEPT !.pc = "openHold", !.key = k]
  <2>1. /\ new \in Op /\ new.pc = "openHold" /\ new.key = k /\ new.held = {} /\ new.chain = {}
        /\ new.from = NoBase /\ new.at = 0 /\ ~new.delta
    BY <1>2, Nothings DEF Op, Pc, Looking
  <2>2. Step(w, new) /\ UNCHANGED <<storeVars, db, clock, crashes, locking>>
    BY <1>2 DEF Open
  <2> HIDE DEF new
  <2> QED
    BY <1>2, <2>1, <2>2, OnStep DEF Storing, Deleting
<1>3. CASE k \in Key /\ Save(w, k)
  <2>1. PICK delta \in IF MayDelta(w) THEN BOOLEAN ELSE {FALSE} :
          Step(w, [Idle EXCEPT !.pc = "saveHold", !.key = k, !.from = db[w].base,
                               !.delta = delta, !.top = [NoBase EXCEPT !.branch = db[w].branch]])
    BY <1>3 DEF Save
  <2> DEFINE top == [NoBase EXCEPT !.branch = db[w].branch]
             new == [Idle EXCEPT !.pc = "saveHold", !.key = k, !.from = db[w].base,
                                 !.delta = delta, !.top = top]
  <2>2. db[w] \in DbRecord /\ db[w].base \in Base /\ db[w].branch \in Branch \union {None}
    BY <1>1 DEF TypeInv, DbRecord
  <2>3. top \in Base
    BY <2>2, Nothings DEF Base
  <2>4. delta \in BOOLEAN /\ (delta => db[w].base # NoBase)
    BY <2>1 DEF MayDelta
  <2> HIDE DEF top
  <2>5. /\ new \in Op /\ new.pc = "saveHold" /\ new.key = k /\ new.held = {} /\ new.chain = {}
        /\ new.from = db[w].base /\ new.at = 0
    BY <1>3, <2>2, <2>3, <2>4, Nothings DEF Op, Pc
  <2>6. new.delta <=> delta
    BY Nothings DEF Op
  <2>7. Step(w, new) /\ UNCHANGED <<storeVars, db, clock, crashes, locking>>
    BY <1>3, <2>1 DEF Save, top
  <2> HIDE DEF new
  <2> QED
    BY <1>3, <2>4, <2>5, <2>6, <2>7, OnStep DEF Storing, Deleting, Looking
<1>4. CASE Retain(w)
  <2> DEFINE new == [Idle EXCEPT !.pc = "retain", !.plan = Listed \ Kept]
  <2>1. /\ new \in Op /\ new.pc = "retain" /\ new.held = {} /\ new.chain = {}
        /\ new.from = NoBase /\ new.at = 0 /\ ~new.delta
    BY Nothings DEF Op, Pc, Listed
  <2>2. Step(w, new) /\ UNCHANGED <<storeVars, db, clock, crashes, locking>>
    BY <1>4 DEF Retain
  <2> HIDE DEF new
  <2> QED
    BY <2>1, <2>2, OnStep DEF Storing, Deleting, Looking
<1> QED
  BY <1>2, <1>3, <1>4

LEMMA GetLayerStep ==
  ASSUME IInv, NEW w \in Worker, GetLayer(w), UNCHANGED locking
  PROVE  IInv'
<1> DEFINE parent == meta[op[w].key].parent
           pc  == IF op[w].pc = "openGet" THEN "openHold" ELSE "joinHold"
           parentAt == meta[op[w].key].parentAt
           chain == op[w].chain \union {Layer(w)}
           new == [op[w] EXCEPT !.pc = pc, !.key = parent, !.at = parentAt, !.chain = chain,
                                !.top = Resolved(w)]
<1>1. /\ TypeInv /\ op[w] \in Op /\ op[w].pc \in {"openGet", "joinGet"} /\ Readable(w)
      /\ parent # None
  BY DEF IInv, TypeInv, GetLayer
<1>2. Step(w, new) /\ UNCHANGED <<storeVars, db, clock, crashes, locking>>
  BY DEF GetLayer
<1>3. op[w].key \in Key /\ Resolved(w) \in Base /\ Resolved(w).chain = chain
      /\ Resolved(w).key \in Key /\ <<Resolved(w).key, Resolved(w).at>> \in chain
      /\ \A layer \in chain : layer[1] \in op[w].held /\ (locking => Stands(layer))
  BY <1>1, ResolvedFields
<1>4. parent \in Key /\ parentAt \in Nat
  BY <1>1, <1>3 DEF TypeInv, Meta
<1>5. chain \in Layers
  <2> HIDE DEF chain
  <2> QED
    BY <1>3 DEF Base, Layers
<1>6. pc \in {"openHold", "joinHold"} /\ pc \in Pc
  BY DEF Pc, Looking
<1> HIDE DEF parent, parentAt, chain, pc
<1>7. /\ new \in Op /\ new.pc = pc /\ new.key = parent /\ new.at = parentAt /\ new.chain = chain
      /\ new.top = Resolved(w) /\ new.held = op[w].held /\ new.from = op[w].from
  BY <1>1, <1>3, <1>4, <1>5, <1>6 DEF Op
<1>8. new.delta <=> op[w].delta
  BY <1>1 DEF Op
<1>9. op[w].delta => op[w].from # NoBase
  BY DEF IInv, CallInv, StepInv
<1> HIDE DEF new
<1> QED
  BY <1>2, <1>3, <1>4, <1>6, <1>7, <1>8, <1>9, OnStep DEF Storing, Deleting, Looking

(* What moves onto another base holds its locks already. *)
LEMMA MoveStep ==
  ASSUME IInv, NEW w \in Worker, NEW base \in Base, Move(w, base), Named(base),
         \A layer \in base.chain : layer[1] \in Held(w),
         locking => \A layer \in base.chain : Stands(layer),
         UNCHANGED <<storeVars, clock, crashes, locking>>
  PROVE  IInv'
<1>1. TypeInv /\ CallInv(w) /\ db[w] \in DbRecord
  BY DEF IInv, TypeInv
<1> DEFINE d == [db[w] EXCEPT !.base = base]
<1>2. d \in DbRecord /\ d.base = base
  BY <1>1 DEF DbRecord
<1>3. db' = db \/ db' = [db EXCEPT ![w] = d]
  BY <1>1 DEF Move, TypeInv
<1>4. Done(w) /\ crashes' \in Nat
  BY <1>1 DEF Move, TypeInv
<1> HIDE DEF d
<1> QED
  BY <1>2, <1>3, <1>4, EndStep

(* A call ends and leaves the database as it is. *)
LEMMA StopStep ==
  ASSUME IInv, NEW w \in Worker, Done(w), UNCHANGED <<storeVars, db, clock, crashes, locking>>
  PROVE  IInv'
<1>1. crashes' \in Nat
  BY DEF IInv, TypeInv
<1> QED
  BY <1>1, EndStep, Nothings

LEMMA FinishStep ==
  ASSUME IInv, NEW w \in Worker, GetLast(w) \/ GetMissing(w) \/ MoveWritten(w) \/ MoveJoined(w) \/ Crash(w),
         UNCHANGED locking
  PROVE  IInv'
<1>1. TypeInv /\ CallInv(w) /\ op[w] \in Op
  BY DEF IInv, TypeInv
<1>2. CASE GetLast(w)
  <2>1. PICK b \in Branch :
          db' = [db EXCEPT ![w] = [open |-> TRUE, branch |-> b, base |-> Resolved(w)]]
    BY <1>2 DEF GetLast
  <2> DEFINE d == [open |-> TRUE, branch |-> b, base |-> Resolved(w)]
  <2>2. /\ Resolved(w) \in Base /\ Named(Resolved(w))
        /\ \A layer \in Resolved(w).chain : layer[1] \in op[w].held
        /\ locking => \A layer \in Resolved(w).chain : Stands(layer)
    BY <1>2, ResolvedFields DEF GetLast, Named
  <2>3. ASSUME NEW x \in BOOLEAN
        PROVE  [open |-> x, branch |-> b, base |-> Resolved(w)] \in DbRecord
    BY <2>2 DEF DbRecord
  <2>4. d \in DbRecord
    BY <2>3, Zenon
  <2>5. d.base = Resolved(w)
    OBVIOUS
  <2>6. db' = [db EXCEPT ![w] = d]
    BY <2>1
  <2>7. \A layer \in Resolved(w).chain : layer[1] \in Held(w)
    BY <2>2 DEF Held
  <2>8. Done(w) /\ UNCHANGED <<storeVars, clock, crashes, locking>> /\ crashes' \in Nat
    BY <1>1, <1>2 DEF GetLast, TypeInv
  <2> HIDE DEF d
  <2> QED
    BY <2>2, <2>4, <2>5, <2>6, <2>7, <2>8, EndStep
<1>3. CASE GetMissing(w)
  BY <1>3, StopStep DEF GetMissing
<1>4. CASE MoveWritten(w)
  <2> DEFINE base == [key |-> op[w].key, at |-> op[w].at, branch |-> op[w].top.branch,
                      chain |-> Below(w) \union {<<op[w].key, op[w].at>>}]
  <2>1. op[w].pc = "move" /\ Move(w, base) /\ UNCHANGED <<storeVars, clock, crashes, locking>>
    BY <1>4 DEF MoveWritten
  <2>2. op[w].key \in Key /\ op[w].key \in op[w].held
    BY <1>1, <2>1 DEF CallInv, StepInv, HeldInv
  <2>3. /\ op[w].at \in Nat /\ op[w].top.branch \in Branch \union {None} /\ op[w].from \in Base
        /\ Below(w) \subseteq op[w].from.chain
    BY <1>1 DEF Op, Base, Below
  <2>4. op[w].from.chain \subseteq Key \X Nat
    BY <2>3 DEF Base
  <2>5. base \in Base /\ base.chain = Below(w) \union {<<op[w].key, op[w].at>>}
    BY <2>2, <2>3, <2>4 DEF Base
  <2>6. Named(base)
    BY <2>2 DEF Named
  <2>7. \A layer \in base.chain : layer[1] \in Held(w)
    BY <2>2, <2>3, <2>5 DEF Held, Keys
  <2>8. locking => \A layer \in base.chain : Stands(layer)
    BY <1>1, <2>1, <2>3, <2>5 DEF CallInv, ReadInv
  <2> HIDE DEF base
  <2> QED
    BY <2>1, <2>5, <2>6, <2>7, <2>8, MoveStep
<1>5. CASE MoveJoined(w)
  <2>1. /\ op[w].pc = "joinGet" /\ Readable(w)
        /\ Move(w, Resolved(w)) \/ (UNCHANGED db /\ Done(w))
        /\ UNCHANGED <<storeVars, clock, crashes, locking>>
    BY <1>5 DEF MoveJoined
  <2>2. /\ Resolved(w) \in Base /\ Named(Resolved(w))
        /\ \A layer \in Resolved(w).chain : layer[1] \in Held(w)
        /\ locking => \A layer \in Resolved(w).chain : Stands(layer)
    BY <2>1, ResolvedFields DEF Named, Held
  <2>3. CASE Move(w, Resolved(w))
    BY <2>1, <2>2, <2>3, MoveStep
  <2>4. CASE UNCHANGED db /\ Done(w)
    BY <2>1, <2>4, StopStep
  <2> QED
    BY <2>1, <2>3, <2>4
<1>6. CASE Crash(w)
  <2>1. Done(w) /\ db' = [db EXCEPT ![w] = Closed] /\ UNCHANGED <<storeVars, clock, locking>>
        /\ crashes' \in Nat
    BY <1>1, <1>6 DEF Crash, TypeInv
  <2> QED
    BY <2>1, Nothings, EndStep
<1> QED
  BY <1>2, <1>3, <1>4, <1>5, <1>6

LEMMA WriteFoundStep ==
  ASSUME IInv, NEW w \in Worker, WriteFound(w), UNCHANGED locking
  PROVE  IInv'
<1>1. TypeInv /\ CallInv(w) /\ op[w] \in Op
  BY DEF IInv, TypeInv
<1> DEFINE new == [op[w] EXCEPT !.pc = "joinHold", !.at = 0]
<1>2. CASE Done(w)
  BY <1>2, StopStep DEF WriteFound
<1>3. CASE Step(w, new)
  <2>1. /\ new \in Op /\ new.pc = "joinHold" /\ new.at = 0 /\ new.key = op[w].key
        /\ new.held = op[w].held /\ new.from = op[w].from /\ new.chain = op[w].chain
    BY <1>1 DEF Op, Pc, Looking
  <2>2. new.delta <=> op[w].delta
    BY <1>1 DEF Op
  <2>3. /\ op[w].key \in Key /\ (op[w].delta => op[w].from # NoBase)
        /\ \A layer \in op[w].chain : layer[1] \in op[w].held /\ (locking => Stands(layer))
    BY <1>1 DEF WriteFound, CallInv, StepInv, HeldInv, ReadInv
  <2>4. UNCHANGED <<storeVars, db, clock, crashes, locking>>
    BY DEF WriteFound
  <2> HIDE DEF new
  <2> QED
    BY <1>3, <2>1, <2>2, <2>3, <2>4, OnStep DEF Storing, Deleting, Looking
<1> QED
  BY <1>2, <1>3 DEF WriteFound

(* A call gets the lock that it waits for. *)
LEMMA HeldStep ==
  ASSUME IInv, NEW w \in Worker, NEW new \in Op, Step(w, new),
         UNCHANGED <<storeVars, db, clock, crashes, locking>>,
         op[w].key \in Key, CanHold(op[w].key), new.pc \in {"openGet", "joinGet", "write"},
         new.key = op[w].key, new.from = op[w].from, new.chain = op[w].chain,
         new.at = op[w].at, new.top = op[w].top, new.delta <=> op[w].delta,
         new.held \subseteq op[w].held \union {op[w].key}, new.key \in new.held,
         \A layer \in new.chain : layer[1] \in new.held,
         new.pc \in Looking => op[w].pc \in Looking
  PROVE  IInv'
<1>1. TypeInv /\ CallInv(w)
  BY DEF IInv
<1>2. op'[w] = new /\ op' \in [Worker -> Op] /\ \A v \in Worker \ {w} : op'[v] = op[v]
  BY <1>1, StepFields
<1>3. UNCHANGED <<main, meta, db, locking>>
  BY DEF storeVars
<1>4. TypeInv'
  BY <1>1, <1>2, <1>3 DEF TypeInv
<1>5. Aside(w)
  BY <1>2, <1>3 DEF Aside
<1>6. Locks(w)
  <2>1. op'[w].pc \notin Storing /\ \A k \in Key : ~Removing(w, k)'
    BY <1>2 DEF Removing, Storing
  <2>2. \A k \in Key : k \in Held(w)' => k \in Held(w) \/ k = op[w].key
    BY <1>2, <1>3 DEF Held, Keys
  <2> QED
    BY <2>1, <2>2 DEF Locks
<1>7. CallInv(w)'
  <2>1. StepInv(w)'
    BY <1>1, <1>2, <1>3 DEF CallInv, StepInv, Named, Storing, Deleting
  <2>2. HeldInv(w)' /\ WriteInv(w)'
    BY <1>2 DEF HeldInv, WriteInv, Storing, Deleting
  <2>3. ReadInv(w)'
    BY <1>1, <1>2, <1>3 DEF CallInv, ReadInv, Stands
  <2> QED
    BY <2>1, <2>2, <2>3 DEF CallInv
<1> QED
  BY <1>4, <1>5, <1>6, <1>7, QuietStep

LEMMA HoldStep ==
  ASSUME IInv, NEW w \in Worker, Hold(w) \/ SaveHold(w), UNCHANGED locking
  PROVE  IInv'
<1>1. TypeInv /\ CallInv(w) /\ op[w] \in Op
  BY DEF IInv, TypeInv
<1>2. CASE Hold(w)
  <2> DEFINE pc == Got(op[w].pc)
             held == op[w].held \union {op[w].key}
             new == [op[w] EXCEPT !.pc = pc, !.held = held]
  <2>1. /\ Step(w, new) /\ UNCHANGED <<storeVars, db, clock, crashes, locking>>
        /\ op[w].pc \in {"openHold", "joinHold"} /\ CanHold(op[w].key)
    BY <1>2 DEF Hold, Resolving
  <2>2. pc \in {"openGet", "joinGet"} /\ pc \in Pc /\ op[w].key \in Key
    BY <1>1, <2>1 DEF Got, Pc, Looking, CallInv, StepInv
  <2>3. held \in SUBSET Key
    BY <1>1, <2>2 DEF Op
  <2>4. \A layer \in op[w].chain : layer[1] \in op[w].held
    BY <1>1 DEF CallInv, HeldInv
  <2> HIDE DEF pc
  <2>5. /\ new \in Op /\ new.pc = pc /\ new.key = op[w].key /\ new.from = op[w].from
        /\ new.chain = op[w].chain /\ new.at = op[w].at /\ new.top = op[w].top /\ new.held = held
    BY <1>1, <2>2, <2>3 DEF Op
  <2>6. new.delta <=> op[w].delta
    BY <1>1 DEF Op
  <2>7. op[w].pc \in Looking
    BY <2>1 DEF Looking
  <2> HIDE DEF new
  <2> QED
    BY <2>1, <2>2, <2>4, <2>5, <2>6, <2>7, HeldStep
<1>3. CASE SaveHold(w)
  <2> DEFINE new == [op[w] EXCEPT !.pc = "write", !.held = {op[w].key}]
  <2>1. /\ Step(w, new) /\ UNCHANGED <<storeVars, db, clock, crashes, locking>>
        /\ op[w].pc = "saveHold" /\ CanHold(op[w].key)
    BY <1>3 DEF SaveHold
  <2>2. op[w].key \in Key /\ op[w].chain = {}
    BY <1>1, <2>1 DEF CallInv, StepInv, HeldInv
  <2>3. /\ new \in Op /\ new.pc = "write" /\ new.key = op[w].key /\ new.from = op[w].from
        /\ new.chain = {} /\ new.at = op[w].at /\ new.top = op[w].top /\ new.held = {op[w].key}
    BY <1>1, <2>2 DEF Op, Pc
  <2>4. new.delta <=> op[w].delta
    BY <1>1 DEF Op
  <2> HIDE DEF new
  <2> QED
    BY <2>1, <2>2, <2>3, <2>4, HeldStep DEF Looking
<1> QED
  BY <1>2, <1>3

(* A call goes to its next step with what it has, and may take a snapshot to *)
(* delete which nobody reads.                                              *)
LEMMA TakenStep ==
  ASSUME IInv, NEW w \in Worker, NEW new \in Op, Step(w, new),
         UNCHANGED <<storeVars, db, clock, crashes, locking>>,
         new.from = op[w].from, new.chain = op[w].chain, new.held = op[w].held,
         new.delta <=> op[w].delta, new.key \in Key,
         \/ new.pc = "check" /\ (locking => Unread(new.key))
         \/ new.pc = "abort" /\ op[w].pc \in {"meta", "content"} /\ new.key = op[w].key
         \/ new.pc = "removeMain" /\ op[w].pc = "check" /\ locking /\ new.key = op[w].key
              /\ ~LiesOver(new.key)
  PROVE  IInv'
<1>1. TypeInv /\ CallInv(w)
  BY DEF IInv
<1>2. op'[w] = new /\ op' \in [Worker -> Op] /\ \A v \in Worker \ {w} : op'[v] = op[v]
  BY <1>1, StepFields
<1>3. UNCHANGED <<main, meta, db, locking>>
  BY DEF storeVars
<1>4. TypeInv'
  BY <1>1, <1>2, <1>3 DEF TypeInv
<1>5. Aside(w)
  BY <1>2, <1>3 DEF Aside
<1>6. Held(w)' = Held(w)
  BY <1>2, <1>3 DEF Held, Keys
<1>7. CASE new.pc = "check" /\ (locking => Unread(new.key))
  <2>1. op'[w].pc \notin Storing \union Deleting
    BY <1>2, <1>7 DEF Storing, Deleting
  <2>2. \A k \in Key : Removing(w, k)' => k = new.key
    BY <1>2 DEF Removing
  <2>3. Unread(new.key) => new.key \notin Held(w)
    BY DEF Unread
  <2>4. Locks(w)
    BY <1>6, <1>7, <2>1, <2>2, <2>3 DEF Locks
  <2>5. StepInv(w)' /\ HeldInv(w)' /\ WriteInv(w)' /\ ReadInv(w)'
    <3>1. StepInv(w)'
      BY <1>1, <1>2, <1>3, <1>7, <2>1 DEF CallInv, StepInv, Named, Looking
    <3>2. HeldInv(w)' /\ WriteInv(w)'
      BY <1>1, <1>2, <1>7, <2>1 DEF CallInv, HeldInv, WriteInv, Storing, Deleting
    <3>3. ReadInv(w)'
      BY <1>1, <1>2, <1>3, <1>7 DEF CallInv, ReadInv, Stands
    <3> QED
      BY <3>1, <3>2, <3>3
  <2> QED
    BY <1>4, <1>5, <2>4, <2>5, QuietStep DEF CallInv
<1>8. CASE new.pc = "abort" /\ op[w].pc \in {"meta", "content"} /\ new.key = op[w].key
  <2>1. op'[w].pc \in Storing /\ op[w].pc \in Storing /\ \A k \in Key : ~Removing(w, k)'
    BY <1>2, <1>8 DEF Storing, Removing
  <2>2. Locks(w)
    BY <1>2, <1>6, <1>8, <2>1, NoNewLock
  <2>3. locking /\ main[op[w].key] = Empty /\ op[w].key \in op[w].held
    BY <1>1, <1>8, <2>1 DEF CallInv, StepInv, HeldInv, WriteInv
  <2>4. StepInv(w)' /\ HeldInv(w)' /\ WriteInv(w)' /\ ReadInv(w)'
    <3>1. StepInv(w)'
      BY <1>1, <1>2, <1>3, <1>8, <2>3 DEF CallInv, StepInv, Named, Looking
    <3>2. HeldInv(w)' /\ WriteInv(w)'
      BY <1>1, <1>2, <1>3, <1>8, <2>3 DEF CallInv, HeldInv, WriteInv, Storing, Deleting
    <3>3. ReadInv(w)'
      BY <1>1, <1>2, <1>3, <1>8 DEF CallInv, ReadInv, Stands
    <3> QED
      BY <3>1, <3>2, <3>3
  <2> QED
    BY <1>4, <1>5, <2>2, <2>4, QuietStep DEF CallInv
<1>9. CASE new.pc = "removeMain" /\ op[w].pc = "check" /\ locking /\ new.key = op[w].key
             /\ ~LiesOver(new.key)
  <2>1. op'[w].pc \notin Storing /\ \A k \in Key : Removing(w, k)' => Removing(w, k)
    BY <1>2, <1>9 DEF Storing, Removing
  <2>2. Locks(w)
    BY <1>6, <2>1, NoNewLock
  <2>3. \A j \in Full : meta[j].parent # new.key
    BY <1>9 DEF LiesOver, Listed, Full
  <2>4. StepInv(w)' /\ HeldInv(w)' /\ WriteInv(w)' /\ ReadInv(w)'
    <3>1. StepInv(w)'
      BY <1>1, <1>2, <1>3, <1>9 DEF CallInv, StepInv, Named, Looking
    <3>2. HeldInv(w)' /\ WriteInv(w)'
      BY <1>1, <1>2, <1>3, <1>9, <2>3 DEF CallInv, HeldInv, WriteInv, Storing, Deleting, Full
    <3>3. ReadInv(w)'
      BY <1>1, <1>2, <1>3, <1>9 DEF CallInv, ReadInv, Stands
    <3> QED
      BY <3>1, <3>2, <3>3
  <2> QED
    BY <1>4, <1>5, <2>2, <2>4, QuietStep DEF CallInv
<1> QED
  BY <1>7, <1>8, <1>9

LEMMA RetainNextStep ==
  ASSUME IInv, NEW w \in Worker, RetainNext(w), UNCHANGED locking
  PROVE  IInv'
<1>1. /\ TypeInv /\ CallInv(w) /\ op[w] \in Op /\ op[w].pc = "retain"
      /\ UNCHANGED <<storeVars, db, clock, crashes, locking>>
  BY DEF IInv, TypeInv, RetainNext
<1>2. CASE op[w].plan = {}
  BY <1>1, <1>2, StopStep DEF RetainNext
<1>3. CASE op[w].plan # {}
  <2>1. PICK k \in op[w].plan :
          Step(w, [op[w] EXCEPT !.plan = @ \ {k}, !.key = k,
                   !.pc = IF locking /\ ~Unread(k) THEN @ ELSE "check"])
    BY <1>3 DEF RetainNext
  <2> DEFINE plan == op[w].plan \ {k}
             pc == IF locking /\ ~Unread(k) THEN op[w].pc ELSE "check"
             new == [op[w] EXCEPT !.plan = plan, !.key = k, !.pc = pc]
  <2>2. k \in Key /\ plan \in SUBSET Key
    BY <1>1 DEF Op
  <2>3. pc \in {"retain", "check"} /\ pc \in Pc /\ (pc = "check" => (locking => Unread(k)))
    BY <1>1 DEF Pc
  <2>4. Step(w, new)
    BY <2>1
  <2> HIDE DEF plan, pc
  <2>5. /\ new \in Op /\ new.pc = pc /\ new.key = k /\ new.from = op[w].from
        /\ new.chain = op[w].chain /\ new.held = op[w].held
    BY <1>1, <2>2, <2>3 DEF Op
  <2>6. new.delta <=> op[w].delta
    BY <1>1 DEF Op
  <2>7. /\ op[w].delta => op[w].from # NoBase
        /\ \A layer \in op[w].chain : layer[1] \in op[w].held /\ (locking => Stands(layer))
    BY <1>1 DEF CallInv, StepInv, HeldInv, ReadInv
  <2> HIDE DEF new
  <2>8. CASE pc = "retain"
    BY <1>1, <2>4, <2>5, <2>6, <2>7, <2>8, OnStep DEF Storing, Deleting, Looking
  <2>9. CASE pc = "check"
    BY <1>1, <2>2, <2>3, <2>4, <2>5, <2>6, <2>9, TakenStep
  <2> QED
    BY <2>3, <2>8, <2>9
<1> QED
  BY <1>2, <1>3

LEMMA WriteFailsStep ==
  ASSUME IInv, NEW w \in Worker, WriteFails(w), UNCHANGED locking
  PROVE  IInv'
<1> DEFINE retry == op[w].pc = "content" /\ ~ParentThere(w)
           new == [op[w] EXCEPT !.pc = "abort", !.retry = retry]
<1>1. /\ TypeInv /\ CallInv(w) /\ op[w] \in Op /\ op[w].pc \in {"meta", "content"}
      /\ UNCHANGED <<storeVars, db, clock, crashes, locking>>
  BY DEF IInv, TypeInv, WriteFails
<1>2. Step(w, new)
  BY DEF WriteFails
<1>3. op[w].key \in Key
  BY <1>1 DEF CallInv, StepInv
<1>4. \A r \in BOOLEAN : [op[w] EXCEPT !.pc = "abort", !.retry = r] \in Op
  BY <1>1 DEF Op, Pc, Storing
<1>5. retry \in BOOLEAN
  OBVIOUS
<1> HIDE DEF retry
<1>6. new \in Op
  BY <1>4, <1>5
<1>7. /\ new.pc = "abort" /\ new.key = op[w].key /\ new.from = op[w].from
      /\ new.chain = op[w].chain /\ new.held = op[w].held
  BY <1>1 DEF Op
<1>8. new.delta <=> op[w].delta
  BY <1>1 DEF Op
<1> HIDE DEF new
<1> QED
  BY <1>1, <1>2, <1>3, <1>6, <1>7, <1>8, TakenStep

(***************************************************************************)
(* The steps that write to the store, or remove from it                    *)
(***************************************************************************)
(* The step leaves the call with what it has, or ends it.                  *)
LEMMA ChangeStep ==
  ASSUME IInv, NEW w \in Worker, Alters(w), NEW new \in Op, Step(w, new), UNCHANGED <<db, locking>>,
         main' \in [Key -> File], meta' \in [Key -> Meta], clock' \in Nat, crashes' \in Nat,
         new.from = op[w].from \/ new.from = NoBase,
         new.delta => op[w].delta /\ new.from = op[w].from,
         new.chain = op[w].chain \/ new.chain = {},
         new.held = op[w].held \/ (new.held = {} /\ new.chain = {}),
         new.pc \in {"idle", "retain", "write", "move", "meta", "content", "abortMeta", "removeMeta"},
         new.pc \in {"idle", "retain"} \/ (new.key = op[w].key /\ new.held = op[w].held),
         new.pc \in {"write", "move"} => op[w].pc \in {"write"} \union Storing,
         new.pc \in {"meta", "content", "abortMeta"} =>
           locking /\ (op[w].pc \in Storing \/ (op[w].pc = "write" /\ CanWrite(op[w].key))),
         new.pc = "removeMeta" => locking /\ op[w].pc = "removeMain" /\ meta' = meta
                                  /\ main'[op[w].key].state # "full",
         new.pc = "meta" => main'[op[w].key] = Empty,
         new.pc = "content" => main'[op[w].key] = Empty
           /\ meta'[op[w].key] = NewMeta(w, op[w].at) /\ new = [op[w] EXCEPT !.pc = "content"],
         new.pc = "abortMeta" => main'[op[w].key].state # "full",
         new.pc = "move" => main'[op[w].key] = [state |-> "full", at |-> new.at]
  PROVE  IInv'
<1> DEFINE k == op[w].key
<1>1. TypeInv /\ CallInv(w) /\ op[w] \in Op
  BY DEF IInv, TypeInv
<1>2. op'[w] = new /\ op' \in [Worker -> Op] /\ \A v \in Worker \ {w} : op'[v] = op[v]
  BY <1>1, StepFields
<1>3. TypeInv'
  BY <1>1, <1>2 DEF TypeInv
<1>4. Aside(w)
  BY <1>2 DEF Aside
<1>5. k \in Key /\ \A j \in Key \ {k} : main'[j] = main[j] /\ meta'[j] = meta[j]
  BY DEF Alters
<1>6. Locks(w)
  <2>1. \A j \in Key : j \in Held(w)' => j \in Held(w)
    <3>1. Held(w)' = new.held \union Keys(new.from) \union Keys(db[w].base)
      BY <1>2 DEF Held, Keys
    <3>2. new.held \subseteq op[w].held
      OBVIOUS
    <3>3. Keys(new.from) \in {Keys(op[w].from), {}}
      BY Nothings
    <3> QED
      BY <3>1, <3>2, <3>3 DEF Held
  <2>2. \A j \in Key : Removing(w, j)' => Removing(w, j)
    BY <1>2 DEF Removing
  <2>3. op'[w].pc \in Storing =>
          (op[w].pc \in Storing /\ op'[w].key = op[w].key) \/ CanWrite(op'[w].key)
    BY <1>2 DEF Storing
  <2> QED
    BY <2>1, <2>2, <2>3 DEF Locks, IInv, LockInv
<1>7. StepInv(w)'
  <2>1. Named(new.from) /\ Named(db[w].base) /\ (op[w].delta => op[w].from # NoBase)
    BY <1>1, Nothings DEF CallInv, StepInv
  <2>2. new.pc \notin {"idle", "retain"} => new.key \in Key
    BY <1>5
  <2>3. new.pc \in Storing \union Deleting => locking
    BY DEF Storing, Deleting
  <2>4. new.pc \notin Looking
    BY DEF Looking
  <2> QED
    BY <1>2, <2>1, <2>2, <2>3, <2>4 DEF StepInv, Named
<1>8. HeldInv(w)'
  <2>1. new.pc \in {"write", "move", "meta", "content", "abortMeta"} => op[w].key \in op[w].held
    BY <1>1 DEF CallInv, HeldInv
  <2>2. \A layer \in new.chain : layer[1] \in new.held
    BY <1>1 DEF CallInv, HeldInv
  <2> QED
    BY <1>2, <2>1, <2>2 DEF HeldInv, Storing
<1>9. WriteInv(w)'
  <2>1. new.pc = "content" => meta'[k] = NewMeta(w, op[w].at) /\ NewMeta(w, op[w].at) = NewMeta(w, new.at)'
    <3>1. new.pc = "content" => new.at = op[w].at /\ new.top = op[w].top /\ new.from = op[w].from
                                /\ (new.delta <=> op[w].delta)
      BY <1>1 DEF Op
    <3> QED
      BY <1>2, <3>1 DEF NewMeta
  <2>2. new.pc = "removeMeta" => \A j \in Key : main'[j].state = "full" => meta'[j].parent # k
    <3> SUFFICES ASSUME new.pc = "removeMeta", NEW j \in Key, main'[j].state = "full"
                 PROVE  meta'[j].parent # k
      OBVIOUS
    <3>1. j # k /\ j \in Full
      BY <1>5 DEF Full
    <3> QED
      BY <1>1, <3>1 DEF CallInv, WriteInv, Deleting
  <2>3. new.pc \in {"meta", "content", "abort"} => main'[new.key] = Empty
    OBVIOUS
  <2>4. new.pc \in {"abortMeta", "removeMeta"} => main'[new.key].state # "full"
    OBVIOUS
  <2>5. new.pc = "content" => meta'[new.key] = NewMeta(w, new.at)'
    BY <2>1
  <2>6. new.pc \in Deleting => \A j \in Key : main'[j].state = "full" => meta'[j].parent # new.key
    BY <2>2 DEF Deleting
  <2>7. NewMeta(w, new.at)' = NewMeta(w, op[w].at)'
    BY <1>2 DEF NewMeta
  <2> QED
    BY <1>2, <2>3, <2>4, <2>5, <2>6, <2>7 DEF WriteInv, Full
<1>10. ReadInv(w)'
  <2> SUFFICES ASSUME locking
               PROVE  /\ \A layer \in db[w].base.chain \union new.from.chain \union new.chain :
                           Stands(layer)'
                      /\ new.pc = "move" => Stands(<<new.key, new.at>>)'
    BY <1>2 DEF ReadInv, Stands
  <2>1. db[w].base.chain \union op[w].from.chain \union op[w].chain \subseteq Key \X Nat
    BY <1>1 DEF TypeInv, Op, DbRecord, Base, Layers
  <2>2. \A layer \in db[w].base.chain \union op[w].from.chain \union op[w].chain :
          layer[1] # k /\ Stands(layer)
    BY <1>1, NobodyReads DEF CallInv, ReadInv
  <2>3. \A layer \in db[w].base.chain \union op[w].from.chain \union op[w].chain : Stands(layer)'
    BY <1>5, <2>1, <2>2 DEF Stands
  <2>4. db[w].base.chain \union new.from.chain \union new.chain
          \subseteq db[w].base.chain \union op[w].from.chain \union op[w].chain
    BY Nothings
  <2>5. new.pc = "move" => Stands(<<new.key, new.at>>)'
    BY DEF Stands
  <2> QED
    BY <2>3, <2>4, <2>5
<1> QED
  BY <1>3, <1>4, <1>6, <1>7, <1>8, <1>9, <1>10, StoreStep

(* What a step leaves of the store when it changes one snapshot.           *)
LEMMA Changed ==
  ASSUME TypeInv, NEW k \in Key, NEW file \in File, NEW record \in Meta,
         main' = main \/ main' = [main EXCEPT ![k] = file],
         meta' = meta \/ meta' = [meta EXCEPT ![k] = record]
  PROVE  /\ main' \in [Key -> File] /\ meta' \in [Key -> Meta]
         /\ \A j \in Key \ {k} : main'[j] = main[j] /\ meta'[j] = meta[j]
         /\ main' = [main EXCEPT ![k] = file] => main'[k] = file
         /\ meta' = [meta EXCEPT ![k] = record] => meta'[k] = record
BY DEF TypeInv

(* The metadata of a snapshot is what it lies over, which the call holds.  *)
LEMMA WrittenMeta ==
  ASSUME IInv, NEW w \in Worker, op[w].key \in Key, NEW t \in Nat
  PROVE  LET record == NewMeta(w, t) IN
         /\ record \in Meta /\ record.at = t
         /\ ParentThere(w) /\ main[op[w].key].state # "full" /\ record.parent # None =>
              /\ record.parent \in Key \ {op[w].key} /\ record.parent \in Held(w)
              /\ main[record.parent] = [state |-> "full", at |-> record.parentAt]
<1> DEFINE record == NewMeta(w, t)
<1>1. TypeInv /\ CallInv(w) /\ op[w] \in Op /\ op[w].from \in Base /\ op[w].top \in Base
  BY DEF IInv, TypeInv, Op
<1>2. /\ op[w].from.key \in Key \union {None} /\ op[w].from.at \in Nat
      /\ op[w].top.branch \in Branch \union {None} /\ op[w].delta \in BOOLEAN
  BY <1>1 DEF Base, Op
<1>3. record \in Meta /\ record.at = t
  BY <1>2 DEF NewMeta, Meta
<1>4. ASSUME ParentThere(w), main[op[w].key].state # "full", record.parent # None
      PROVE  /\ record.parent \in Key \ {op[w].key} /\ record.parent \in Held(w)
             /\ main[record.parent] = [state |-> "full", at |-> record.parentAt]
  <2>1. op[w].delta /\ record.parent = op[w].from.key /\ record.parentAt = op[w].from.at
    BY <1>4 DEF NewMeta
  <2>2. op[w].from.key \in Key /\ <<op[w].from.key, op[w].from.at>> \in op[w].from.chain
    BY <1>1, <2>1 DEF CallInv, StepInv, Named
  <2>3. main[op[w].from.key] = [state |-> "full", at |-> op[w].from.at]
    BY <1>4, <2>1 DEF ParentThere
  <2>4. op[w].from.key # op[w].key
    BY <1>4, <2>3
  <2>5. op[w].from.key \in Held(w)
    BY <2>2 DEF Held, Keys
  <2> QED
    BY <2>1, <2>2, <2>3, <2>4, <2>5
<1> QED
  BY <1>3, <1>4

(* Under the write lock of the directory store.                            *)
LEMMA WriteCreateStep ==
  ASSUME IInv, NEW w \in Worker, WriteCreate(w), UNCHANGED locking
  PROVE  IInv'
<1> DEFINE k == op[w].key
           new == [op[w] EXCEPT !.pc = "meta", !.at = clock + 1]
<1>1. /\ TypeInv /\ CallInv(w) /\ op[w] \in Op /\ clock + 1 \in Nat /\ crashes \in Nat
      /\ op[w].pc = "write" /\ locking
  BY DEF IInv, TypeInv, WriteCreate
<1>2. k \in Key
  BY <1>1 DEF CallInv, StepInv
<1>3. /\ main' \in [Key -> File] /\ meta' \in [Key -> Meta]
      /\ \A j \in Key \ {k} : main'[j] = main[j] /\ meta'[j] = meta[j]
      /\ main'[k] = Empty
  BY <1>1, <1>2, Changed, Nothings DEF WriteCreate
<1>4. main[k].state # "full" /\ CanWrite(k) /\ Step(w, new) /\ UNCHANGED <<db, locking>>
      /\ clock' = clock + 1 /\ crashes' = crashes
  BY DEF WriteCreate, Exists
<1>5. Alters(w)
  BY <1>1, <1>2, <1>3, <1>4, Nothings DEF Alters
<1>6. /\ new \in Op /\ new.pc = "meta" /\ new.key = k /\ new.from = op[w].from
      /\ new.chain = op[w].chain /\ new.held = op[w].held
  BY <1>1 DEF Op, Pc, Storing
<1>7. new.delta <=> op[w].delta
  BY <1>1 DEF Op
<1> HIDE DEF new
<1> QED
  BY <1>1, <1>3, <1>4, <1>5, <1>6, <1>7, ChangeStep

LEMMA WriteMetaStep ==
  ASSUME IInv, NEW w \in Worker, WriteMeta(w), UNCHANGED locking
  PROVE  IInv'
<1> DEFINE k == op[w].key
           record == NewMeta(w, op[w].at)
           new == [op[w] EXCEPT !.pc = "content"]
<1>1. /\ TypeInv /\ CallInv(w) /\ op[w] \in Op /\ clock \in Nat /\ crashes \in Nat
      /\ op[w].pc = "meta" /\ op[w].pc \in Storing /\ op[w].at \in Nat
  BY DEF IInv, TypeInv, WriteMeta, Storing, Op
<1>2. k \in Key /\ locking /\ main[k] = Empty
  BY <1>1 DEF CallInv, StepInv, WriteInv
<1>3. record \in Meta
  BY <1>1, <1>2, WrittenMeta
<1>4. main' = main /\ meta' = [meta EXCEPT ![k] = record] /\ Step(w, new)
      /\ UNCHANGED <<db, locking, clock, crashes>>
  BY DEF WriteMeta
<1> HIDE DEF record
<1>5. /\ main' \in [Key -> File] /\ meta' \in [Key -> Meta]
      /\ \A j \in Key \ {k} : main'[j] = main[j] /\ meta'[j] = meta[j]
      /\ meta'[k] = record
  BY <1>1, <1>2, <1>3, <1>4, Changed, Nothings
<1>6. Alters(w)
  BY <1>1, <1>2, <1>4, <1>5, Nothings DEF Alters
<1>7. /\ new \in Op /\ new.pc = "content" /\ new.key = k /\ new.from = op[w].from
      /\ new.chain = op[w].chain /\ new.held = op[w].held /\ new.at = op[w].at
  BY <1>1 DEF Op, Pc, Storing
<1>8. new.delta <=> op[w].delta
  BY <1>1 DEF Op
<1>9. new = [op[w] EXCEPT !.pc = "content"] /\ meta'[k] = NewMeta(w, op[w].at)
  BY <1>5 DEF record
<1> HIDE DEF new
<1> QED
  BY <1>1, <1>2, <1>4, <1>5, <1>6, <1>7, <1>8, <1>9, ChangeStep

LEMMA WriteContentStep ==
  ASSUME IInv, NEW w \in Worker, WriteContent(w), UNCHANGED locking
  PROVE  IInv'
<1> DEFINE k == op[w].key
           file == [state |-> "full", at |-> op[w].at]
           record == NewMeta(w, op[w].at)
           new == [op[w] EXCEPT !.pc = "move"]
<1>1. /\ TypeInv /\ CallInv(w) /\ op[w] \in Op /\ clock \in Nat /\ crashes \in Nat
      /\ op[w].pc = "content" /\ op[w].pc \in Storing /\ op[w].at \in Nat
  BY DEF IInv, TypeInv, WriteContent, Storing, Op
<1>2. k \in Key /\ locking /\ main[k] = Empty /\ main[k].state # "full" /\ meta[k] = record
  BY <1>1, Nothings DEF CallInv, StepInv, WriteInv
<1>3. file \in File /\ file.state = "full" /\ file.at = op[w].at
  BY <1>1 DEF File
<1>4. main' = [main EXCEPT ![k] = file] /\ meta' = meta /\ Step(w, new) /\ ParentThere(w)
      /\ UNCHANGED <<db, locking, clock, crashes>>
  BY DEF WriteContent
<1>5. /\ main' \in [Key -> File] /\ meta' \in [Key -> Meta]
      /\ \A j \in Key \ {k} : main'[j] = main[j] /\ meta'[j] = meta[j]
      /\ main'[k] = file
  BY <1>1, <1>2, <1>3, <1>4, Changed, Nothings
<1>6. /\ meta[k].at = op[w].at
      /\ meta[k].parent # None =>
           /\ meta[k].parent \in Key \ {k} /\ meta[k].parent \in Held(w)
           /\ main[meta[k].parent] = [state |-> "full", at |-> meta[k].parentAt]
  BY <1>1, <1>2, <1>4, WrittenMeta
<1>7. Alters(w)
  <2> HIDE DEF file, record
  <2> QED
    BY <1>1, <1>2, <1>3, <1>4, <1>5, <1>6 DEF Alters
<1>8. /\ new \in Op /\ new.pc = "move" /\ new.key = k /\ new.from = op[w].from
      /\ new.chain = op[w].chain /\ new.held = op[w].held /\ new.at = op[w].at
  BY <1>1 DEF Op, Pc, Storing
<1>9. new.delta <=> op[w].delta
  BY <1>1 DEF Op
<1> HIDE DEF new, record
<1> QED
  BY <1>1, <1>2, <1>4, <1>5, <1>7, <1>8, <1>9, ChangeStep

LEMMA AbortStep ==
  ASSUME IInv, NEW w \in Worker, WriteAbort(w) \/ WriteAbortMeta(w), UNCHANGED locking
  PROVE  IInv'
<1> DEFINE k == op[w].key
<1>1. /\ TypeInv /\ CallInv(w) /\ op[w] \in Op /\ clock \in Nat /\ crashes \in Nat
      /\ op[w].pc \in {"abort", "abortMeta"} /\ op[w].pc \in Storing
      /\ UNCHANGED <<db, locking, clock, crashes>>
  BY DEF IInv, TypeInv, WriteAbort, WriteAbortMeta, Storing
<1>2. k \in Key /\ locking /\ main[k].state # "full"
  BY <1>1, Nothings DEF CallInv, StepInv, WriteInv
<1>3. CASE WriteAbort(w)
  <2> DEFINE new == [op[w] EXCEPT !.pc = "abortMeta"]
  <2>1. main' = [main EXCEPT ![k] = NoFile] /\ meta' = meta /\ Step(w, new)
    BY <1>3 DEF WriteAbort
  <2>2. /\ main' \in [Key -> File] /\ meta' \in [Key -> Meta]
        /\ \A j \in Key \ {k} : main'[j] = main[j] /\ meta'[j] = meta[j]
        /\ main'[k] = NoFile
    BY <1>1, <1>2, <2>1, Changed, Nothings
  <2>3. Alters(w)
    BY <1>1, <1>2, <2>2, Nothings DEF Alters
  <2>4. /\ new \in Op /\ new.pc = "abortMeta" /\ new.key = k /\ new.from = op[w].from
        /\ new.chain = op[w].chain /\ new.held = op[w].held
    BY <1>1 DEF Op, Pc, Storing
  <2>5. new.delta <=> op[w].delta
    BY <1>1 DEF Op
  <2> HIDE DEF new
  <2> QED
    BY <1>1, <1>2, <2>1, <2>2, <2>3, <2>4, <2>5, ChangeStep, Nothings
<1>4. CASE WriteAbortMeta(w)
  <2>1. main' = main /\ meta' = [meta EXCEPT ![k] = NoMeta]
    BY <1>4 DEF WriteAbortMeta
  <2>2. /\ main' \in [Key -> File] /\ meta' \in [Key -> Meta]
        /\ \A j \in Key \ {k} : main'[j] = main[j] /\ meta'[j] = meta[j]
    BY <1>1, <1>2, <2>1, Changed, Nothings
  <2>3. Alters(w)
    BY <1>1, <1>2, <2>1, <2>2 DEF Alters
  <2>4. CASE Done(w)
    BY <1>1, <1>2, <2>2, <2>3, <2>4, ChangeStep, Nothings DEF Done
  <2>5. CASE Step(w, [op[w] EXCEPT !.pc = "write", !.at = 0, !.delta = FALSE, !.retry = FALSE])
    <3>1. \A d, r \in BOOLEAN : LET o == [op[w] EXCEPT !.pc = "write", !.at = 0, !.delta = d, !.retry = r] IN
            /\ o \in Op /\ o.pc = "write" /\ o.key = k /\ o.from = op[w].from
            /\ o.chain = op[w].chain /\ o.held = op[w].held /\ (o.delta <=> d)
      BY <1>1 DEF Op, Pc
    <3>2. PICK d, r \in BOOLEAN :
            ~d /\ Step(w, [op[w] EXCEPT !.pc = "write", !.at = 0, !.delta = d, !.retry = r])
      BY <2>5, Zenon
    <3> DEFINE new == [op[w] EXCEPT !.pc = "write", !.at = 0, !.delta = d, !.retry = r]
    <3>3. /\ new \in Op /\ new.pc = "write" /\ new.key = k /\ new.from = op[w].from
          /\ new.chain = op[w].chain /\ new.held = op[w].held /\ ~new.delta
      BY <3>1, <3>2
    <3>4. Step(w, new)
      BY <3>2
    <3> HIDE DEF new
    <3> QED
      BY <1>1, <1>2, <2>2, <2>3, <3>3, <3>4, ChangeStep
  <2> QED
    BY <1>4, <2>4, <2>5 DEF WriteAbortMeta
<1> QED
  BY <1>3, <1>4

(* The IndexedDB store, in one transaction.                                *)
LEMMA WriteRecordStep ==
  ASSUME IInv, NEW w \in Worker, WriteRecord(w), UNCHANGED locking
  PROVE  IInv'
<1> DEFINE k == op[w].key
<1>1. /\ TypeInv /\ CallInv(w) /\ op[w] \in Op /\ clock + 1 \in Nat /\ clock \in Nat
      /\ crashes \in Nat /\ op[w].pc = "write" /\ ~locking /\ main[k].state # "full"
      /\ UNCHANGED <<db, crashes, locking>>
  BY DEF IInv, TypeInv, WriteRecord, Exists
<1>2. k \in Key /\ op[w].key \in op[w].held
  BY <1>1 DEF CallInv, StepInv, HeldInv
<1>3. CASE ParentThere(w)
  <2> DEFINE t == clock + 1
             file == [state |-> "full", at |-> t]
             record == NewMeta(w, t)
             new == [op[w] EXCEPT !.pc = "move", !.at = t]
  <2>1. /\ clock' = t /\ main' = [main EXCEPT ![k] = file] /\ meta' = [meta EXCEPT ![k] = record]
        /\ Step(w, new)
    BY <1>3 DEF WriteRecord
  <2>2. file \in File /\ file.state = "full" /\ file.at = t
    BY <1>1 DEF File
  <2>3. /\ record \in Meta /\ record.at = t
        /\ record.parent # None =>
             /\ record.parent \in Key \ {k} /\ record.parent \in Held(w)
             /\ main[record.parent] = [state |-> "full", at |-> record.parentAt]
    BY <1>1, <1>2, <1>3, WrittenMeta
  <2> HIDE DEF record
  <2>4. /\ main' \in [Key -> File] /\ meta' \in [Key -> Meta]
        /\ \A j \in Key \ {k} : main'[j] = main[j] /\ meta'[j] = meta[j]
        /\ main'[k] = file /\ meta'[k] = record
    BY <1>1, <1>2, <2>1, <2>2, <2>3, Changed
  <2>5. Alters(w)
    <3> HIDE DEF file
    <3> QED
      BY <1>1, <1>2, <2>2, <2>3, <2>4 DEF Alters
  <2>6. /\ new \in Op /\ new.pc = "move" /\ new.key = k /\ new.from = op[w].from
        /\ new.chain = op[w].chain /\ new.held = op[w].held /\ new.at = t
    BY <1>1 DEF Op, Pc
  <2>7. new.delta <=> op[w].delta
    BY <1>1 DEF Op
  <2> HIDE DEF new
  <2> QED
    BY <1>1, <2>1, <2>4, <2>5, <2>6, <2>7, ChangeStep
<1>4. CASE ~ParentThere(w)
  <2>1. Step(w, [op[w] EXCEPT !.delta = FALSE]) /\ UNCHANGED <<storeVars, db, clock, crashes, locking>>
    BY <1>1, <1>4 DEF WriteRecord
  <2>2. \A d \in BOOLEAN : LET o == [op[w] EXCEPT !.delta = d] IN
          /\ o \in Op /\ o.pc = "write" /\ o.key = k /\ o.from = op[w].from
          /\ o.chain = op[w].chain /\ o.held = op[w].held /\ (o.delta <=> d)
    BY <1>1 DEF Op
  <2>3. PICK d \in BOOLEAN : ~d /\ Step(w, [op[w] EXCEPT !.delta = d])
    BY <2>1, Zenon
  <2> DEFINE new == [op[w] EXCEPT !.delta = d]
  <2>4. /\ new \in Op /\ new.pc = "write" /\ new.key = k /\ new.from = op[w].from
        /\ new.chain = op[w].chain /\ new.held = op[w].held /\ ~new.delta
    BY <2>2, <2>3
  <2>5. Step(w, new)
    BY <2>3
  <2>6. \A layer \in op[w].chain : layer[1] \in op[w].held /\ (locking => Stands(layer))
    BY <1>1 DEF CallInv, HeldInv, ReadInv
  <2> HIDE DEF new
  <2> QED
    BY <1>2, <2>1, <2>4, <2>5, <2>6, OnStep DEF Storing, Deleting, Looking
<1> QED
  BY <1>3, <1>4

(* retain deletes a snapshot, unless one lies over it.                     *)
LEMMA RemoveStep ==
  ASSUME IInv, NEW w \in Worker, RemoveMain(w) \/ RemoveMeta(w), UNCHANGED locking
  PROVE  IInv'
<1> DEFINE k == op[w].key
<1>1. /\ TypeInv /\ CallInv(w) /\ op[w] \in Op /\ clock \in Nat /\ crashes \in Nat
      /\ op[w].pc \in {"removeMain", "removeMeta"} /\ op[w].pc \in Deleting
      /\ UNCHANGED <<db, locking, clock, crashes>>
  BY DEF IInv, TypeInv, RemoveMain, RemoveMeta, Deleting
<1>2. k \in Key /\ locking
  BY <1>1 DEF CallInv, StepInv
<1>3. CASE RemoveMain(w)
  <2> DEFINE new == [op[w] EXCEPT !.pc = "removeMeta"]
  <2>1. /\ main' = [main EXCEPT ![k] = NoFile] /\ meta' = meta /\ Step(w, new)
        /\ op[w].pc = "removeMain"
    BY <1>3 DEF RemoveMain
  <2>2. /\ main' \in [Key -> File] /\ meta' \in [Key -> Meta]
        /\ \A j \in Key \ {k} : main'[j] = main[j] /\ meta'[j] = meta[j]
        /\ main'[k] = NoFile
    BY <1>1, <1>2, <2>1, Changed, Nothings
  <2>3. Alters(w)
    BY <1>1, <1>2, <2>2, Nothings DEF Alters
  <2>4. /\ new \in Op /\ new.pc = "removeMeta" /\ new.key = k /\ new.from = op[w].from
        /\ new.chain = op[w].chain /\ new.held = op[w].held
    BY <1>1 DEF Op, Pc, Deleting
  <2>5. new.delta <=> op[w].delta
    BY <1>1 DEF Op
  <2> HIDE DEF new
  <2> QED
    BY <1>1, <1>2, <2>1, <2>2, <2>3, <2>4, <2>5, ChangeStep, Nothings
<1>4. CASE RemoveMeta(w)
  <2> DEFINE new == [op[w] EXCEPT !.pc = "retain"]
  <2>1. /\ main' = main /\ meta' = [meta EXCEPT ![k] = NoMeta] /\ Step(w, new)
        /\ op[w].pc = "removeMeta"
    BY <1>4 DEF RemoveMeta
  <2>2. /\ main' \in [Key -> File] /\ meta' \in [Key -> Meta]
        /\ \A j \in Key \ {k} : main'[j] = main[j] /\ meta'[j] = meta[j]
    BY <1>1, <1>2, <2>1, Changed, Nothings
  <2>3. main[k].state # "full"
    BY <1>1, <2>1 DEF CallInv, WriteInv
  <2>4. Alters(w)
    BY <1>1, <1>2, <2>1, <2>2, <2>3 DEF Alters
  <2>5. /\ new \in Op /\ new.pc = "retain" /\ new.from = op[w].from
        /\ new.chain = op[w].chain /\ new.held = op[w].held
    BY <1>1 DEF Op, Pc
  <2>6. new.delta <=> op[w].delta
    BY <1>1 DEF Op
  <2> HIDE DEF new
  <2> QED
    BY <1>1, <2>2, <2>4, <2>1, <2>5, <2>6, ChangeStep
<1> QED
  BY <1>3, <1>4

LEMMA RemoveCheckStep ==
  ASSUME IInv, NEW w \in Worker, RemoveCheck(w), UNCHANGED locking
  PROVE  IInv'
<1> DEFINE k == op[w].key
           pc == IF locking /\ ~LiesOver(k) THEN "removeMain" ELSE "retain"
           new == [op[w] EXCEPT !.pc = pc]
<1>1. /\ TypeInv /\ CallInv(w) /\ op[w] \in Op /\ clock \in Nat /\ crashes \in Nat
      /\ op[w].pc = "check" /\ UNCHANGED <<db, locking, clock, crashes>> /\ Step(w, new)
  BY DEF IInv, TypeInv, RemoveCheck
<1>2. k \in Key
  BY <1>1 DEF CallInv, StepInv
<1>3. pc \in Pc
  BY DEF Pc, Deleting
<1> HIDE DEF pc
<1>4. /\ new \in Op /\ new.pc = pc /\ new.key = k /\ new.from = op[w].from
      /\ new.chain = op[w].chain /\ new.held = op[w].held
  BY <1>1, <1>3 DEF Op
<1>5. new.delta <=> op[w].delta
  BY <1>1 DEF Op
<1>6. /\ op[w].delta => op[w].from # NoBase
      /\ \A layer \in op[w].chain : layer[1] \in op[w].held /\ (locking => Stands(layer))
  BY <1>1 DEF CallInv, StepInv, HeldInv, ReadInv
<1> HIDE DEF new
<1>7. CASE LiesOver(k)
  <2>1. UNCHANGED storeVars /\ pc = "retain"
    BY <1>7 DEF RemoveCheck, pc
  <2> QED
    BY <1>1, <1>4, <1>5, <1>6, <2>1, OnStep DEF Storing, Deleting, Looking
<1>8. CASE locking /\ ~LiesOver(k)
  <2>1. UNCHANGED storeVars /\ pc = "removeMain"
    BY <1>8 DEF RemoveCheck, pc
  <2> QED
    BY <1>1, <1>2, <1>4, <1>5, <1>8, <2>1, TakenStep
<1>9. CASE ~locking /\ ~LiesOver(k)
  <2>1. /\ main' = [main EXCEPT ![k] = NoFile] /\ meta' = [meta EXCEPT ![k] = NoMeta]
        /\ pc = "retain"
    BY <1>9 DEF RemoveCheck, pc
  <2>2. /\ main' \in [Key -> File] /\ meta' \in [Key -> Meta]
        /\ \A j \in Key \ {k} : main'[j] = main[j] /\ meta'[j] = meta[j]
        /\ main'[k] = NoFile
    BY <1>1, <1>2, <2>1, Changed, Nothings
  <2>3. Alters(w)
    BY <1>2, <1>9, <2>2, Nothings DEF Alters
  <2> QED
    BY <1>1, <1>4, <1>5, <2>1, <2>2, <2>3, ChangeStep
<1> QED
  BY <1>7, <1>8, <1>9

(***************************************************************************)
(* Every step, and the theorems                                            *)
(***************************************************************************)
LEMMA InitIInv == Init => IInv
<1> SUFFICES ASSUME Init PROVE IInv
  OBVIOUS
<1>1. TypeInv
  BY Nothings, LockingsAssumption DEF Init, TypeInv
<1>2. ASSUME NEW w \in Worker
      PROVE  CallInv(w) /\ Held(w) = {} /\ op[w].pc = "idle"
  <2>1. op[w] = Idle /\ db[w] = Closed
    BY DEF Init
  <2>2. StepInv(w) /\ HeldInv(w) /\ WriteInv(w) /\ ReadInv(w)
    BY <2>1, Nothings
    DEF StepInv, HeldInv, WriteInv, ReadInv, Storing, Deleting, Looking
  <2> QED
    BY <2>1, <2>2, Nothings DEF CallInv, Held
<1>3. LockInv
  BY <1>2 DEF LockInv, Removing, Storing
<1>4. ChainsAreWhole
  BY Nothings DEF Init, ChainsAreWhole, Full
<1> QED
  BY <1>1, <1>2, <1>3, <1>4 DEF IInv

LEMMA IInvKept == IInv /\ [Next]_vars => IInv'
<1> SUFFICES ASSUME IInv, [Next]_vars PROVE IInv'
  OBVIOUS
<1>1. CASE UNCHANGED vars
  <2>1. UNCHANGED <<main, meta, db, op, clock, crashes, locking>>
    BY <1>1 DEF vars
  <2>2. TypeInv'
    BY <2>1 DEF IInv, TypeInv
  <2>3. LockInv' /\ ChainsAreWhole'
    BY <2>1 DEF IInv, LockInv, Removing, Held, Keys, ChainsAreWhole, Full
  <2>4. ASSUME NEW w \in Worker PROVE CallInv(w)'
    <3>1. StepInv(w)' /\ HeldInv(w)' /\ WriteInv(w)' /\ ReadInv(w)'
      BY <2>1 DEF IInv, CallInv, StepInv, HeldInv, WriteInv, NewMeta, Full, ReadInv, Stands
    <3> QED
      BY <3>1 DEF CallInv
  <2> QED
    BY <2>2, <2>3, <2>4 DEF IInv
<1>2. ASSUME NEW w \in Worker, Call(w) PROVE IInv'
  <2>1. UNCHANGED locking
    BY <1>2 DEF Call
  <2>2. ASSUME NEW k \in Key, Open(w, k) \/ Save(w, k) PROVE IInv'
    BY <2>1, <2>2, OpenStep
  <2>3. ASSUME NEW b \in Branch, OpenEmpty(w, b) PROVE IInv'
    BY <2>1, <2>3, DbStep
  <2>4. CASE Close(w)
    BY <2>1, <2>4, DbStep
  <2>5. CASE Retain(w)
    BY <2>1, <2>5, OpenStep
  <2>6. CASE Crash(w)
    BY <2>1, <2>6, FinishStep
  <2> QED
    BY <1>2, <2>2, <2>3, <2>4, <2>5, <2>6 DEF Call
<1>3. ASSUME NEW w \in Worker, Continue(w) PROVE IInv'
  <2>1. UNCHANGED locking
    BY <1>3 DEF Continue
  <2>2. CASE Hold(w) \/ SaveHold(w)
    BY <2>1, <2>2, HoldStep
  <2>3. CASE GetLayer(w)
    BY <2>1, <2>3, GetLayerStep
  <2>4. CASE GetLast(w) \/ GetMissing(w) \/ MoveWritten(w) \/ MoveJoined(w)
    BY <2>1, <2>4, FinishStep
  <2>5. CASE WriteCreate(w)
    BY <2>1, <2>5, WriteCreateStep
  <2>6. CASE WriteMeta(w)
    BY <2>1, <2>6, WriteMetaStep
  <2>7. CASE WriteContent(w)
    BY <2>1, <2>7, WriteContentStep
  <2>8. CASE WriteFails(w)
    BY <2>1, <2>8, WriteFailsStep
  <2>9. CASE WriteAbort(w) \/ WriteAbortMeta(w)
    BY <2>1, <2>9, AbortStep
  <2>10. CASE WriteRecord(w)
    BY <2>1, <2>10, WriteRecordStep
  <2>11. CASE WriteFound(w)
    BY <2>1, <2>11, WriteFoundStep
  <2>12. CASE RetainNext(w)
    BY <2>1, <2>12, RetainNextStep
  <2>13. CASE RemoveCheck(w)
    BY <2>1, <2>13, RemoveCheckStep
  <2>14. CASE RemoveMain(w) \/ RemoveMeta(w)
    BY <2>1, <2>14, RemoveStep
  <2> QED
    BY <1>3, <2>2, <2>3, <2>4, <2>5, <2>6, <2>7, <2>8, <2>9, <2>10, <2>11, <2>12, <2>13, <2>14
    DEF Continue
<1> QED
  BY <1>1, <1>2, <1>3 DEF Next

LEMMA Invariant == Spec => []IInv
BY InitIInv, IInvKept, PTL DEF Spec

(* Whatever the Workers do, and wherever they end: the store, the databases *)
(* and the calls under way have their types.                               *)
THEOREM TypeCorrect == Spec => []TypeOK
<1>1. IInv => TypeOK
  <2> SUFFICES ASSUME IInv PROVE TypeOK
    OBVIOUS
  <2>1. TypeInv
    BY DEF IInv
  <2>2. ASSUME NEW w \in Worker
        PROVE  /\ db[w].open \in BOOLEAN /\ db[w].branch \in Branch \union {None}
               /\ db[w].base \in Base /\ op[w].from \in Base /\ op[w].top \in Base
               /\ op[w].key \in Key \union {None} /\ op[w].at \in Nat
               /\ op[w].held \in SUBSET Key /\ op[w].plan \in SUBSET Key
    <3>1. db[w] \in DbRecord /\ op[w] \in Op
      BY <2>1 DEF TypeInv
    <3>2. db[w].open \in BOOLEAN /\ db[w].branch \in Branch \union {None} /\ db[w].base \in Base
      BY <3>1 DEF DbRecord
    <3> QED
      BY <3>1, <3>2 DEF Op
  <2> QED
    BY <2>1, <2>2 DEF TypeInv, TypeOK
<1> QED
  BY <1>1, Invariant, PTL

(* A snapshot that can be read has its own metadata, and the one it lies   *)
(* over is there, whole, and the one it was written over: no save, no      *)
(* retain and no Worker that ends leaves a snapshot without what it needs. *)
THEOREM ChainsStayWhole == Spec => []ChainsAreWhole
<1>1. IInv => ChainsAreWhole
  BY DEF IInv
<1> QED
  BY <1>1, Invariant, PTL

(* With locks, what a database or a fork that is saved reads stays in the  *)
(* store, and is what it was, for as long as it is read.                   *)
THEOREM ReadersStaySafe == Spec => []ReadersKeepTheirFiles
<1>1. IInv => ReadersKeepTheirFiles
  BY DEF IInv, CallInv, ReadInv, Stands, ReadersKeepTheirFiles
<1> QED
  BY <1>1, Invariant, PTL

(***************************************************************************)
(* What is read is a whole chain                                           *)
(***************************************************************************)
(* What a layer lies over is in the chain too, or is `under'.               *)
Linked(records, chain, under) == \A layer \in chain :
  LET m == records[layer[1]]
  IN  m.parent \in {None, under} \/ <<m.parent, m.parentAt>> \in chain

JustWritten(w) == Below(w) \union {<<op[w].key, op[w].at>>}

ChainInv(w) ==
  /\ Linked(meta, db[w].base.chain, None) /\ Linked(meta, op[w].from.chain, None)
  /\ op[w].pc \in Looking => Linked(meta, op[w].chain, op[w].key)
  /\ op[w].pc \notin Looking => op[w].chain = {}
  /\ op[w].pc = "move" => Linked(meta, JustWritten(w), None)

LinkInv == locking => \A w \in Worker : ChainInv(w)

(* The layers of a chain, with what the store says of them. *)
WholeChain(chain) ==
  chain \in Layers /\ Linked(meta, chain, None) /\ \A layer \in chain : Stands(layer)

(* A Worker changes its own call and database only. *)
LEMMA WorkerStep ==
  ASSUME IInv, NEW w \in Worker, Call(w) \/ Continue(w), NEW v \in Worker, v # w
  PROVE  op'[v] = op[v] /\ db'[v] = db[v] /\ locking' = locking
<1>1. locking' = locking
  BY DEF Call, Continue
<1>2. op \in [Worker -> Op] /\ db \in [Worker -> DbRecord]
  BY DEF IInv, TypeInv
<1>3. op'[v] = op[v]
  <2>1. op' = op \/ \E new : Step(w, new)
    <3>1. CASE Call(w)
      BY <3>1, Zenon DEF Call, Open, Save, OpenEmpty, Close, Retain, Crash, Done
    <3>2. CASE Hold(w) \/ GetLayer(w) \/ GetLast(w) \/ GetMissing(w) \/ SaveHold(w)
      BY <3>2, Zenon DEF Hold, GetLayer, GetLast, GetMissing, SaveHold, Done
    <3>3. CASE WriteCreate(w) \/ WriteMeta(w) \/ WriteContent(w) \/ WriteFails(w) \/ WriteAbort(w)
      BY <3>3, Zenon DEF WriteCreate, WriteMeta, WriteContent, WriteFails, WriteAbort
    <3>4. CASE WriteAbortMeta(w)
      BY <3>4, Zenon DEF WriteAbortMeta, Done
    <3>5. CASE WriteRecord(w) \/ MoveWritten(w) \/ MoveJoined(w)
      BY <3>5, Zenon DEF WriteRecord, MoveWritten, MoveJoined, Move, Done
    <3>6. CASE WriteFound(w)
      BY <3>6, Zenon DEF WriteFound, Done
    <3>7. CASE RetainNext(w)
      BY <3>7, Zenon DEF RetainNext, Done
    <3>8. CASE RemoveCheck(w) \/ RemoveMain(w) \/ RemoveMeta(w)
      BY <3>8, Zenon DEF RemoveCheck, RemoveMain, RemoveMeta
    <3> QED
      BY <3>1, <3>2, <3>3, <3>4, <3>5, <3>6, <3>7, <3>8 DEF Continue
  <2> QED
    BY <1>2, <2>1 DEF Step
<1>4. db'[v] = db[v]
  <2>1. db' = db \/ \E d : db' = [db EXCEPT ![w] = d]
    <3>1. CASE Call(w)
      BY <3>1, Zenon DEF Call, Open, Save, OpenEmpty, Close, Retain, Crash
    <3>2. CASE GetLast(w)
      BY <3>2, Zenon DEF GetLast
    <3>3. CASE MoveWritten(w) \/ MoveJoined(w)
      <4>1. ASSUME NEW base, Move(w, base) PROVE db' = db \/ \E d : db' = [db EXCEPT ![w] = d]
        <5>1. db' = db \/ db' = [db EXCEPT ![w] = [db[w] EXCEPT !.base = base]]
          BY <1>2, <4>1 DEF Move
        <5> QED
          BY <5>1
      <4> QED
        BY <3>3, <4>1 DEF MoveWritten, MoveJoined
    <3>4. CASE Continue(w) /\ ~(GetLast(w) \/ MoveWritten(w) \/ MoveJoined(w))
      BY <3>4 DEF Continue, Hold, GetLayer, GetMissing, SaveHold, WriteCreate, WriteMeta, WriteContent,
                  WriteFails, WriteAbort, WriteAbortMeta, WriteRecord, WriteFound, RetainNext,
                  RemoveCheck, RemoveMain, RemoveMeta
    <3> QED
      BY <3>1, <3>2, <3>3, <3>4
  <2> QED
    BY <1>2, <2>1
<1> QED
  BY <1>1, <1>3, <1>4

(***************************************************************************)
(* The steps that write to the store                                       *)
(***************************************************************************)
Stores(w) ==
  \/ WriteCreate(w) \/ WriteMeta(w) \/ WriteContent(w) \/ WriteAbort(w) \/ WriteAbortMeta(w)
  \/ WriteRecord(w) /\ ParentThere(w)
  \/ RemoveCheck(w) /\ ~locking /\ ~LiesOver(op[w].key)
  \/ RemoveMain(w) \/ RemoveMeta(w)

(* A snapshot appears or goes, and then nothing else happens, or is as it was. *)
Touches(w) ==
  LET k == op[w].key IN
  /\ Alters(w) /\ ~(main[k].state = "full" /\ main'[k].state = "full")
  /\ main[k].state = "full" \/ main'[k].state = "full" =>
       db'[w] = db[w] /\ op'[w].from = op[w].from

LEMMA OthersLeaveTheStore ==
  ASSUME NEW w \in Worker, Call(w) \/ Continue(w), ~Stores(w)
  PROVE  UNCHANGED <<main, meta>>
<1>1. CASE Call(w)
  BY <1>1 DEF Call, Open, Save, OpenEmpty, Close, Retain, Crash, storeVars
<1>2. CASE WriteRecord(w) /\ ~ParentThere(w)
  BY <1>2 DEF WriteRecord, storeVars
<1>3. CASE RemoveCheck(w) /\ (locking \/ LiesOver(op[w].key))
  BY <1>3 DEF RemoveCheck, storeVars
<1>4. CASE Continue(w) /\ ~WriteRecord(w) /\ ~RemoveCheck(w)
  BY <1>4 DEF Continue, Stores, Hold, GetLayer, GetLast, GetMissing, SaveHold, WriteFails,
              MoveWritten, MoveJoined, WriteFound, RetainNext, storeVars
<1> QED
  BY <1>1, <1>2, <1>3, <1>4 DEF Stores

LEMMA Touching ==
  ASSUME IInv, NEW w \in Worker, Stores(w), UNCHANGED locking
  PROVE  Touches(w)
<1> DEFINE k == op[w].key
<1>1. /\ TypeInv /\ CallInv(w) /\ op[w] \in Op /\ op[w].at \in Nat /\ clock + 1 \in Nat
      /\ main \in [Key -> File] /\ meta \in [Key -> Meta]
  BY DEF IInv, TypeInv, Op
<1>2. k \in Key
  BY <1>1 DEF CallInv, StepInv, Stores, WriteCreate, WriteMeta, WriteContent, WriteAbort,
              WriteAbortMeta, WriteRecord, RemoveCheck, RemoveMain, RemoveMeta
<1>3. CASE WriteCreate(w) \/ WriteMeta(w) \/ WriteAbort(w) \/ WriteAbortMeta(w) \/ RemoveMeta(w)
  <2>1. /\ main[k].state # "full"
        /\ op[w].pc \in Storing \/ (op[w].pc = "write" /\ CanWrite(k)) \/ op[w].pc \in Deleting
    BY <1>1, <1>3, Nothings DEF CallInv, WriteInv, Storing, Deleting, WriteCreate, Exists, WriteMeta,
                                WriteAbort, WriteAbortMeta, RemoveMeta
  <2>2. locking
    BY <1>1, <1>3 DEF CallInv, StepInv, Storing, Deleting, WriteCreate, WriteMeta, WriteAbort,
                      WriteAbortMeta, RemoveMeta
  <2>3. \E record : meta' = meta \/ meta' = [meta EXCEPT ![k] = record]
    BY <1>3, Zenon DEF WriteCreate, WriteMeta, WriteAbort, WriteAbortMeta, RemoveMeta
  <2>4. main' = main \/ main' = [main EXCEPT ![k] = Empty] \/ main' = [main EXCEPT ![k] = NoFile]
    BY <1>3 DEF WriteCreate, WriteMeta, WriteAbort, WriteAbortMeta, RemoveMeta
  <2>5. main'[k].state # "full" /\ \A j \in Key \ {k} : main'[j] = main[j] /\ meta'[j] = meta[j]
    BY <1>1, <1>2, <2>1, <2>3, <2>4, Nothings
  <2> QED
    BY <1>2, <2>1, <2>2, <2>5 DEF Touches, Alters
<1>4. CASE RemoveMain(w) \/ (RemoveCheck(w) /\ ~locking /\ ~LiesOver(k))
  <2>1. /\ \A j \in Key \ {k} : main'[j] = main[j] /\ meta'[j] = meta[j]
        /\ main'[k] = NoFile /\ db' = db
    BY <1>1, <1>2, <1>4, Nothings DEF RemoveMain, RemoveCheck
  <2>2. op'[w].from = op[w].from
    BY <1>1, <1>4, StepFields DEF Op, RemoveMain, RemoveCheck
  <2>3. (op[w].pc \in Deleting /\ locking) \/ (~locking /\ ~LiesOver(k))
    BY <1>1, <1>4 DEF CallInv, StepInv, Deleting, RemoveMain
  <2> QED
    BY <1>2, <2>1, <2>2, <2>3, Nothings DEF Touches, Alters
<1>5. CASE WriteContent(w) \/ (WriteRecord(w) /\ ParentThere(w))
  <2>1. PICK t \in Nat : /\ main' = [main EXCEPT ![k] = [state |-> "full", at |-> t]]
                         /\ meta' = [meta EXCEPT ![k] = NewMeta(w, t)]
    <3>1. CASE WriteContent(w)
      <4>1. meta[k] = NewMeta(w, op[w].at)
        BY <1>1, <3>1 DEF WriteContent, CallInv, WriteInv
      <4>2. meta = [meta EXCEPT ![k] = NewMeta(w, op[w].at)]
        BY <1>1, <4>1
      <4> QED
        BY <1>1, <3>1, <4>2 DEF WriteContent
    <3> QED
      BY <1>1, <1>5, <3>1 DEF WriteRecord
  <2>2. main[k].state # "full"
    BY <1>1, <1>5, Nothings DEF WriteContent, WriteRecord, Exists, CallInv, WriteInv
  <2>3. ParentThere(w)
    BY <1>5 DEF WriteContent
  <2> DEFINE record == NewMeta(w, t)
  <2>4. /\ record.at = t
        /\ record.parent # None =>
             /\ record.parent \in Key \ {k} /\ record.parent \in Held(w)
             /\ main[record.parent] = [state |-> "full", at |-> record.parentAt]
    BY <1>2, <2>1, <2>2, <2>3, WrittenMeta
  <2> HIDE DEF record
  <2>5. /\ \A j \in Key \ {k} : main'[j] = main[j] /\ meta'[j] = meta[j]
        /\ main'[k] = [state |-> "full", at |-> t] /\ meta'[k] = record
    BY <1>1, <1>2, <2>1 DEF record
  <2>6. db' = db /\ op'[w].from = op[w].from
    <3>1. db' = db
      BY <1>5 DEF WriteContent, WriteRecord
    <3>2. op'[w].from = op[w].from
      <4>1. PICK p, i : Step(w, [op[w] EXCEPT !.pc = p, !.at = i])
        <5>1. CASE WriteContent(w)
          <6>1. [op[w] EXCEPT !.pc = "move"] = [op[w] EXCEPT !.pc = "move", !.at = op[w].at]
            BY <1>1 DEF Op
          <6> QED
            BY <5>1, <6>1 DEF WriteContent
        <5>2. CASE WriteRecord(w)
          BY <2>3, <5>2, Zenon DEF WriteRecord
        <5> QED
          BY <1>5, <5>1, <5>2
      <4>2. op'[w] = [op[w] EXCEPT !.pc = p, !.at = i]
        BY <1>1, <4>1, StepFields, Zenon
      <4> QED
        BY <1>1, <4>2 DEF Op
    <3> QED
      BY <3>1, <3>2
  <2>7. (locking /\ op[w].pc \in Storing) \/ ~locking
    BY <1>1, <1>5 DEF CallInv, StepInv, Storing, WriteContent, WriteRecord
  <2> QED
    BY <1>2, <2>2, <2>4, <2>5, <2>6, <2>7 DEF Touches, Alters
<1> QED
  BY <1>3, <1>4, <1>5 DEF Stores

(***************************************************************************)
(* Chains stay linked                                                      *)
(***************************************************************************)
(* What the store says of what is read, saved, resolved or just written. *)
LEMMA LinksStay ==
  ASSUME IInv, NEW w \in Worker, Call(w) \/ Continue(w), locking, NEW v \in Worker,
         NEW chain, NEW under, Linked(meta, chain, under),
         chain \in {db[v].base.chain, op[v].from.chain, op[v].chain}
           \/ (op[v].pc = "move" /\ chain = JustWritten(v))
  PROVE  Linked(meta', chain, under)
<1>1. CASE Stores(w)
  <2>1. Alters(w) /\ \A j \in Key \ {op[w].key} : meta'[j] = meta[j]
    BY <1>1, Touching DEF Touches, Alters, Call, Continue
  <2>2. \A layer \in chain : layer[1] \in Key /\ layer[1] # op[w].key
    <3>1. CallInv(v) /\ op[v] \in Op /\ db[v] \in DbRecord
      BY DEF IInv, TypeInv
    <3>2. db[v].base.chain \union op[v].from.chain \union op[v].chain \subseteq Key \X Nat
      BY <3>1 DEF Op, DbRecord, Base, Layers
    <3>3. chain \subseteq db[v].base.chain \union op[v].from.chain \union op[v].chain
            \/ (op[v].pc = "move" /\ chain \subseteq op[v].from.chain \union {<<op[v].key, op[v].at>>})
      BY DEF JustWritten, Below
    <3>4. op[v].pc = "move" => op[v].key \in Key
      BY <3>1 DEF CallInv, StepInv
    <3> QED
      BY <2>1, <3>2, <3>3, <3>4, NobodyReads
  <2> QED
    BY <2>1, <2>2 DEF Linked
<1>2. CASE ~Stores(w)
  BY <1>2, OthersLeaveTheStore
<1> QED
  BY <1>1, <1>2

(* What resolve found is linked to what it looks for: the snapshot of that   *)
(* key is the one that was written over.                                   *)
LEMMA FoundIsLinked ==
  ASSUME IInv, LinkInv, locking, NEW w \in Worker, op[w].pc \in {"openGet", "joinGet"}, Readable(w)
  PROVE  Linked(meta, op[w].chain \union {Layer(w)}, meta[op[w].key].parent)
<1> DEFINE k == op[w].key
<1>1. CallInv(w) /\ Linked(meta, op[w].chain, k) /\ op[w].chain \subseteq Key \X Nat
  <2>1. op[w].chain \subseteq Key \X Nat
    BY DEF IInv, TypeInv, Op, Layers
  <2> QED
    BY <2>1 DEF IInv, LinkInv, ChainInv, Looking
<1>2. ASSUME NEW layer \in op[w].chain, meta[layer[1]].parent = k, k # None
      PROVE  <<k, meta[layer[1]].parentAt>> = Layer(w)
  <2>1. layer[1] \in Full
    <3>1. Stands(layer) /\ layer[1] \in Key
      BY <1>1 DEF CallInv, ReadInv
    <3> QED
      BY <3>1 DEF Stands, Full
  <2>2. main[k] = [state |-> "full", at |-> meta[layer[1]].parentAt]
    BY <1>2, <2>1 DEF IInv, ChainsAreWhole
  <2> QED
    BY <2>2 DEF Layer
<1>3. k # None
  BY <1>1, NoneAssumption DEF CallInv, StepInv
<1>4. Layer(w)[1] = k
  BY DEF Layer
<1> QED
  BY <1>1, <1>2, <1>3, <1>4 DEF Linked

(* What a Worker begins to read is a whole chain. *)
LEMMA ReadsWhole ==
  ASSUME IInv, LinkInv, locking, NEW w \in Worker, Call(w) \/ Continue(w),
         NEW chain \in {db'[w].base.chain, op'[w].from.chain}
  PROVE  \/ chain \in {db[w].base.chain, op[w].from.chain, {}}
         \/ WholeChain(chain) /\ UNCHANGED <<main, meta>>
<1>1. TypeInv /\ CallInv(w) /\ op[w] \in Op /\ db[w] \in DbRecord /\ ChainInv(w)
  BY DEF IInv, TypeInv, LinkInv
<1>2. op'[w].from.chain \in {db[w].base.chain, op[w].from.chain, {}}
  <2>1. CASE Call(w)
    <3>1. op' = op \/ op'[w].from \in {Idle.from, db[w].base}
      <4>1. CASE \E k \in Key : Open(w, k)
        <5>1. PICK k \in Key : op'[w] = [Idle EXCEPT !.pc = "openHold", !.key = k]
          BY <1>1, <4>1, StepFields, Zenon DEF Open
        <5> QED
          BY <5>1, Nothings DEF Op
      <4>2. CASE \E k \in Key : Save(w, k)
        <5>1. PICK k, d, top : Step(w, [Idle EXCEPT !.pc = "saveHold", !.key = k, !.from = db[w].base,
                                                    !.delta = d, !.top = top])
          BY <4>2, Zenon DEF Save
        <5>2. op'[w] = [Idle EXCEPT !.pc = "saveHold", !.key = k, !.from = db[w].base,
                                    !.delta = d, !.top = top]
          BY <1>1, <5>1, StepFields, Zenon
        <5> QED
          BY <5>2, Nothings DEF Op
      <4>3. CASE Retain(w)
        <5>1. op'[w] = [Idle EXCEPT !.pc = "retain", !.plan = Listed \ Kept]
          BY <1>1, <4>3, StepFields, Zenon DEF Retain
        <5> QED
          BY <5>1, Nothings DEF Op
      <4>4. CASE Crash(w)
        BY <1>1, <4>4, StepFields DEF Crash, Done
      <4> QED
        BY <2>1, <4>1, <4>2, <4>3, <4>4 DEF Call, OpenEmpty, Close
    <3> QED
      BY <3>1, Nothings
  <2>2. CASE Continue(w)
    <3>1. ASSUME NEW new, Step(w, new), new = Idle \/ new.from = op[w].from
          PROVE  op'[w].from \in {NoBase, op[w].from}
      BY <1>1, <3>1, StepFields, Nothings
    <3>2. op'[w].from \in {NoBase, op[w].from}
      <4>1. CASE Hold(w) \/ GetLayer(w) \/ SaveHold(w)
        BY <1>1, <3>1, <4>1 DEF Op, Hold, GetLayer, SaveHold
      <4>2. CASE WriteCreate(w) \/ WriteMeta(w) \/ WriteContent(w) \/ WriteFails(w) \/ WriteAbort(w)
        BY <1>1, <3>1, <4>2 DEF Op, WriteCreate, WriteMeta, WriteContent, WriteFails, WriteAbort
      <4>3. CASE WriteAbortMeta(w) \/ WriteRecord(w) \/ WriteFound(w)
        BY <1>1, <3>1, <4>3 DEF Op, Done, WriteAbortMeta, WriteRecord, WriteFound
      <4>4. CASE RetainNext(w) \/ RemoveCheck(w) \/ RemoveMain(w) \/ RemoveMeta(w)
        BY <1>1, <3>1, <4>4 DEF Op, Done, RetainNext, RemoveCheck, RemoveMain, RemoveMeta
      <4>5. CASE GetLast(w) \/ GetMissing(w) \/ MoveWritten(w) \/ MoveJoined(w)
        BY <3>1, <4>5 DEF Done, GetLast, GetMissing, MoveWritten, MoveJoined, Move
      <4> QED
        BY <2>2, <4>1, <4>2, <4>3, <4>4, <4>5 DEF Continue
    <3> QED
      BY <3>2, Nothings
  <2> QED
    BY <2>1, <2>2
<1>3. \/ db'[w].base.chain \in {db[w].base.chain, {}}
      \/ WholeChain(db'[w].base.chain) /\ UNCHANGED <<main, meta>>
  <2>1. CASE Call(w)
    <3>1. db' = db \/ db'[w].base = NoBase
      <4>1. CASE Close(w) \/ Crash(w)
        BY <1>1, <4>1, Nothings DEF TypeInv, Close, Crash
      <4>2. CASE \E b \in Branch : OpenEmpty(w, b)
        BY <1>1, <4>2 DEF TypeInv, OpenEmpty
      <4> QED
        BY <2>1, <4>1, <4>2 DEF Call, Open, Save, Retain
    <3> QED
      BY <3>1, Nothings
  <2>2. ASSUME op[w].pc \in {"openGet", "joinGet"}, Readable(w), meta[op[w].key].parent = None
        PROVE  WholeChain(Resolved(w).chain)
    <3>1. /\ Resolved(w) \in Base /\ Resolved(w).chain = op[w].chain \union {Layer(w)}
          /\ \A layer \in Resolved(w).chain : Stands(layer)
      BY <2>2, ResolvedFields
    <3>2. Resolved(w).chain \in Layers
      BY <3>1 DEF Base, Layers
    <3>3. Linked(meta, Resolved(w).chain, None)
      BY <2>2, <3>1, FoundIsLinked
    <3> QED
      BY <3>1, <3>2, <3>3 DEF WholeChain
  <2>3. ASSUME NEW base, Move(w, base)
        PROVE  db'[w].base \in {db[w].base, base}
    BY <1>1, <2>3 DEF TypeInv, Move, DbRecord
  <2>4. CASE GetLast(w)
    <3>1. db'[w].base = Resolved(w) /\ UNCHANGED <<main, meta>>
      BY <1>1, <2>4 DEF TypeInv, GetLast, storeVars
    <3> QED
      BY <2>2, <2>4, <3>1 DEF GetLast
  <2>5. CASE MoveJoined(w)
    <3>1. db'[w].base \in {db[w].base, Resolved(w)} /\ UNCHANGED <<main, meta>>
      BY <2>3, <2>5 DEF MoveJoined, storeVars
    <3> QED
      BY <2>2, <2>5, <3>1 DEF MoveJoined
  <2>6. CASE MoveWritten(w)
    <3> DEFINE base == [key |-> op[w].key, at |-> op[w].at, branch |-> op[w].top.branch,
                        chain |-> Below(w) \union {<<op[w].key, op[w].at>>}]
    <3>1. op[w].pc = "move" /\ Move(w, base) /\ UNCHANGED <<main, meta>>
      BY <2>6 DEF MoveWritten, storeVars
    <3>2. db'[w].base \in {db[w].base, base} /\ base.chain = JustWritten(w)
      BY <2>3, <3>1 DEF JustWritten
    <3>3. op[w].key \in Key /\ op[w].at \in Nat /\ Below(w) \subseteq op[w].from.chain
          /\ op[w].from \in Base
      BY <1>1, <3>1 DEF CallInv, StepInv, Op, Below
    <3>4. JustWritten(w) \in Layers
      BY <3>3 DEF Base, Layers, JustWritten
    <3>5. Linked(meta, JustWritten(w), None) /\ \A layer \in JustWritten(w) : Stands(layer)
      BY <1>1, <3>1, <3>3 DEF ChainInv, CallInv, ReadInv, JustWritten
    <3> HIDE DEF base
    <3> QED
      BY <3>1, <3>2, <3>4, <3>5 DEF WholeChain
  <2>7. CASE Continue(w) /\ ~(GetLast(w) \/ MoveWritten(w) \/ MoveJoined(w))
    <3>1. db' = db
      BY <2>7 DEF Continue, Hold, GetLayer, GetMissing, SaveHold, WriteCreate, WriteMeta, WriteContent,
                  WriteFails, WriteAbort, WriteAbortMeta, WriteRecord, WriteFound, RetainNext,
                  RemoveCheck, RemoveMain, RemoveMeta
    <3> QED
      BY <3>1
  <2> QED
    BY <2>1, <2>4, <2>5, <2>6, <2>7
<1> QED
  BY <1>2, <1>3

(* What a call has resolved so far, and what it just wrote. *)
LEMMA LooksLinked ==
  ASSUME IInv, LinkInv, locking, NEW w \in Worker, Call(w) \/ Continue(w)
  PROVE  /\ op'[w].pc \in Looking => Linked(meta', op'[w].chain, op'[w].key)
         /\ op'[w].pc \notin Looking => op'[w].chain = {}
         /\ op'[w].pc = "move" => Linked(meta', JustWritten(w)', None)
<1>1. TypeInv /\ CallInv(w) /\ op[w] \in Op /\ ChainInv(w)
  BY DEF IInv, TypeInv, LinkInv
<1>2. CASE op' = op
  <2>1. op[w].pc \in Looking => Linked(meta', op[w].chain, op[w].key)
    BY <1>1, LinksStay DEF ChainInv
  <2>2. op[w].pc = "move" => Linked(meta', JustWritten(w), None)
    BY <1>1, LinksStay DEF ChainInv
  <2>3. JustWritten(w)' = JustWritten(w)
    BY <1>2 DEF JustWritten, Below
  <2> QED
    BY <1>1, <1>2, <2>1, <2>2, <2>3 DEF ChainInv
<1>3. CASE op'[w].chain = {} /\ op'[w].pc # "move"
  BY <1>3 DEF Linked
<1>4. CASE Hold(w)
  <2>1. /\ op[w].pc \in Looking /\ op'[w].chain = op[w].chain /\ op'[w].key = op[w].key
        /\ op'[w].pc \in {"openGet", "joinGet"}
    <3>1. op'[w] = [op[w] EXCEPT !.pc = Got(op[w].pc), !.held = op[w].held \union {op[w].key}]
      BY <1>1, <1>4, StepFields DEF Hold
    <3>2. Got(op[w].pc) \in {"openGet", "joinGet"} /\ op[w].pc \in Looking
      BY <1>4 DEF Hold, Got, Resolving, Looking
    <3> QED
      BY <1>1, <3>1, <3>2 DEF Op
  <2>2. Linked(meta', op[w].chain, op[w].key)
    BY <1>1, <2>1, LinksStay DEF ChainInv
  <2> QED
    BY <2>1, <2>2 DEF Looking
<1>5. CASE GetLayer(w)
  <2>1. /\ op[w].pc \in {"openGet", "joinGet"} /\ Readable(w) /\ UNCHANGED <<main, meta>>
        /\ op'[w].chain = op[w].chain \union {Layer(w)} /\ op'[w].key = meta[op[w].key].parent
        /\ op'[w].pc \in {"openHold", "joinHold"}
    <3> DEFINE new == [op[w] EXCEPT !.pc = IF op[w].pc = "openGet" THEN "openHold" ELSE "joinHold",
                       !.key = meta[op[w].key].parent, !.at = meta[op[w].key].parentAt,
                       !.chain = op[w].chain \union {Layer(w)}, !.top = Resolved(w)]
    <3>1. op'[w] = new
      <4>1. Step(w, new)
        BY <1>5 DEF GetLayer
      <4> HIDE DEF new
      <4> QED
        BY <1>1, <4>1, StepFields
    <3>2. op[w].pc \in {"openGet", "joinGet"} /\ Readable(w) /\ UNCHANGED <<main, meta>>
      BY <1>5 DEF GetLayer, storeVars
    <3> QED
      BY <1>1, <3>1, <3>2 DEF Op
  <2>2. Linked(meta, op'[w].chain, op'[w].key)
    BY <2>1, FoundIsLinked
  <2> QED
    BY <2>1, <2>2 DEF Looking
<1>6. CASE WriteContent(w)
  <2> DEFINE k == op[w].key
  <2>1. /\ op'[w].pc = "move" /\ op'[w].key = k /\ op'[w].at = op[w].at
        /\ op'[w].from = op[w].from /\ op'[w].chain = op[w].chain /\ meta' = meta
        /\ op[w].pc = "content"
    BY <1>1, <1>6, StepFields DEF WriteContent, Op
  <2>2. op'[w].delta <=> op[w].delta
    BY <1>1, <1>6, StepFields DEF WriteContent, Op
  <2>3. JustWritten(w)' = Below(w) \union {<<k, op[w].at>>}
    BY <2>1, <2>2 DEF JustWritten, Below
  <2>4. meta[k] = NewMeta(w, op[w].at)
    BY <1>1, <2>1 DEF CallInv, WriteInv
  <2>5. meta[k].parent # None => <<meta[k].parent, meta[k].parentAt>> \in Below(w)
    <3> SUFFICES ASSUME meta[k].parent # None
                 PROVE  <<meta[k].parent, meta[k].parentAt>> \in Below(w)
      OBVIOUS
    <3>1. op[w].delta /\ meta[k].parent = op[w].from.key /\ meta[k].parentAt = op[w].from.at
      BY <2>4 DEF NewMeta
    <3>2. <<op[w].from.key, op[w].from.at>> \in op[w].from.chain
      BY <1>1, <3>1 DEF CallInv, StepInv, Named
    <3> QED
      BY <3>1, <3>2 DEF Below
  <2>6. Linked(meta, Below(w), None)
    BY <1>1 DEF ChainInv, Below, Linked
  <2>7. Linked(meta, Below(w) \union {<<k, op[w].at>>}, None)
    BY <2>5, <2>6 DEF Linked
  <2>8. op[w].chain = {}
    BY <1>1, <2>1 DEF ChainInv, Looking
  <2> QED
    BY <2>1, <2>3, <2>7, <2>8 DEF Looking
<1>7. ASSUME op[w].pc \notin Looking, NEW new, Step(w, new), new.chain = op[w].chain, new.pc # "move"
      PROVE  op'[w].chain = {} /\ op'[w].pc # "move"
  BY <1>1, <1>7, StepFields DEF ChainInv
<1>8. ASSUME NEW new, Step(w, new), new.chain = {}, new.pc # "move"
      PROVE  op'[w].chain = {} /\ op'[w].pc # "move"
  BY <1>1, <1>8, StepFields
<1>9. CASE Continue(w) /\ ~(Hold(w) \/ GetLayer(w) \/ WriteContent(w))
  <2>1. CASE GetLast(w) \/ GetMissing(w) \/ MoveWritten(w) \/ MoveJoined(w)
    BY <1>3, <1>8, <2>1, Nothings DEF Done, GetLast, GetMissing, MoveWritten, MoveJoined, Move
  <2>2. CASE SaveHold(w) \/ WriteCreate(w) \/ WriteMeta(w) \/ WriteFails(w) \/ WriteAbort(w)
    BY <1>1, <1>3, <1>7, <2>2
    DEF Op, Looking, SaveHold, WriteCreate, WriteMeta, WriteFails, WriteAbort
  <2>3. CASE WriteAbortMeta(w)
    <3>1. op[w].pc \notin Looking
      BY <2>3 DEF WriteAbortMeta, Looking
    <3>2. CASE Done(w)
      BY <1>3, <1>8, <3>2, Nothings DEF Done
    <3>3. CASE \E d, r : Step(w, [op[w] EXCEPT !.pc = "write", !.at = 0, !.delta = d, !.retry = r])
      BY <1>1, <1>3, <1>7, <3>1, <3>3 DEF Op
    <3> QED
      BY <2>3, <3>2, <3>3, Zenon DEF WriteAbortMeta
  <2>4. CASE WriteRecord(w)
    <3>1. op[w].pc = "write" /\ \E d : Step(w, [op[w] EXCEPT !.delta = d])
      BY <2>4, Zenon DEF WriteRecord
    <3> QED
      BY <1>1, <1>3, <1>7, <3>1 DEF Op, Looking
  <2>5. CASE WriteFound(w)
    <3>1. op[w].pc = "write"
      BY <2>5 DEF WriteFound
    <3> QED
      BY <1>1, <1>3, <1>7, <1>8, <2>5, <3>1, Nothings DEF Op, Looking, WriteFound, Done
  <2>6. CASE RetainNext(w) \/ RemoveCheck(w) \/ RemoveMain(w) \/ RemoveMeta(w)
    BY <1>1, <1>3, <1>7, <1>8, <2>6, Nothings
    DEF Op, Looking, RetainNext, RemoveCheck, RemoveMain, RemoveMeta, Done
  <2> QED
    BY <1>9, <2>1, <2>2, <2>3, <2>4, <2>5, <2>6 DEF Continue
<1>10. CASE Call(w)
  <2>1. CASE \E k \in Key : Open(w, k)
    BY <1>3, <1>8, <2>1, Nothings DEF Open, Op
  <2>2. CASE \E k \in Key : Save(w, k)
    <3>1. PICK k, d, top : Step(w, [Idle EXCEPT !.pc = "saveHold", !.key = k, !.from = db[w].base,
                                                !.delta = d, !.top = top])
      BY <2>2, Zenon DEF Save
    <3> QED
      BY <1>3, <1>8, <3>1, Nothings DEF Op
  <2>3. CASE Retain(w) \/ Crash(w)
    BY <1>3, <1>8, <2>3, Nothings DEF Retain, Crash, Done, Op
  <2> QED
    BY <1>2, <1>10, <2>1, <2>2, <2>3 DEF Call, OpenEmpty, Close
<1> QED
  BY <1>4, <1>5, <1>6, <1>9, <1>10

LEMMA LinkInvInit == Init => LinkInv
<1> SUFFICES ASSUME Init, NEW w \in Worker PROVE ChainInv(w)
  BY DEF LinkInv
<1>1. op[w] = Idle /\ db[w].base = NoBase
  BY Nothings DEF Init
<1> QED
  BY <1>1, Nothings DEF ChainInv, Linked, Looking

LEMMA LinkInvKept == IInv /\ LinkInv /\ [Next]_vars => LinkInv'
<1> SUFFICES ASSUME IInv, LinkInv, [Next]_vars, locking', NEW v \in Worker PROVE ChainInv(v)'
  BY DEF LinkInv
<1>1. CASE UNCHANGED vars
  BY <1>1 DEF vars, LinkInv, ChainInv, Linked, JustWritten, Below
<1>2. ASSUME NEW w \in Worker, Call(w) \/ Continue(w) PROVE ChainInv(v)'
  <2>1. locking /\ ChainInv(v)
    BY <1>2 DEF Call, Continue, LinkInv
  <2>2. \A chain \in {db[v].base.chain, op[v].from.chain} : Linked(meta', chain, None)
    BY <1>2, <2>1, LinksStay DEF ChainInv
  <2>3. CASE v = w
    <3>1. ASSUME NEW chain \in {db'[w].base.chain, op'[w].from.chain}
          PROVE  Linked(meta', chain, None)
      <4>1. CASE chain = {}
        BY <4>1 DEF Linked
      <4>2. CASE WholeChain(chain) /\ UNCHANGED <<main, meta>>
        BY <4>2 DEF WholeChain
      <4> QED
        BY <1>2, <2>1, <2>2, <2>3, <4>1, <4>2, ReadsWhole
    <3> QED
      BY <1>2, <2>1, <2>3, <3>1, LooksLinked DEF ChainInv
  <2>4. CASE v # w
    <3>1. op'[v] = op[v] /\ db'[v] = db[v]
      BY <1>2, <2>4, WorkerStep
    <3>2. JustWritten(v)' = JustWritten(v)
      BY <3>1 DEF JustWritten, Below
    <3>3. op[v].pc \in Looking => Linked(meta', op[v].chain, op[v].key)
      BY <1>2, <2>1, LinksStay DEF ChainInv
    <3>4. op[v].pc = "move" => Linked(meta', JustWritten(v), None)
      BY <1>2, <2>1, LinksStay DEF ChainInv
    <3> QED
      BY <2>1, <2>2, <3>1, <3>2, <3>3, <3>4 DEF ChainInv
  <2> QED
    BY <2>3, <2>4
<1> QED
  BY <1>1, <1>2 DEF Next

(***************************************************************************)
(* The refinement                                                          *)
(***************************************************************************)
Stored == [k \in Full |-> [at |-> main[k].at, parent |-> meta[k].parent, parentAt |-> meta[k].parentAt]]
Reads == [w \in Worker |-> {db[w].base.chain, op[w].from.chain}]

LEMMA AtomicInit == Init => Atomic!Init
<1> SUFFICES ASSUME Init PROVE Atomic!Init
  OBVIOUS
<1>1. Full = {}
  BY Nothings DEF Init, Full
<1>2. \A w \in Worker : {db[w].base.chain, op[w].from.chain} = {{}}
  BY Nothings DEF Init
<1> QED
  BY <1>1, <1>2 DEF Atomic!Init

LEMMA WholeInTheStore ==
  ASSUME NEW chain, WholeChain(chain)
  PROVE  Atomic!Whole(chain)
<1>1. ASSUME NEW layer \in chain PROVE layer[1] \in Full /\ main[layer[1]].at = layer[2]
  <2>1. layer[1] \in Key /\ main[layer[1]] = [state |-> "full", at |-> layer[2]]
    BY DEF WholeChain, Layers, Stands
  <2>2. main[layer[1]].state = "full" /\ main[layer[1]].at = layer[2]
    BY <2>1
  <2> QED
    BY <2>1, <2>2 DEF Full
<1>2. \A layer \in chain : meta[layer[1]].parent # None =>
        <<meta[layer[1]].parent, meta[layer[1]].parentAt>> \in chain
  BY DEF WholeChain, Linked
<1> QED
  BY <1>1, <1>2 DEF Atomic!Whole, Atomic!There

(* A database or a save begins to read, or ends.                           *)
LEMMA ReadIsAtomic ==
  ASSUME IInv, LinkInv, NEW w \in Worker, Call(w) \/ Continue(w), Stored' = Stored
  PROVE  Atomic!Read(w)
<1>1. locking' = locking
  BY DEF Call, Continue
<1>2. Reads' = [Reads EXCEPT ![w] = {db'[w].base.chain, op'[w].from.chain}]
  BY WorkerStep DEF Reads
<1>3. ASSUME locking, NEW chain \in {db'[w].base.chain, op'[w].from.chain}
      PROVE  chain \in {db[w].base.chain, op[w].from.chain} \/ Atomic!Whole(chain)
  <2>1. Atomic!Whole({})
    BY DEF Atomic!Whole
  <2> QED
    BY <1>3, <2>1, ReadsWhole, WholeInTheStore
<1> QED
  BY <1>1, <1>2, <1>3 DEF Atomic!Read, Stored, Reads

(* A snapshot appears, whole, over one that is there.                      *)
LEMMA PutIsAtomic ==
  ASSUME IInv, NEW w \in Worker, Stores(w), Call(w) \/ Continue(w),
         NEW k \in Key, k = op[w].key, main'[k].state = "full"
  PROVE  Atomic!Put(k)
<1>1. locking' = locking
  BY DEF Call, Continue
<1>2. /\ k \in Key /\ main[k].state # "full" /\ main'[k].state = "full"
      /\ \A j \in Key \ {k} : main'[j] = main[j] /\ meta'[j] = meta[j]
      /\ db'[w] = db[w] /\ op'[w].from = op[w].from
      /\ meta'[k].parent # None =>
           /\ meta'[k].parent \in Key \ {k}
           /\ main[meta'[k].parent] = [state |-> "full", at |-> meta'[k].parentAt]
  BY <1>1, Touching DEF Touches, Alters
<1>3. k \notin Full /\ Full' = Full \union {k}
  BY <1>2 DEF Full
<1>4. Reads' = Reads
  BY <1>2, WorkerStep DEF Reads
<1>5. \A j \in Full : Stored'[j] = Stored[j]
  BY <1>2, <1>3 DEF Stored, Full
<1>6. meta'[k].parent # None => meta'[k].parent \in Full /\ main[meta'[k].parent].at = meta'[k].parentAt
  BY <1>2 DEF Full
<1>7. Stored' = [j \in Full' |-> IF j = k THEN Stored'[k] ELSE Stored[j]]
  BY <1>3, <1>5 DEF Stored
<1> QED
  BY <1>1, <1>3, <1>4, <1>6, <1>7 DEF Atomic!Put, Atomic!There, Stored, Reads

(* A snapshot goes that nothing lies over, and with locks nobody reads.    *)
LEMMA DeleteIsAtomic ==
  ASSUME IInv, NEW w \in Worker, Stores(w), Call(w) \/ Continue(w),
         NEW k \in Key, k = op[w].key, main[k].state = "full"
  PROVE  Atomic!Delete(k)
<1>1. locking' = locking
  BY DEF Call, Continue
<1>2. /\ Alters(w) /\ k \in Key /\ main[k].state = "full" /\ main'[k].state # "full"
      /\ \A j \in Key \ {k} : main'[j] = main[j] /\ meta'[j] = meta[j]
      /\ db'[w] = db[w] /\ op'[w].from = op[w].from
  BY <1>1, Touching DEF Touches, Alters
<1>3. k \in Full /\ Full' = Full \ {k}
  BY <1>2 DEF Full
<1>4. Reads' = Reads
  BY <1>2, WorkerStep DEF Reads
<1>5. \A j \in Full : meta[j].parent # k
  <2>1. CASE op[w].pc \in Deleting
    BY <2>1 DEF IInv, CallInv, WriteInv
  <2>2. CASE ~LiesOver(k)
    BY <2>2 DEF LiesOver, Listed, Full
  <2> QED
    BY <1>2, <2>1, <2>2 DEF Alters
<1>6. locking => \A v \in Worker : \A chain \in {db[v].base.chain, op[v].from.chain} :
                   \A layer \in chain : layer[1] # k
  BY <1>2, NobodyReads
<1>7. Stored' = [j \in Full \ {k} |-> Stored[j]]
  BY <1>2, <1>3 DEF Stored, Full
<1> QED
  BY <1>1, <1>3, <1>4, <1>5, <1>6, <1>7 DEF Atomic!Delete, Stored, Reads

LEMMA AtomicStep == IInv /\ LinkInv /\ [Next]_vars => [Atomic!Next]_(Atomic!vars)
<1> SUFFICES ASSUME IInv, LinkInv, [Next]_vars PROVE [Atomic!Next]_(Atomic!vars)
  OBVIOUS
<1>1. CASE UNCHANGED vars
  BY <1>1 DEF vars, Full, Atomic!vars
<1>2. ASSUME NEW w \in Worker, Call(w) \/ Continue(w) PROVE Atomic!Next
  <2>1. CASE Stored' = Stored
    BY <1>2, <2>1, ReadIsAtomic DEF Atomic!Next
  <2>2. CASE Stores(w) /\ Stored' # Stored
    <3>1. PICK k \in Key : k = op[w].key /\ Touches(w)
      BY <1>2, <2>2, Touching DEF Touches, Alters, Call, Continue
    <3>2. CASE main[k].state = "full"
      BY <1>2, <2>2, <3>1, <3>2, DeleteIsAtomic DEF Atomic!Next
    <3>3. CASE main'[k].state = "full"
      BY <1>2, <2>2, <3>1, <3>3, PutIsAtomic DEF Atomic!Next
    <3>4. CASE main[k].state # "full" /\ main'[k].state # "full"
      <4>1. Full' = Full /\ \A j \in Full : main'[j] = main[j] /\ meta'[j] = meta[j]
        BY <3>1, <3>4 DEF Touches, Alters, Full
      <4> QED
        BY <2>2, <4>1 DEF Stored
    <3> QED
      BY <3>2, <3>3, <3>4
  <2>3. CASE ~Stores(w)
    <3>1. Stored' = Stored
      BY <1>2, <2>3, OthersLeaveTheStore DEF Stored, Full
    <3> QED
      BY <2>1, <3>1
  <2> QED
    BY <2>1, <2>2, <2>3
<1> QED
  BY <1>1, <1>2 DEF Next

(* However its steps interleave and wherever Workers end, a store of files  *)
(* and locks is one whose snapshots come and go whole and at once, and a     *)
(* database reads a whole chain of them.                                   *)
THEOREM StoreIsAtomic == Spec => ImplementsSnapshotStore
<1>1. Spec => []LinkInv
  <2>1. Init => LinkInv
    BY LinkInvInit
  <2>2. IInv /\ LinkInv /\ [Next]_vars => LinkInv'
    BY LinkInvKept
  <2> QED
    BY <2>1, <2>2, Invariant, PTL DEF Spec
<1> QED
  BY <1>1, Invariant, AtomicInit, AtomicStep, PTL DEF Spec, ImplementsSnapshotStore, Atomic!Spec

(***************************************************************************)
(* The file of a base is registered exactly as long as a connection reads   *)
(* it, for any number of connections and files: handles are counted right.  *)
(* And what readOnlyFile reads of such a file is what it holds, for any     *)
(* content, size of blocks and number of them (ReadOnlyFile).              *)
(***************************************************************************)

(***************************************************************************)
(* The invariant                                                           *)
(***************************************************************************)
Entry == Place \union {NoEntry}
Contents == [ids : [Place -> Entry], file : [Place -> Entry],
             count : [Place -> Nat \union {NoEntry}], released : SUBSET Place]
Handle == [label : Entry, id : Entry]

FilesTypes ==
  /\ nextFile \in Nat /\ length \in Nat /\ nextFile <= length /\ length <= MaxFiles
  /\ files \in Contents /\ on \in [Conn -> Handle]
  /\ conn \in [Conn -> {"closed", "open", "kept"}]
  /\ \/ call = NoCall
     \/ call \in [pc : {"open"}, label : Place]
     \/ call \in [pc : {"check"}, label : Place, conn : Conn]
     \/ call \in [pc : {"move"}, label : Place, snapshot : Conn]

Readers(o, i) == {c \in Conn : o[c].id = i}

(* The maps of class Files agree. *)
PairInv(r) ==
  /\ \A n \in Place : r.ids[n] # NoEntry => r.file[r.ids[n]] = n /\ n \notin r.released
  /\ \A i \in Place : r.file[i] # NoEntry => r.ids[r.file[i]] = i /\ r.count[i] \in Nat

(* A connection reads a file that is registered, and each handle is counted. *)
OnFileInv(r, o) == \A c \in Conn : o[c] # OnNothing =>
  o[c].label \in Place /\ o[c].id \in Place /\ r.file[o[c].id] = o[c].label
CountInv(r, o) == \A i \in Place : r.file[i] # NoEntry =>
  IsFiniteSet(Readers(o, i)) /\ r.count[i] = Cardinality(Readers(o, i))
Good(r, o) == PairInv(r) /\ OnFileInv(r, o) /\ CountInv(r, o)

(* What was not registered yet; every other label is registered or released. *)
FreshInv ==
  /\ \A n \in Place : n >= nextFile => files.ids[n] = NoEntry /\ n \notin files.released
  /\ \A i \in Place : i >= length => files.file[i] = NoEntry
KeptInv == \A n \in Place :
  n < nextFile /\ n \notin files.released => files.ids[n] # NoEntry

(* A closed connection reads nothing, and of the file of a call only those   *)
(* read that the call opened.                                              *)
ConnInv == \A c \in Conn : conn[c] = "closed" => on[c] = OnNothing
FilesCallInv ==
  /\ call # NoCall => call.label < nextFile
  /\ call.pc = "open" => /\ call.label \notin files.released
                         /\ \A c \in Conn : on[c].label # call.label
  /\ call.pc = "check" => \A c \in Conn : on[c].label = call.label <=> c = call.conn
  /\ call.pc = "move" => on[call.snapshot].label # call.label

(* A label that nobody reads is that of the call under way. *)
UsedInv == \A n \in Place : files.ids[n] # NoEntry /\ files.count[files.ids[n]] = 0 =>
  call.pc \in {"open", "move"} /\ call.label = n

FilesInv == FilesTypes /\ Good(files, on) /\ FreshInv /\ KeptInv /\ ConnInv /\ FilesCallInv /\ UsedInv

(***************************************************************************)
(* Class Files                                                             *)
(***************************************************************************)
(* What opening and closing handles does to the labels: they stay as they   *)
(* are, or are released, and none that is left loses its last reader.       *)
After(r, q) ==
  /\ \A n \in Place : q.ids[n] = r.ids[n] \/ (q.ids[n] = NoEntry /\ n \in q.released)
  /\ \A i \in Place : q.file[i] = r.file[i] \/ q.file[i] = NoEntry
  /\ r.released \subseteq q.released
  /\ \A n \in q.released : n \in r.released \/ r.ids[n] # NoEntry
  /\ \A n \in Place : q.ids[n] # NoEntry /\ q.count[q.ids[n]] = 0 => r.count[r.ids[n]] = 0

LEMMA Opens ==
  ASSUME NEW r \in Contents, NEW o \in [Conn -> Handle], Good(r, o),
         NEW c \in Conn, o[c] = OnNothing, NEW n \in Place, r.ids[n] # NoEntry
  PROVE  LET q == XOpen(r, n)
             p == [o EXCEPT ![c] = [label |-> n, id |-> r.ids[n]]]
         IN  /\ q \in Contents /\ p \in [Conn -> Handle] /\ Good(q, p) /\ After(r, q)
             /\ q.ids = r.ids /\ q.file = r.file /\ q.released = r.released
             /\ q.count[r.ids[n]] = r.count[r.ids[n]] + 1
<1> DEFINE i == r.ids[n]
           q == XOpen(r, n)
           p == [o EXCEPT ![c] = [label |-> n, id |-> i]]
<1>1. i \in Place /\ r.file[i] = n /\ r.count[i] \in Nat
  <2>1. i \in Place
    BY DEF Contents, Entry
  <2>2. r.file[i] = n
    BY DEF Good, PairInv
  <2>3. r.file[i] # NoEntry
    BY <2>2 DEF Place, NoEntry
  <2> QED
    BY <2>1, <2>2, <2>3 DEF Good, PairInv
<1>2. /\ q.ids = r.ids /\ q.file = r.file /\ q.released = r.released
      /\ q.count = [r.count EXCEPT ![i] = @ + 1] /\ q \in Contents
  BY <1>1 DEF XOpen, Counted, Contents
<1>3. p \in [Conn -> Handle]
  BY <1>1 DEF Handle, Entry
<1>4. PairInv(q) /\ After(r, q)
  BY <1>1, <1>2 DEF Good, PairInv, After, Contents, Entry, NoEntry
<1>5. OnFileInv(q, p)
  BY <1>1, <1>2 DEF Good, OnFileInv, Contents
<1>6. ASSUME NEW j \in Place, q.file[j] # NoEntry
      PROVE  IsFiniteSet(Readers(p, j)) /\ q.count[j] = Cardinality(Readers(p, j))
  <2>1. IsFiniteSet(Readers(o, j)) /\ r.count[j] = Cardinality(Readers(o, j))
    BY <1>2, <1>6 DEF Good, CountInv
  <2> HIDE DEF p, q
  <2>2. CASE j = i
    <3>1. Readers(p, j) = Readers(o, j) \union {c}
      BY <2>2 DEF Readers, p
    <3>2. c \notin Readers(o, j)
      BY <1>1, <2>2 DEF Readers, OnNothing, NoEntry, Place
    <3>3. IsFiniteSet(Readers(p, j)) /\ Cardinality(Readers(p, j)) = Cardinality(Readers(o, j)) + 1
      BY <2>1, <3>1, <3>2, FS_AddElement
    <3>4. q.count[j] = r.count[j] + 1
      BY <1>1, <1>2, <2>2 DEF Contents
    <3> QED
      BY <2>1, <3>3, <3>4
  <2>3. CASE j # i
    <3>1. Readers(p, j) = Readers(o, j)
      BY <2>3 DEF Readers, OnNothing, NoEntry, Place, p
    <3> QED
      BY <1>1, <1>2, <2>1, <2>3, <3>1 DEF Contents
  <2> QED
    BY <2>2, <2>3
<1>7. Good(q, p)
  BY <1>4, <1>5, <1>6 DEF Good, CountInv
<1>8. q.count[i] = r.count[i] + 1
  BY <1>1, <1>2 DEF Contents
<1> QED
  BY <1>2, <1>3, <1>4, <1>7, <1>8

LEMMA Removes ==
  ASSUME NEW r \in Contents, NEW o \in [Conn -> Handle], Good(r, o),
         NEW n \in Place, r.ids[n] # NoEntry, r.count[r.ids[n]] = 0
  PROVE  LET q == Remove(r, n) IN
         q \in Contents /\ Good(q, o) /\ After(r, q) /\ q.ids[n] = NoEntry /\ n \in q.released
<1> DEFINE i == r.ids[n]
           q == Remove(r, n)
<1>1. i \in Place /\ r.file[i] = n
  BY DEF Contents, Entry, Good, PairInv, NoEntry, Place
<1>2. /\ q.ids = [r.ids EXCEPT ![n] = NoEntry] /\ q.file = [r.file EXCEPT ![i] = NoEntry]
      /\ q.count = [r.count EXCEPT ![i] = NoEntry] /\ q.released = r.released \union {n}
      /\ q \in Contents
  BY <1>1 DEF Remove, Contents, Entry
<1>3. PairInv(q) /\ After(r, q)
  <2>1. \A k \in Place : k # n => r.ids[k] # i
    BY <1>1 DEF Good, PairInv, NoEntry, Place
  <2>2. PairInv(q)
    <3>1. ASSUME NEW k \in Place, q.ids[k] # NoEntry
          PROVE  q.file[q.ids[k]] = k /\ k \notin q.released
      BY <1>1, <1>2, <2>1, <3>1 DEF Good, PairInv, Contents, Entry
    <3>2. ASSUME NEW j \in Place, q.file[j] # NoEntry
          PROVE  q.ids[q.file[j]] = j /\ q.count[j] \in Nat
      <4>1. j # i /\ q.file[j] = r.file[j] /\ q.count[j] = r.count[j]
        BY <1>1, <1>2, <3>2 DEF Contents
      <4>2. r.ids[r.file[j]] = j /\ r.count[j] \in Nat /\ r.file[j] \in Place
        BY <3>2, <4>1 DEF Good, PairInv, Contents, Entry
      <4> QED
        BY <1>2, <4>1, <4>2 DEF Contents
    <3> QED
      BY <3>1, <3>2 DEF PairInv
  <2>3. After(r, q)
    BY <1>1, <1>2, <2>1 DEF After, Contents, Entry, NoEntry, Place
  <2> QED
    BY <2>2, <2>3
<1>4. Readers(o, i) = {}
  <2>1. IsFiniteSet(Readers(o, i)) /\ Cardinality(Readers(o, i)) = 0
    BY <1>1 DEF Good, CountInv, NoEntry, Place
  <2> QED
    BY <2>1, FS_EmptySet
<1>5. OnFileInv(q, o)
  BY <1>1, <1>2, <1>4 DEF Good, OnFileInv, Readers, Contents
<1>6. CountInv(q, o)
  <2>1. \A j \in Place : q.file[j] # NoEntry => r.file[j] # NoEntry /\ q.count[j] = r.count[j]
    BY <1>1, <1>2 DEF Contents
  <2> QED
    BY <2>1 DEF Good, CountInv
<1> QED
  BY <1>1, <1>2, <1>3, <1>5, <1>6 DEF Good, Contents

(* A connection gives up what it reads. *)
LEMMA Closes ==
  ASSUME NEW r \in Contents, NEW o \in [Conn -> Handle], Good(r, o), NEW c \in Conn
  PROVE  LET q == XClose(r, o[c].id)
             p == [o EXCEPT ![c] = OnNothing]
         IN  q \in Contents /\ p \in [Conn -> Handle] /\ Good(q, p) /\ After(r, q)
<1> DEFINE i == o[c].id
           q == XClose(r, i)
           p == [o EXCEPT ![c] = OnNothing]
<1>1. p \in [Conn -> Handle]
  BY DEF Handle, Entry, OnNothing
<1>2. CASE o[c] = OnNothing
  <2>1. q = r /\ p = o
    BY <1>2 DEF XClose, OnNothing
  <2> QED
    BY <1>1, <2>1 DEF After
<1>3. CASE o[c] # OnNothing
  <2> DEFINE n == o[c].label
             m == Counted(r, i, r.count[i] - 1)
  <2>1. n \in Place /\ i \in Place /\ r.file[i] = n /\ i # NoEntry /\ n # NoEntry
    BY <1>3 DEF Good, OnFileInv, Place, NoEntry
  <2>2. r.ids[n] = i /\ r.count[i] \in Nat /\ n \notin r.released
    BY <2>1 DEF Good, PairInv
  <2>3. IsFiniteSet(Readers(o, i)) /\ r.count[i] = Cardinality(Readers(o, i))
    BY <2>1 DEF Good, CountInv
  <2>4. Readers(p, i) = Readers(o, i) \ {c} /\ c \in Readers(o, i)
    BY <2>1 DEF Readers, OnNothing
  <2>5. /\ IsFiniteSet(Readers(p, i)) /\ Cardinality(Readers(p, i)) = r.count[i] - 1
        /\ r.count[i] - 1 \in Nat
    <3> HIDE DEF p
    <3>1. /\ IsFiniteSet(Readers(p, i))
          /\ Cardinality(Readers(p, i)) = Cardinality(Readers(o, i)) - 1
      BY <2>3, <2>4, FS_RemoveElement
    <3>2. Cardinality(Readers(p, i)) \in Nat
      BY <3>1, FS_CardinalityType
    <3> QED
      BY <2>3, <3>1, <3>2
  <2>6. /\ m.ids = r.ids /\ m.file = r.file /\ m.released = r.released
        /\ m.count = [r.count EXCEPT ![i] = r.count[i] - 1] /\ m \in Contents
    BY <2>1, <2>5 DEF Counted, Contents
  <2>7. Good(m, p)
    <3>1. PairInv(m)
      BY <2>1, <2>5, <2>6 DEF Good, PairInv, Contents
    <3>2. OnFileInv(m, p)
      BY <2>6 DEF Good, OnFileInv
    <3>3. ASSUME NEW j \in Place, m.file[j] # NoEntry
          PROVE  IsFiniteSet(Readers(p, j)) /\ m.count[j] = Cardinality(Readers(p, j))
      <4>1. CASE j = i
        BY <2>1, <2>5, <2>6, <4>1 DEF Contents
      <4>2. CASE j # i
        <5>1. Readers(p, j) = Readers(o, j)
          BY <4>2 DEF Readers, OnNothing, NoEntry, Place
        <5> QED
          BY <2>6, <3>3, <4>2, <5>1 DEF Good, CountInv, Contents
      <4> QED
        BY <4>1, <4>2
    <3> QED
      BY <3>1, <3>2, <3>3 DEF Good, CountInv
  <2>8. CASE r.count[i] = 1
    <3>1. m = Counted(r, i, 0) /\ m.count[i] = 0
      BY <2>1, <2>6, <2>8 DEF Contents
    <3>2. q = Remove(m, n)
      BY <2>1, <2>8, <3>1 DEF XClose
    <3>3. q \in Contents /\ Good(q, p) /\ After(m, q) /\ q.ids[n] = NoEntry /\ n \in q.released
      <4> HIDE DEF m, p, q
      <4>1. m.ids[n] # NoEntry /\ m.count[m.ids[n]] = 0
        BY <2>1, <2>2, <2>6, <3>1
      <4> QED
        BY <1>1, <2>1, <2>6, <2>7, <3>2, <4>1, Removes
    <3>4. ASSUME NEW k \in Place, q.ids[k] # NoEntry, q.count[q.ids[k]] = 0
          PROVE  r.count[r.ids[k]] = 0
      <4>1. m.ids[k] = q.ids[k] /\ m.count[m.ids[k]] = 0
        BY <3>3, <3>4 DEF After
      <4>2. r.ids[k] # i
        <5> HIDE DEF i, m, n, p, q
        <5>1. r.ids[k] = q.ids[k]
          BY <2>6, <4>1
        <5>2. r.ids[k] # NoEntry /\ r.ids[k] \in Entry
          BY <3>4, <5>1 DEF Contents
        <5>3. r.file[r.ids[k]] = k
          BY <5>2 DEF Good, PairInv
        <5>4. k # n
          BY <3>3, <3>4
        <5> QED
          BY <2>1, <5>3, <5>4
      <4> HIDE DEF i, m, n, p, q
      <4>3. r.ids[k] = m.ids[k] /\ r.ids[k] \in Place
        BY <2>6, <3>4, <4>1 DEF Contents, Entry
      <4>4. m.count[r.ids[k]] = r.count[r.ids[k]]
        BY <2>1, <2>6, <4>2, <4>3 DEF Contents
      <4> QED
        BY <4>1, <4>3, <4>4
    <3>5. After(r, q)
      BY <2>6, <3>3, <3>4 DEF After
    <3> QED
      BY <1>1, <3>3, <3>5
  <2>9. CASE r.count[i] # 1
    <3>1. q = m
      BY <2>1, <2>9 DEF XClose
    <3>2. r.count[i] - 1 # 0
      BY <2>2, <2>9
    <3>3. After(r, m)
      <4> HIDE DEF m, i
      <4>1. m.count[i] # 0
        BY <2>1, <2>6, <3>2 DEF Contents
      <4>2. \A j \in Place : j # i => m.count[j] = r.count[j]
        BY <2>6 DEF Contents
      <4>3. ASSUME NEW k \in Place, r.ids[k] # NoEntry, m.count[r.ids[k]] = 0
            PROVE  r.count[r.ids[k]] = 0
        <5>1. r.ids[k] \in Place
          BY <4>3 DEF Contents, Entry
        <5> QED
          BY <4>1, <4>2, <4>3, <5>1
      <4> QED
        BY <2>6, <4>3 DEF After
    <3> QED
      BY <1>1, <2>6, <2>7, <3>1, <3>3
  <2> QED
    BY <2>8, <2>9
<1> QED
  BY <1>2, <1>3

(* A handle is opened and closed again. *)
LEMMA Probes ==
  ASSUME NEW r \in Contents, NEW o \in [Conn -> Handle], Good(r, o),
         NEW n \in Place, r.ids[n] # NoEntry
  PROVE  /\ XClose(XOpen(r, n), r.ids[n]) = IF OpenHandles(r, n) = 0 THEN Remove(r, n) ELSE r
         /\ OpenHandles(r, n) = r.count[r.ids[n]]
<1> DEFINE i == r.ids[n]
           q == XOpen(r, n)
<1>1. i \in Place /\ r.file[i] = n /\ i # NoEntry
  BY DEF Contents, Entry, Good, PairInv
<1>2. r.count[i] \in Nat
  BY <1>1 DEF Good, PairInv, Place, NoEntry
<1>3. q = Counted(r, i, r.count[i] + 1) /\ q.count[i] = r.count[i] + 1 /\ q.file[i] = n
  BY <1>1, <1>2 DEF XOpen, Counted, Contents
<1>4. Counted(q, i, r.count[i]) = r
  BY <1>1, <1>2 DEF XOpen, Counted, Contents
<1>5. OpenHandles(r, n) = r.count[i]
  BY DEF OpenHandles
<1>6. CASE r.count[i] = 0
  BY <1>1, <1>3, <1>4, <1>5, <1>6 DEF XClose
<1>7. CASE r.count[i] # 0
  <2>1. q.count[i] # 1 /\ q.count[i] - 1 = r.count[i]
    BY <1>2, <1>3, <1>7
  <2> QED
    BY <1>1, <1>4, <1>5, <1>7, <2>1 DEF XClose
<1> QED
  BY <1>5, <1>6, <1>7

(* It does not matter whether the old base is closed before or after the    *)
(* new one is opened.                                                      *)
LEMMA Commute ==
  ASSUME NEW r \in Contents, NEW n \in Place, r.ids[n] \in Place, NEW j \in Entry,
         j # r.ids[n], j # NoEntry => r.file[j] \in Place \ {n} /\ r.count[j] \in Nat
                                   /\ r.ids[r.file[j]] = j
  PROVE  /\ XClose(r, j).ids[n] = r.ids[n]
         /\ XClose(XOpen(r, n), j) = XOpen(XClose(r, j), n)
<1> DEFINE i == r.ids[n]
           l == r.file[j]
<1>1. CASE j = NoEntry
  BY <1>1 DEF XClose
<1>2. CASE j # NoEntry /\ r.count[j] # 1
  BY <1>2 DEF XClose, XOpen, Counted, Contents, Entry
<1>3. CASE j # NoEntry /\ r.count[j] = 1
  <2>1. XClose(r, j) =
          [ids |-> [r.ids EXCEPT ![l] = NoEntry], file |-> [r.file EXCEPT ![j] = NoEntry],
           count |-> [[r.count EXCEPT ![j] = 0] EXCEPT ![j] = NoEntry],
           released |-> r.released \union {l}]
    BY <1>3 DEF XClose, Counted, Remove
  <2>2. XClose(XOpen(r, n), j) =
          [ids |-> [r.ids EXCEPT ![l] = NoEntry], file |-> [r.file EXCEPT ![j] = NoEntry],
           count |-> [[[r.count EXCEPT ![i] = @ + 1] EXCEPT ![j] = 0] EXCEPT ![j] = NoEntry],
           released |-> r.released \union {l}]
    <3> DEFINE q == XOpen(r, n)
               d == Counted(q, j, 0)
    <3>1. q = [ids |-> r.ids, file |-> r.file, count |-> [r.count EXCEPT ![i] = @ + 1],
               released |-> r.released]
      BY DEF XOpen, Counted
    <3>2. q.count[j] = 1 /\ q.file[j] = l
      BY <1>3, <3>1 DEF Contents
    <3>3. d = [ids |-> r.ids, file |-> r.file,
               count |-> [[r.count EXCEPT ![i] = @ + 1] EXCEPT ![j] = 0],
               released |-> r.released]
      BY <3>1 DEF Counted
    <3>4. XClose(q, j) = Remove(d, l)
      BY <1>3, <3>2 DEF XClose
    <3>5. d.ids[l] = j /\ j # NoEntry
      BY <1>3, <3>3
    <3> HIDE DEF q, d
    <3>6. Remove(d, l) =
            [ids |-> [d.ids EXCEPT ![l] = NoEntry], file |-> [d.file EXCEPT ![j] = NoEntry],
             count |-> [d.count EXCEPT ![j] = NoEntry], released |-> d.released \union {l}]
      BY <3>5 DEF Remove
    <3> QED
      BY <3>3, <3>4, <3>6 DEF q
  <2>3. XClose(r, j).ids[n] = i
    BY <1>3, <2>1 DEF Contents
  <2>4. XOpen(XClose(r, j), n) =
          [ids |-> [r.ids EXCEPT ![l] = NoEntry], file |-> [r.file EXCEPT ![j] = NoEntry],
           count |-> [[[r.count EXCEPT ![j] = 0] EXCEPT ![j] = NoEntry]
                      EXCEPT ![i] = @ + 1],
           released |-> r.released \union {l}]
    <3> DEFINE q == XClose(r, j)
    <3>1. /\ q.ids = [r.ids EXCEPT ![l] = NoEntry] /\ q.file = [r.file EXCEPT ![j] = NoEntry]
          /\ q.count = [[r.count EXCEPT ![j] = 0] EXCEPT ![j] = NoEntry]
          /\ q.released = r.released \union {l} /\ q.ids[n] = i
      BY <2>1, <2>3
    <3> HIDE DEF q
    <3>2. XOpen(q, n) = [ids |-> q.ids, file |-> q.file,
                         count |-> [q.count EXCEPT ![i] = q.count[i] + 1],
                         released |-> q.released]
      BY <3>1 DEF XOpen, Counted
    <3> QED
      BY <3>1, <3>2 DEF q
  <2>5. [[[r.count EXCEPT ![i] = @ + 1] EXCEPT ![j] = 0] EXCEPT ![j] = NoEntry]
          = [[[r.count EXCEPT ![j] = 0] EXCEPT ![j] = NoEntry] EXCEPT ![i] = @ + 1]
    BY <1>3 DEF Contents, Entry
  <2> QED
    BY <2>2, <2>3, <2>4, <2>5
<1> QED
  BY <1>1, <1>2, <1>3

(***************************************************************************)
(* The steps                                                               *)
(***************************************************************************)
LEMMA InitFilesInv == FilesInit => FilesInv
<1> SUFFICES ASSUME FilesInit PROVE FilesInv
  OBVIOUS
<1>1. FilesTypes
  BY MaxFilesAssumption DEF FilesInit, FilesTypes, Contents, Handle, Entry, OnNothing
<1>2. Good(files, on)
  BY DEF FilesInit, Good, PairInv, OnFileInv, CountInv
<1>3. FreshInv /\ KeptInv /\ ConnInv /\ FilesCallInv /\ UsedInv
  BY DEF FilesInit, FreshInv, KeptInv, ConnInv, FilesCallInv, UsedInv, NoCall, Place
<1> QED
  BY <1>1, <1>2, <1>3 DEF FilesInv

LEMMA LabelsKept ==
  ASSUME FreshInv, KeptInv, After(files, files'), UNCHANGED <<nextFile, length>>
  PROVE  FreshInv' /\ KeptInv'
BY DEF FreshInv, KeptInv, After, NoEntry

(* Handles change, but not the call under way. *)
LEMMA SameCallStep ==
  ASSUME FilesInv, After(files, files'), files' \in Contents, on' \in [Conn -> Handle],
         Good(files', on'), UNCHANGED <<nextFile, length, call>>
  PROVE  FreshInv' /\ KeptInv' /\ UsedInv'
<1>1. FreshInv' /\ KeptInv'
  BY LabelsKept DEF FilesInv
<1>2. UsedInv'
  BY DEF FilesInv, UsedInv, After
<1> QED
  BY <1>1, <1>2

LEMMA StoreFileStep == ASSUME FilesInv, StoreFile PROVE FilesInv'
<1>1. FilesTypes'
  BY MaxFilesAssumption DEF FilesInv, FilesTypes, StoreFile
<1>2. FreshInv'
  BY DEF FilesInv, FreshInv, StoreFile, FilesTypes, Place
<1>3. UNCHANGED <<nextFile, files, conn, on, call>> /\ length' = length + 1
  BY DEF StoreFile
<1>4. Good(files', on')
  BY <1>3 DEF FilesInv
<1>5. KeptInv' /\ ConnInv' /\ UsedInv'
  BY <1>3 DEF FilesInv, KeptInv, ConnInv, UsedInv
<1>6. FilesCallInv'
  BY <1>3 DEF FilesInv, FilesCallInv
<1> QED
  BY <1>1, <1>2, <1>4, <1>5, <1>6 DEF FilesInv

(* Only the state of a connection changes. *)
LEMMA ConnStep ==
  ASSUME FilesInv, NEW c \in Conn, NEW s \in {"open", "kept"}, conn' = [conn EXCEPT ![c] = s],
         UNCHANGED <<nextFile, length, files, on, call>>
  PROVE  FilesInv'
<1>1. FilesTypes' /\ ConnInv'
  BY DEF FilesInv, FilesTypes, ConnInv
<1> QED
  BY <1>1 DEF FilesInv, Good, PairInv, OnFileInv, CountInv, Readers, FreshInv, KeptInv,
              FilesCallInv, UsedInv

LEMMA ForkStep == ASSUME FilesInv, NEW c \in Conn, NEW d \in Conn, Fork(c, d) PROVE FilesInv'
<1> DEFINE n == on[c].label
<1>1. CASE n = NoEntry
  BY <1>1, ConnStep DEF Fork
<1>2. CASE n # NoEntry
  <2>1. n \in Place /\ on[d] = OnNothing /\ files \in Contents /\ on \in [Conn -> Handle]
    BY <1>2 DEF FilesInv, FilesTypes, Handle, Entry, ConnInv, Fork
  <2>2. /\ files' = XOpen(files, n) /\ files.ids[n] # NoEntry
        /\ on' = [on EXCEPT ![d] = [label |-> n, id |-> files.ids[n]]]
        /\ conn' = [conn EXCEPT ![d] = "open"] /\ call = NoCall
        /\ UNCHANGED <<nextFile, length, call>>
    BY <1>2 DEF Fork
  <2> HIDE DEF n
  <2>3. /\ files' \in Contents /\ on' \in [Conn -> Handle] /\ Good(files', on')
        /\ After(files, files')
    BY <2>1, <2>2, Opens DEF FilesInv
  <2>4. FreshInv' /\ KeptInv' /\ UsedInv'
    BY <2>2, <2>3, SameCallStep
  <2>5. FilesTypes' /\ ConnInv' /\ FilesCallInv'
    BY <2>2, <2>3 DEF FilesInv, FilesTypes, ConnInv, FilesCallInv, NoCall
  <2> QED
    BY <2>3, <2>4, <2>5 DEF FilesInv
<1> QED
  BY <1>1, <1>2

LEMMA CloseStep == ASSUME FilesInv, NEW c \in Conn, CloseConn(c) PROVE FilesInv'
<1>1. CASE conn' = [conn EXCEPT ![c] = "kept"] /\ UNCHANGED <<files, on>>
  BY <1>1, ConnStep DEF CloseConn
<1>2. CASE /\ conn' = [conn EXCEPT ![c] = "closed"]
           /\ files' = XClose(files, on[c].id) /\ on' = [on EXCEPT ![c] = OnNothing]
  <2>1. call = NoCall /\ UNCHANGED <<nextFile, length, call>>
    BY DEF CloseConn
  <2>2. /\ files' \in Contents /\ on' \in [Conn -> Handle] /\ Good(files', on')
        /\ After(files, files')
    BY <1>2, Closes DEF FilesInv, FilesTypes
  <2>3. FreshInv' /\ KeptInv' /\ UsedInv'
    BY <2>1, <2>2, SameCallStep
  <2>4. FilesTypes' /\ ConnInv' /\ FilesCallInv'
    BY <1>2, <2>1, <2>2 DEF FilesInv, FilesTypes, ConnInv, FilesCallInv, NoCall
  <2> QED
    BY <2>2, <2>3, <2>4 DEF FilesInv
<1> QED
  BY <1>1, <1>2 DEF CloseConn

(* A file is registered under a new label. *)
LEMMA Registers ==
  ASSUME FilesInv, Register
  PROVE  /\ nextFile \in Place /\ nextFile \notin files'.released
         /\ files' \in Contents /\ Good(files', on') /\ FreshInv' /\ KeptInv'
         /\ \A c \in Conn : on[c].label # nextFile
         /\ \A n \in Place \ {nextFile} : files'.ids[n] # NoEntry =>
              files.ids[n] # NoEntry /\ files'.count[files'.ids[n]] = files.count[files.ids[n]]
<1> DEFINE n == nextFile
           i == length
<1>1. /\ n \in Place /\ i \in Place /\ n \in Nat /\ i \in Nat /\ files \in Contents
      /\ on \in [Conn -> Handle] /\ n <= i
  BY MaxFilesAssumption DEF FilesInv, FilesTypes, Register, Place
<1>2. files.ids[n] = NoEntry /\ n \notin files.released /\ files.file[i] = NoEntry
  BY <1>1 DEF FilesInv, FreshInv
<1>3. \A c \in Conn : on[c].label # n /\ on[c].id # i
  <2>1. ASSUME NEW c \in Conn, on[c] # OnNothing PROVE on[c].label # n /\ on[c].id # i
    <3>1. /\ on[c].label \in Place /\ on[c].id \in Place
          /\ files.file[on[c].id] = on[c].label
      BY <2>1 DEF FilesInv, Good, OnFileInv
    <3>2. on[c].label # NoEntry /\ on[c].id # NoEntry
      BY <3>1 DEF NoEntry, Place
    <3>3. files.ids[on[c].label] = on[c].id
      BY <3>1, <3>2 DEF FilesInv, Good, PairInv
    <3> QED
      BY <1>2, <3>1, <3>2, <3>3
  <2>2. n # NoEntry /\ i # NoEntry
    BY <1>1 DEF NoEntry, Place
  <2>3. ASSUME NEW c \in Conn, on[c] = OnNothing PROVE on[c].label # n /\ on[c].id # i
    BY <2>2, <2>3 DEF OnNothing
  <2> QED
    BY <2>1, <2>3
<1>4. /\ files'.ids = [files.ids EXCEPT ![n] = i] /\ files'.file = [files.file EXCEPT ![i] = n]
      /\ files'.count = [files.count EXCEPT ![i] = 0] /\ files'.released = files.released
      /\ n' = n + 1 /\ i' = i + 1 /\ on' = on
  BY DEF Register, Add
<1>5. files' \in Contents
  BY <1>1 DEF Register, Add, Contents, Entry
<1>6. \A k \in Place : k # n /\ files.ids[k] # NoEntry => files.ids[k] # i
  BY <1>1, <1>2 DEF FilesInv, Good, PairInv, NoEntry, Place
<1>7. PairInv(files')
  <2>1. ASSUME NEW k \in Place, files'.ids[k] # NoEntry
        PROVE  files'.file[files'.ids[k]] = k /\ k \notin files'.released
    <3>1. CASE k = n
      BY <1>1, <1>2, <1>4, <3>1 DEF Contents
    <3>2. CASE k # n
      <4>1. files'.ids[k] = files.ids[k]
        BY <1>1, <1>4, <3>2 DEF Contents
      <4>2. /\ files.file[files.ids[k]] = k /\ k \notin files.released
            /\ files.ids[k] \in Place
        BY <1>1, <2>1, <4>1 DEF FilesInv, Good, PairInv, Contents, Entry
      <4>3. files.ids[k] # i
        BY <1>6, <2>1, <3>2, <4>1
      <4> QED
        BY <1>1, <1>4, <4>1, <4>2, <4>3 DEF Contents
    <3> QED
      BY <3>1, <3>2
  <2>2. ASSUME NEW j \in Place, files'.file[j] # NoEntry
        PROVE  files'.ids[files'.file[j]] = j /\ files'.count[j] \in Nat
    <3>1. CASE j = i
      BY <1>1, <1>4, <3>1 DEF Contents
    <3>2. CASE j # i
      <4>1. files'.file[j] = files.file[j] /\ files'.count[j] = files.count[j]
        BY <1>1, <1>4, <3>2 DEF Contents
      <4>2. /\ files.ids[files.file[j]] = j /\ files.count[j] \in Nat
            /\ files.file[j] \in Place
        BY <1>1, <2>2, <4>1 DEF FilesInv, Good, PairInv, Contents, Entry
      <4>3. files.file[j] # n
        BY <1>2, <4>2 DEF NoEntry, Place
      <4> QED
        BY <1>1, <1>4, <4>1, <4>2, <4>3 DEF Contents
    <3> QED
      BY <3>1, <3>2
  <2> QED
    BY <2>1, <2>2 DEF PairInv
<1>8. OnFileInv(files', on')
  BY <1>1, <1>3, <1>4 DEF FilesInv, Good, OnFileInv, Contents
<1>9. CountInv(files', on')
  <2>1. Readers(on', i) = {}
    BY <1>3, <1>4 DEF Readers
  <2>2. IsFiniteSet(Readers(on', i)) /\ Cardinality(Readers(on', i)) = 0
    BY <2>1, FS_EmptySet
  <2>3. files'.count[i] = 0
    BY <1>1, <1>4 DEF Contents
  <2>4. \A j \in Place : j # i => files'.file[j] = files.file[j] /\ files'.count[j] = files.count[j]
    BY <1>1, <1>4 DEF Contents
  <2> QED
    BY <1>4, <2>2, <2>3, <2>4 DEF FilesInv, Good, CountInv
<1>10. FreshInv' /\ KeptInv'
  <2>1. FreshInv'
    BY <1>1, <1>2, <1>4 DEF FilesInv, FreshInv, Contents, Place
  <2>2. KeptInv'
    <3>1. ASSUME NEW k \in Place, k < n', k \notin files'.released
          PROVE  files'.ids[k] # NoEntry
      <4>1. CASE k = n
        <5>1. files'.ids[k] = i
          BY <1>1, <1>4, <4>1 DEF Contents
        <5> QED
          BY <1>1, <5>1 DEF Place, NoEntry
      <4>2. CASE k # n
        <5>1. k < n
          BY <1>1, <1>4, <3>1, <4>2 DEF Place
        <5> QED
          BY <1>1, <1>4, <3>1, <4>2, <5>1 DEF FilesInv, KeptInv, Contents
      <4> QED
        BY <4>1, <4>2
    <3> QED
      BY <3>1 DEF KeptInv
  <2> QED
    BY <2>1, <2>2
<1>11. \A k \in Place \ {n} : files'.ids[k] # NoEntry =>
         files.ids[k] # NoEntry /\ files'.count[files'.ids[k]] = files.count[files.ids[k]]
  BY <1>1, <1>4, <1>6 DEF Contents, Entry
<1> QED
  BY <1>1, <1>2, <1>3, <1>4, <1>5, <1>7, <1>8, <1>9, <1>10, <1>11 DEF Good

LEMMA RegisterStep ==
  ASSUME FilesInv, OpenOn \/ \E s \in Conn : Written(s)
  PROVE  FilesInv'
<1>1. /\ call = NoCall /\ Register /\ call'.label = nextFile
      /\ \/ call' = [pc |-> "open", label |-> nextFile]
         \/ \E s \in Conn : call' = [pc |-> "move", label |-> nextFile, snapshot |-> s]
  BY DEF OpenOn, Written
<1>2. /\ on' = on /\ conn' = conn /\ nextFile' = nextFile + 1
      /\ length' = length + 1 /\ length < MaxFiles
  BY <1>1 DEF Register
<1>3. FilesTypes'
  BY <1>1, <1>2, Registers, MaxFilesAssumption DEF FilesInv, FilesTypes
<1>4. ConnInv'
  BY <1>2 DEF FilesInv, ConnInv
<1>5. FilesCallInv'
  <2>1. nextFile \notin files'.released /\ \A c \in Conn : on[c].label # nextFile
    BY <1>1, Registers
  <2>2. nextFile < nextFile'
    BY <1>2 DEF FilesInv, FilesTypes
  <2> QED
    BY <1>1, <1>2, <2>1, <2>2 DEF FilesCallInv
<1>6. UsedInv'
  <2>1. ASSUME NEW n \in Place, n # nextFile, files'.ids[n] # NoEntry,
               files'.count[files'.ids[n]] = 0
        PROVE  FALSE
    BY <1>1, <2>1, Registers DEF FilesInv, UsedInv, NoCall
  <2> QED
    BY <1>1, <2>1 DEF UsedInv
<1> QED
  BY <1>1, <1>3, <1>4, <1>5, <1>6, Registers DEF FilesInv

LEMMA OpenedStep == ASSUME FilesInv, NEW c \in Conn, Opened(c) PROVE FilesInv'
<1> DEFINE n == call.label
<1>1. n \in Place /\ call.pc = "open" /\ on[c] = OnNothing /\ conn[c] = "closed" /\ n < nextFile
  BY DEF Opened, FilesInv, FilesTypes, ConnInv, FilesCallInv, NoCall
<1>2. n \notin files.released /\ \A e \in Conn : on[e].label # n
  BY <1>1 DEF FilesInv, FilesCallInv
<1>3. files.ids[n] # NoEntry
  BY <1>1, <1>2 DEF FilesInv, KeptInv
<1>4. /\ files' = XOpen(files, n) /\ on' = [on EXCEPT ![c] = [label |-> n, id |-> files.ids[n]]]
      /\ call' = [pc |-> "check", label |-> n, conn |-> c]
      /\ conn' = [conn EXCEPT ![c] = "open"] /\ UNCHANGED <<nextFile, length>>
  BY DEF Opened
<1>5. files \in Contents /\ on \in [Conn -> Handle] /\ Good(files, on)
  BY DEF FilesInv, FilesTypes
<1> HIDE DEF n
<1>6. /\ files' \in Contents /\ on' \in [Conn -> Handle] /\ Good(files', on')
      /\ After(files, files') /\ files'.ids = files.ids
      /\ files'.count[files.ids[n]] = files.count[files.ids[n]] + 1
  BY <1>1, <1>3, <1>4, <1>5, Opens
<1>7. FreshInv' /\ KeptInv'
  BY <1>4, <1>6, LabelsKept DEF FilesInv
<1>8. FilesTypes' /\ ConnInv'
  BY <1>1, <1>4, <1>6 DEF FilesInv, FilesTypes, ConnInv
<1>9. FilesCallInv'
  BY <1>1, <1>2, <1>4, <1>5 DEF FilesCallInv
<1>10. UsedInv'
  <2>1. files.count[files.ids[n]] \in Nat
    <3>1. files.ids[n] \in Place /\ files.file[files.ids[n]] = n
      BY <1>1, <1>3, <1>5 DEF Contents, Entry, Good, PairInv
    <3> QED
      BY <1>1, <1>5, <3>1 DEF Good, PairInv, Place, NoEntry
  <2>2. files'.count[files'.ids[n]] # 0
    BY <1>6, <2>1
  <2>3. ASSUME NEW k \in Place, files'.ids[k] # NoEntry, files'.count[files'.ids[k]] = 0
        PROVE  FALSE
    <3>1. files.ids[k] # NoEntry /\ files.count[files.ids[k]] = 0
      BY <1>6, <2>3 DEF After
    <3>2. k = n
      BY <3>1 DEF FilesInv, UsedInv, n
    <3> QED
      BY <2>2, <2>3, <3>2
  <2> QED
    BY <2>3 DEF UsedInv
<1> QED
  BY <1>6, <1>7, <1>8, <1>9, <1>10 DEF FilesInv

(* The file of a call that ends is removed, if nobody has it open. *)
LEMMA CallEnds ==
  ASSUME FilesInv, call.pc \in {"open", "move"}, call' = NoCall,
         files' = IF OpenHandles(files, call.label) = 0 THEN Remove(files, call.label)
                  ELSE files,
         UNCHANGED <<nextFile, length, conn, on>>
  PROVE  FilesInv'
<1> DEFINE n == call.label
<1>1. n \in Place /\ files \in Contents /\ on \in [Conn -> Handle] /\ Good(files, on)
  BY DEF FilesInv, FilesTypes, NoCall
<1>2. \A k \in Place : files.ids[k] # NoEntry /\ files.count[files.ids[k]] = 0 => k = n
  BY DEF FilesInv, UsedInv
<1> HIDE DEF n
<1>3. /\ files' \in Contents /\ Good(files', on') /\ After(files, files')
      /\ files'.ids[n] # NoEntry => files'.count[files'.ids[n]] # 0
  <2>1. CASE files.ids[n] = NoEntry
    <3>1. files' = files
      BY <2>1 DEF OpenHandles, Remove, n
    <3> QED
      BY <1>1, <2>1, <3>1 DEF After
  <2>2. CASE files.ids[n] # NoEntry /\ files.count[files.ids[n]] = 0
    <3>1. files' = Remove(files, n)
      BY <2>2 DEF OpenHandles, n
    <3> QED
      BY <1>1, <2>2, <3>1, Removes
  <2>3. CASE files.ids[n] # NoEntry /\ files.count[files.ids[n]] # 0
    <3>1. files' = files
      BY <2>3 DEF OpenHandles, n
    <3> QED
      BY <1>1, <2>3, <3>1 DEF After
  <2> QED
    BY <2>1, <2>2, <2>3
<1>4. FreshInv' /\ KeptInv'
  BY <1>3, LabelsKept DEF FilesInv
<1>5. FilesTypes' /\ ConnInv' /\ FilesCallInv'
  BY <1>3 DEF FilesInv, FilesTypes, ConnInv, FilesCallInv, NoCall
<1>6. UsedInv'
  <2>1. ASSUME NEW k \in Place, files'.ids[k] # NoEntry, files'.count[files'.ids[k]] = 0
        PROVE  FALSE
    <3>1. files.ids[k] # NoEntry /\ files.count[files.ids[k]] = 0
      BY <1>3, <2>1 DEF After
    <3> QED
      BY <1>2, <1>3, <2>1, <3>1
  <2> QED
    BY <2>1 DEF UsedInv
<1> QED
  BY <1>3, <1>4, <1>5, <1>6 DEF FilesInv

LEMMA OpenFailsStep == ASSUME FilesInv, OpenFails PROVE FilesInv'
<1> DEFINE n == call.label
<1>1. /\ n \in Place /\ files.ids[n] # NoEntry /\ files \in Contents
      /\ on \in [Conn -> Handle] /\ Good(files, on)
  BY DEF OpenFails, FilesInv, FilesTypes, FilesCallInv, KeptInv, NoCall
<1>2. /\ call.pc = "open" /\ call' = NoCall /\ UNCHANGED <<nextFile, length, conn, on>>
      /\ \E r \in {files, XClose(XOpen(files, n), files.ids[n])} :
           files' = IF OpenHandles(r, n) = 0 THEN Remove(r, n) ELSE r
  BY DEF OpenFails
<1> HIDE DEF n
<1>3. OpenHandles(Remove(files, n), n) = 0 /\ Remove(Remove(files, n), n) = Remove(files, n)
  BY <1>1 DEF OpenHandles, Remove, Contents
<1>4. files' = IF OpenHandles(files, n) = 0 THEN Remove(files, n) ELSE files
  BY <1>1, <1>2, <1>3, Probes
<1> QED
  BY <1>2, <1>4, CallEnds DEF n

LEMMA CheckedStep == ASSUME FilesInv, Checked PROVE FilesInv'
<1>1. FilesTypes' /\ FreshInv' /\ KeptInv' /\ ConnInv' /\ FilesCallInv'
  BY DEF Checked, FilesInv, FilesTypes, FreshInv, KeptInv, ConnInv, FilesCallInv, NoCall
<1>2. Good(files', on') /\ UsedInv'
  BY DEF Checked, FilesInv, Good, PairInv, OnFileInv, CountInv, Readers, UsedInv
<1> QED
  BY <1>1, <1>2 DEF FilesInv

LEMMA CheckFailsStep == ASSUME FilesInv, CheckFails PROVE FilesInv'
<1> DEFINE n == call.label
           c == call.conn
           r == XClose(files, on[c].id)
<1>1. /\ call.pc = "check" /\ call' = NoCall /\ on' = [on EXCEPT ![c] = OnNothing]
      /\ conn' = [conn EXCEPT ![c] = "closed"] /\ UNCHANGED <<nextFile, length>>
      /\ files' = [ids |-> r.ids, file |-> r.file, count |-> r.count,
                   released |-> r.released \union {n}]
  BY DEF CheckFails
<1>2. /\ n \in Place /\ n < nextFile /\ c \in Conn /\ files \in Contents
      /\ on \in [Conn -> Handle]
      /\ \A e \in Conn : on[e].label = n <=> e = c
  BY <1>1 DEF FilesInv, FilesTypes, FilesCallInv, NoCall
<1> HIDE DEF r
<1>3. /\ r \in Contents /\ on' \in [Conn -> Handle] /\ Good(r, on') /\ After(files, r)
  BY <1>1, <1>2, Closes DEF FilesInv, r
<1>4. \A k \in Place : files.ids[k] # NoEntry => files.count[files.ids[k]] # 0
  BY <1>1 DEF FilesInv, UsedInv
<1> HIDE DEF n, c
<1>5. n \in r.released
  <2>1. SUFFICES ASSUME n \notin r.released PROVE FALSE
    OBVIOUS
  <2>2. r.ids[n] = files.ids[n] /\ files.ids[n] # NoEntry
    BY <1>2, <1>3, <2>1 DEF FilesInv, KeptInv, After
  <2>3. r.ids[n] \in Place /\ r.file[r.ids[n]] = n /\ n # NoEntry
    <3>1. r.ids[n] \in Place
      BY <1>2, <1>3, <2>2 DEF Contents, Entry
    <3>2. n # NoEntry
      BY <1>2 DEF NoEntry, Place
    <3> QED
      BY <1>2, <1>3, <2>2, <3>1, <3>2 DEF Good, PairInv
  <2>4. Readers(on', r.ids[n]) = {}
    <3>1. SUFFICES ASSUME NEW e \in Conn, on'[e].id = r.ids[n] PROVE FALSE
      BY DEF Readers
    <3>2. on'[e] # OnNothing
      BY <2>2, <3>1 DEF OnNothing
    <3>3. on'[e].label = n
      BY <1>3, <2>3, <3>1, <3>2 DEF Good, OnFileInv
    <3>4. e # c /\ on'[e] = on[e]
      BY <1>1, <1>2, <3>2
    <3> QED
      BY <1>2, <3>3, <3>4
  <2>5. r.count[r.ids[n]] = 0
    BY <1>3, <2>3, <2>4, FS_EmptySet DEF Good, CountInv
  <2> QED
    BY <1>2, <1>3, <1>4, <2>2, <2>5 DEF After
<1>6. files' = r
  <2>1. r.released \union {n} = r.released
    BY <1>5
  <2> QED
    BY <1>1, <1>3, <2>1 DEF Contents
<1>7. FreshInv' /\ KeptInv'
  BY <1>1, <1>3, <1>6, LabelsKept DEF FilesInv
<1>8. FilesTypes' /\ FilesCallInv'
  BY <1>1, <1>2, <1>3, <1>6 DEF FilesInv, FilesTypes, FilesCallInv, NoCall
<1>9. ConnInv'
  BY <1>1, <1>2 DEF FilesInv, FilesTypes, ConnInv
<1>10. UsedInv'
  BY <1>3, <1>4, <1>6 DEF After, UsedInv
<1> QED
  BY <1>3, <1>6, <1>7, <1>8, <1>9, <1>10 DEF FilesInv

LEMMA RebaseStep == ASSUME FilesInv, NEW c \in Conn, Rebase(c) PROVE FilesInv'
<1> DEFINE n == call.label
           j == on[c].id
           r == XClose(files, j)
           o == [on EXCEPT ![c] = OnNothing]
<1>1. /\ call.pc = "move" /\ conn[c] = "open" /\ c # call.snapshot
      /\ on[c].label = on[call.snapshot].label /\ files.ids[n] # NoEntry
      /\ files' = XClose(XOpen(files, n), j)
      /\ on' = [on EXCEPT ![c] = [label |-> n, id |-> files.ids[n]]]
      /\ UNCHANGED <<nextFile, length, conn, call>>
  BY DEF Rebase, MayRebase
<1>2. /\ n \in Place /\ files \in Contents /\ on \in [Conn -> Handle] /\ Good(files, on)
      /\ on[c].label # n /\ call.snapshot \in Conn
  BY <1>1 DEF FilesInv, FilesTypes, FilesCallInv, NoCall
<1> HIDE DEF n
<1>3. /\ r \in Contents /\ o \in [Conn -> Handle] /\ Good(r, o) /\ After(files, r)
  BY <1>2, Closes
<1>4. r.ids[n] = files.ids[n] /\ files' = XOpen(r, n)
  <2>1. j \in Entry /\ files.ids[n] \in Place /\ files.file[files.ids[n]] = n
    BY <1>1, <1>2 DEF Contents, Entry, Handle, Good, PairInv
  <2>2. CASE on[c] = OnNothing
    <3>1. j = NoEntry /\ j # files.ids[n]
      BY <1>1, <2>2 DEF OnNothing
    <3> QED
      BY <1>1, <1>2, <2>1, <3>1, Commute
  <2>3. CASE on[c] # OnNothing
    <3>1. /\ on[c].label \in Place /\ j \in Place /\ files.file[j] = on[c].label
          /\ on[c].label # NoEntry
      BY <1>2, <2>3 DEF Good, OnFileInv, NoEntry, Place
    <3>2. files.ids[files.file[j]] = j /\ files.count[j] \in Nat
      BY <1>2, <3>1 DEF Good, PairInv
    <3>3. j # files.ids[n] /\ files.file[j] \in Place \ {n}
      BY <1>2, <2>1, <3>1
    <3> QED
      BY <1>1, <1>2, <2>1, <3>2, <3>3, Commute
  <2> QED
    BY <2>2, <2>3
<1>5. o[c] = OnNothing /\ on' = [o EXCEPT ![c] = [label |-> n, id |-> r.ids[n]]]
  BY <1>1, <1>2, <1>4
<1> HIDE DEF r, o
<1>6. /\ files' \in Contents /\ on' \in [Conn -> Handle] /\ Good(files', on')
      /\ After(r, files')
  <2>1. n \in Place /\ r.ids[n] # NoEntry
    BY <1>1, <1>2, <1>4
  <2>2. files' = XOpen(r, n)
    BY <1>4
  <2> QED
    BY <1>3, <1>5, <2>1, <2>2, Opens
<1>7. After(files, files')
  <2>1. \A k \in Place : files'.ids[k] = files.ids[k]
                         \/ (files'.ids[k] = NoEntry /\ k \in files'.released)
    BY <1>3, <1>6 DEF After
  <2>2. \A k \in files'.released : k \in files.released \/ files.ids[k] # NoEntry
    BY <1>3, <1>6 DEF After, Contents
  <2>3. ASSUME NEW k \in Place, files'.ids[k] # NoEntry, files'.count[files'.ids[k]] = 0
        PROVE  files.count[files.ids[k]] = 0
    <3>1. r.ids[k] # NoEntry /\ r.count[r.ids[k]] = 0
      BY <1>6, <2>3 DEF After
    <3> QED
      BY <1>3, <3>1 DEF After
  <2> QED
    BY <1>3, <1>6, <2>1, <2>2, <2>3 DEF After
<1>8. FreshInv' /\ KeptInv' /\ UsedInv'
  BY <1>1, <1>6, <1>7, SameCallStep
<1>9. FilesTypes' /\ ConnInv'
  BY <1>1, <1>6 DEF FilesInv, FilesTypes, ConnInv
<1>10. FilesCallInv'
  BY <1>1, <1>2 DEF FilesInv, FilesCallInv, n
<1> QED
  BY <1>6, <1>8, <1>9, <1>10 DEF FilesInv

LEMMA RebaseFailsStep == ASSUME FilesInv, NEW c \in Conn, RebaseFails(c) PROVE FilesInv'
<1> DEFINE n == call.label
<1>1. /\ call.pc = "move" /\ files.ids[n] # NoEntry
      /\ files' = XClose(XOpen(files, n), files.ids[n])
      /\ UNCHANGED <<nextFile, length, conn, on, call>>
  BY DEF RebaseFails, MayRebase
<1>2. n \in Place /\ files \in Contents /\ on \in [Conn -> Handle] /\ Good(files, on)
  BY <1>1 DEF FilesInv, FilesTypes, NoCall
<1> HIDE DEF n
<1>3. files' \in Contents /\ Good(files', on') /\ After(files, files')
  <2>1. CASE files.count[files.ids[n]] = 0
    <3>1. files' = Remove(files, n)
      BY <1>1, <1>2, <2>1, Probes
    <3> QED
      BY <1>1, <1>2, <2>1, <3>1, Removes
  <2>2. CASE files.count[files.ids[n]] # 0
    <3>1. files' = files
      BY <1>1, <1>2, <2>2, Probes
    <3> QED
      BY <1>1, <1>2, <3>1 DEF After
  <2> QED
    BY <2>1, <2>2
<1>4. FreshInv' /\ KeptInv' /\ UsedInv'
  BY <1>1, <1>2, <1>3, SameCallStep
<1>5. FilesTypes' /\ ConnInv' /\ FilesCallInv'
  BY <1>1, <1>3 DEF FilesInv, FilesTypes, ConnInv, FilesCallInv
<1> QED
  BY <1>3, <1>4, <1>5 DEF FilesInv

LEMMA FilesInvKept == FilesInv /\ [FilesNext]_filesVars => FilesInv'
<1> SUFFICES ASSUME FilesInv, [FilesNext]_filesVars PROVE FilesInv'
  OBVIOUS
<1>1. CASE StoreFile
  BY <1>1, StoreFileStep
<1>2. CASE OpenOn \/ \E c \in Conn : Written(c)
  BY <1>2, RegisterStep
<1>3. CASE OpenFails \/ Checked \/ CheckFails
  BY <1>3, OpenFailsStep, CheckedStep, CheckFailsStep
<1>4. CASE MoveEnds
  BY <1>4, CallEnds DEF MoveEnds
<1>5. ASSUME NEW c \in Conn, New(c) PROVE FilesInv'
  BY <1>5, ConnStep DEF New
<1>6. ASSUME NEW c \in Conn, CloseConn(c) \/ Opened(c) \/ Rebase(c) \/ RebaseFails(c) PROVE FilesInv'
  BY <1>6, CloseStep, OpenedStep, RebaseStep, RebaseFailsStep
<1>7. ASSUME NEW c \in Conn, NEW d \in Conn, Fork(c, d) PROVE FilesInv'
  BY <1>7, ForkStep
<1>8. CASE UNCHANGED filesVars
  BY <1>8 DEF filesVars, FilesInv, FilesTypes, Good, PairInv, OnFileInv, CountInv, Readers, FreshInv,
              KeptInv, ConnInv, FilesCallInv, UsedInv
<1> QED
  BY <1>1, <1>2, <1>3, <1>4, <1>5, <1>6, <1>7, <1>8 DEF FilesNext

LEMMA IInvGives == FilesInv => ReadersKeepTheFile /\ UnreadIsReleased
<1> SUFFICES ASSUME FilesInv PROVE ReadersKeepTheFile /\ UnreadIsReleased
  OBVIOUS
<1>1. ReadersKeepTheFile
  <2>1. SUFFICES ASSUME NEW c \in Conn, on[c] # OnNothing
                 PROVE  /\ files.ids[on[c].label] = on[c].id
                        /\ files.file[on[c].id] = on[c].label
                        /\ on[c].label \notin files.released
    BY DEF ReadersKeepTheFile
  <2>2. /\ on[c].label \in Place /\ on[c].id \in Place
        /\ files.file[on[c].id] = on[c].label
    BY <2>1 DEF FilesInv, Good, OnFileInv
  <2>3. files.ids[on[c].label] = on[c].id /\ on[c].id # NoEntry
    BY <2>2 DEF FilesInv, Good, PairInv, NoEntry, Place
  <2> QED
    BY <2>2, <2>3 DEF FilesInv, Good, PairInv
<1>2. UnreadIsReleased
  <2>1. SUFFICES ASSUME call = NoCall, NEW n \in Place, n < nextFile, n \notin files.released
                 PROVE  \E c \in Conn : on[c].label = n
    BY DEF UnreadIsReleased
  <2>2. files.ids[n] # NoEntry /\ files.count[files.ids[n]] # 0
    BY <2>1 DEF FilesInv, KeptInv, UsedInv, NoCall
  <2>3. files.ids[n] \in Place /\ files.file[files.ids[n]] = n /\ n # NoEntry
    <3>1. files.ids[n] \in Place
      BY <2>1, <2>2 DEF FilesInv, FilesTypes, Contents, Entry
    <3>2. n # NoEntry
      BY DEF NoEntry, Place
    <3> QED
      BY <2>1, <2>2, <3>1, <3>2 DEF FilesInv, Good, PairInv
  <2>4. Readers(on, files.ids[n]) # {}
    BY <2>2, <2>3, FS_EmptySet DEF FilesInv, Good, CountInv
  <2>5. PICK c \in Conn : on[c].id = files.ids[n]
    BY <2>4 DEF Readers
  <2>6. on[c] # OnNothing
    BY <2>2, <2>5 DEF OnNothing
  <2> QED
    BY <2>3, <2>5, <2>6 DEF FilesInv, Good, OnFileInv
<1> QED
  BY <1>1, <1>2

(***************************************************************************)
(* Theorems                                                                *)
(***************************************************************************)
(* Whatever is opened, forked, closed, left open or moved, and whichever    *)
(* step fails: a connection that reads a base keeps its file registered    *)
(* and its read locks held (class Files and openOn).                       *)
THEOREM ReadersAreHeld == FilesSpec => []ReadersKeepTheFile
<1>1. FilesInit => FilesInv
  BY InitFilesInv
<1>2. FilesInv /\ [FilesNext]_filesVars => FilesInv'
  BY FilesInvKept
<1>3. FilesInv => ReadersKeepTheFile
  BY IInvGives
<1> QED
  BY <1>1, <1>2, <1>3, PTL DEF FilesSpec

(* And no call leaves the locks of a snapshot behind that nobody reads     *)
(* (Files.close and the finally blocks of openOn and write).                *)
THEOREM NothingStaysHeld == FilesSpec => []UnreadIsReleased
<1>1. FilesInit => FilesInv
  BY InitFilesInv
<1>2. FilesInv /\ [FilesNext]_filesVars => FilesInv'
  BY FilesInvKept
<1>3. FilesInv => UnreadIsReleased
  BY IInvGives
<1> QED
  BY <1>1, <1>2, <1>3, PTL DEF FilesSpec

(***************************************************************************)
(* What is read of such a file: readOnlyFile, whose `Reader' here is any    *)
(* file with blocks of any size, and with any number of them kept.          *)
(***************************************************************************)
CONSTANTS Source, Size, BlockSize, Capacity
VARIABLES cached, turn, previousEnd, at, end, buffer, next
Reader == INSTANCE ReadOnlyFile

(***************************************************************************)
(* Reading a file: the invariant                                           *)
(***************************************************************************)
RangeInv ==
  /\ at \in Nat /\ end \in Nat /\ next \in Nat \union {Reader!Done}
  /\ 0 .. end - at - 1 \subseteq DOMAIN buffer

(* A block that is kept is the one of its index. *)
CachedInv == \A i \in DOMAIN cached : cached[i].block = Reader!Block(i)

(* What lies below the block that is read next has been read. *)
BelowInv == \A k \in 0 .. end - at - 1 : at + k < next * BlockSize => buffer[k] = Source[at + k]
LoopInv == next # Reader!Done => end <= Size /\ BelowInv

ReaderInv == RangeInv /\ CachedInv /\ LoopInv /\ Reader!ReadsAreExact /\ Reader!CacheIsBounded

(***************************************************************************)
(* Reading a file: arithmetic and bytes                                    *)
(***************************************************************************)
(* The block of a position begins at or before it, and ends after it. *)
LEMMA IndexBounds ==
  ASSUME Reader!Sizes, NEW a \in Nat
  PROVE  /\ Reader!IndexOf(a) \in Nat
         /\ Reader!IndexOf(a) * BlockSize <= a /\ a < Reader!IndexOf(a) * BlockSize + BlockSize
<1> DEFINE q == a \div BlockSize  r == a % BlockSize
<1>1. BlockSize \in Nat \ {0}
  BY DEF Reader!Sizes
<1>2. q \in Int /\ r \in Int /\ a = BlockSize * q + r /\ 0 <= r /\ r < BlockSize
  BY <1>1
<1>3. q \in Nat
  BY <1>1, <1>2
<1> QED
  BY <1>1, <1>2, <1>3 DEF Reader!IndexOf

(* The finite sets of `Reader' are those of here. *)
LEMMA SameSets ==
  ASSUME NEW S
  PROVE  /\ Reader!IsFiniteSet(S) = IsFiniteSet(S)
         /\ Reader!Cardinality(S) = Cardinality(S)
<1>1. Reader!IsFiniteSet(S) = IsFiniteSet(S)
  BY DEF Reader!IsFiniteSet, IsFiniteSet
<1>2. Reader!Cardinality(S) = Cardinality(S)
  BY DEF Reader!Cardinality, Cardinality
<1> QED
  BY <1>1, <1>2

LEMMA BoundedCache ==
  Reader!CacheIsBounded <=> IsFiniteSet(DOMAIN cached) /\ Cardinality(DOMAIN cached) <= Capacity
BY SameSets DEF Reader!CacheIsBounded

LEMMA BoundedCacheNext ==
  Reader!CacheIsBounded' <=> IsFiniteSet(DOMAIN cached') /\ Cardinality(DOMAIN cached') <= Capacity
BY SameSets DEF Reader!CacheIsBounded

(* Least is the smaller of two. *)
LEMMA LeastOfTwo ==
  ASSUME NEW a \in Int, NEW b \in Int
  PROVE  /\ Reader!Least(a, b) \in Int /\ Reader!Least(a, b) \in {a, b}
         /\ Reader!Least(a, b) <= a /\ Reader!Least(a, b) <= b
BY DEF Reader!Least

(* Most is the greater of two. *)
LEMMA MostOfTwo ==
  ASSUME NEW a \in Int, NEW b \in Int
  PROVE  /\ Reader!Most(a, b) \in Int /\ Reader!Most(a, b) \in {a, b}
         /\ a <= Reader!Most(a, b) /\ b <= Reader!Most(a, b)
BY DEF Reader!Most

(* A part of some bytes of the file is bytes of the file. *)
LEMMA SubArrayOfBytes ==
  ASSUME NEW a \in Int, NEW b \in Int, NEW f \in Int, NEW t \in Int,
         a <= f, t <= b
  PROVE  Reader!SubArray(Reader!Bytes(a, b), f - a, t - a) = Reader!Bytes(f, t)
<1>1. (t - a) - (f - a) = t - f
  OBVIOUS
<1>2. \A k \in 0 .. t - f - 1 : Reader!Bytes(a, b).byte[(f - a) + k] = Source[f + k]
  <2> TAKE k \in 0 .. t - f - 1
  <2>1. (f - a) + k \in 0 .. b - a - 1
    OBVIOUS
  <2>2. Reader!Bytes(a, b).byte[(f - a) + k] = Source[a + ((f - a) + k)]
    BY <2>1 DEF Reader!Bytes
  <2> QED
    BY <2>2
<1>3. [k \in 0 .. t - f - 1 |-> Reader!Bytes(a, b).byte[(f - a) + k]]
        = [k \in 0 .. t - f - 1 |-> Source[f + k]]
  BY <1>2, Zenon
<1> QED
  BY <1>1, <1>3 DEF Reader!SubArray, Reader!Bytes

(* Bytes `f' to `t' of the file are set where they belong. *)
LEMMA SetBytes ==
  ASSUME NEW into, NEW a \in Int, NEW f \in Int, NEW t \in Int, a <= f, f <= t,
         NEW k \in DOMAIN into, k \in Int
  PROVE  /\ DOMAIN Reader!Set(into, Reader!Bytes(f, t), f - a) = DOMAIN into
         /\ Reader!Set(into, Reader!Bytes(f, t), f - a)[k]
              = IF f <= a + k /\ a + k < t THEN Source[a + k] ELSE into[k]
<1>1. k \in (f - a) .. (f - a) + (t - f) - 1 <=> f <= a + k /\ a + k < t
  OBVIOUS
<1>2. Reader!Bytes(f, t).length = t - f
  BY DEF Reader!Bytes
<1>3. ASSUME f <= a + k, a + k < t PROVE Reader!Bytes(f, t).byte[k - (f - a)] = Source[a + k]
  <2>1. k - (f - a) \in 0 .. t - f - 1 /\ f + (k - (f - a)) = a + k
    BY <1>3
  <2> QED
    BY <2>1 DEF Reader!Bytes
<1> QED
  BY <1>1, <1>2, <1>3 DEF Reader!Set

(***************************************************************************)
(* Reading a file: the steps                                               *)
(***************************************************************************)
LEMMA ReaderInit ==
  ASSUME Reader!Sizes, Reader!Init
  PROVE  ReaderInv
<1>1. RangeInv /\ CachedInv /\ LoopInv /\ Reader!ReadsAreExact
  BY DEF Reader!Init, RangeInv, CachedInv, LoopInv, Reader!ReadsAreExact, Reader!Done
<1>2. Reader!CacheIsBounded
  BY FS_EmptySet, BoundedCache DEF Reader!Init, Reader!Sizes
<1> QED
  BY <1>1, <1>2 DEF ReaderInv

LEMMA ReadNothingStep ==
  ASSUME Reader!Sizes, ReaderInv, NEW a \in Nat, NEW size \in Nat, Reader!ReadNothing(a, size)
  PROVE  ReaderInv'
<1> USE DEF ReaderInv
<1>1. RangeInv'
  BY DEF Reader!ReadNothing, RangeInv
<1>2. CachedInv' /\ Reader!CacheIsBounded'
  BY DEF Reader!ReadNothing, CachedInv, Reader!CacheIsBounded
<1>3. LoopInv' /\ Reader!ReadsAreExact'
  BY DEF Reader!ReadNothing, LoopInv, Reader!ReadsAreExact
<1> QED
  BY <1>1, <1>2, <1>3

(* A read of its own bytes is exact; one of whole blocks has read nothing   *)
(* yet, and nothing of its range lies below the first.                     *)
LEMMA ReadStep ==
  ASSUME Reader!Sizes, ReaderInv, NEW a \in Nat, NEW size \in Nat, Reader!Read(a, size)
  PROVE  ReaderInv'
<1> DEFINE e == Reader!Least(a + size, Size)
           empty == [k \in 0 .. size - 1 |-> 0]
<1>1. e \in Int /\ e <= a + size /\ e <= Size /\ e > a
  BY LeastOfTwo DEF Reader!Sizes, Reader!Read
<1>2. at' = a /\ end' = e /\ DOMAIN empty = 0 .. size - 1
  BY DEF Reader!Read
<1>3. 0 .. e - a - 1 \subseteq DOMAIN empty
  BY <1>1, <1>2
<1>4. CachedInv' /\ Reader!CacheIsBounded'
  BY DEF Reader!Read, ReaderInv, CachedInv, Reader!CacheIsBounded
<1>5. Reader!IndexOf(a) \in Nat /\ Reader!IndexOf(a) * BlockSize <= a
  BY IndexBounds
<1>6. CASE Reader!Whole(a, e)
  <2>1. next' = Reader!IndexOf(a) /\ buffer' = empty
    BY <1>6 DEF Reader!Read
  <2>2. RangeInv'
    BY <1>1, <1>2, <1>3, <1>5, <2>1 DEF RangeInv
  <2>3. BelowInv'
    <3>1. next' * BlockSize <= a /\ next' * BlockSize \in Int
      BY <1>5, <2>1 DEF Reader!Sizes
    <3> QED
      BY <1>1, <1>2, <3>1 DEF BelowInv
  <2>4. next' # Reader!Done
    BY <1>5, <2>1 DEF Reader!Done
  <2>5. LoopInv' /\ Reader!ReadsAreExact'
    BY <1>1, <1>2, <2>3, <2>4 DEF LoopInv, Reader!ReadsAreExact
  <2> QED
    BY <1>4, <2>2, <2>5 DEF ReaderInv
<1>7. CASE ~Reader!Whole(a, e)
  <2>1. next' = Reader!Done /\ buffer' = Reader!Set(empty, Reader!Bytes(a, e), a - a)
    BY <1>7 DEF Reader!Read
  <2>2. \A k \in 0 .. e - a - 1 : k \in DOMAIN buffer' /\ buffer'[k] = Source[a + k]
    <3> TAKE k \in 0 .. e - a - 1
    <3>1. k \in DOMAIN empty /\ k \in Int /\ a <= a + k /\ a + k < e
      BY <1>1, <1>3
    <3>2. /\ DOMAIN Reader!Set(empty, Reader!Bytes(a, e), a - a) = DOMAIN empty
          /\ Reader!Set(empty, Reader!Bytes(a, e), a - a)[k] = Source[a + k]
      <4> HIDE DEF empty, e
      <4> QED
        BY <1>1, <3>1, SetBytes
    <3> QED
      BY <2>1, <3>1, <3>2
  <2>3. RangeInv'
    BY <1>1, <1>2, <2>1, <2>2 DEF RangeInv
  <2>4. LoopInv' /\ Reader!ReadsAreExact'
    BY <1>2, <2>1, <2>2 DEF LoopInv, Reader!ReadsAreExact
  <2> QED
    BY <1>4, <2>3, <2>4 DEF ReaderInv
<1> QED
  BY <1>6, <1>7

(* block(index) keeps blocks of the file only, and no more than it may. *)
LEMMA FetchKeepsBlocks ==
  ASSUME Reader!Sizes, CachedInv, Reader!CacheIsBounded, NEW i, Reader!Fetch(i)
  PROVE  CachedInv' /\ Reader!CacheIsBounded'
<1> DEFINE b == Reader!BlockOf(i)
<1>1. b = Reader!Block(i)
  BY DEF Reader!BlockOf, CachedInv
<1> HIDE DEF b
<1>2. ASSUME NEW kept \in SUBSET DOMAIN cached, Reader!Keep(i, b, kept) PROVE CachedInv'
  <2> SUFFICES ASSUME NEW j \in DOMAIN cached' PROVE cached'[j].block = Reader!Block(j)
    BY DEF CachedInv
  <2>1. cached' = [k \in kept \union {i} |-> IF k = i THEN Reader!Used(b) ELSE cached[k]]
    BY <1>2 DEF Reader!Keep
  <2>2. j \in kept \union {i} /\ cached'[j] = IF j = i THEN Reader!Used(b) ELSE cached[j]
    BY <2>1
  <2> QED
    BY <1>1, <1>2, <2>2 DEF Reader!Used, CachedInv
<1>3. ASSUME NEW kept, Reader!Keep(i, b, kept) PROVE DOMAIN cached' = kept \union {i}
  BY <1>3 DEF Reader!Keep
<1>4. /\ IsFiniteSet(DOMAIN cached) /\ Cardinality(DOMAIN cached) \in Nat
      /\ Cardinality(DOMAIN cached) <= Capacity /\ Capacity \in Nat
  BY FS_CardinalityType, BoundedCache DEF Reader!Sizes
<1>5. CASE i \in DOMAIN cached
  <2>1. Reader!Keep(i, b, DOMAIN cached)
    BY <1>5 DEF Reader!Fetch, b
  <2>2. DOMAIN cached' = DOMAIN cached
    BY <1>3, <1>5, <2>1
  <2> QED
    BY <1>2, <1>4, <2>1, <2>2 DEF Reader!CacheIsBounded
<1>6. CASE i \notin DOMAIN cached /\ Capacity = 0
  <2>1. UNCHANGED cached
    BY <1>6 DEF Reader!Fetch, b
  <2> QED
    BY <2>1 DEF CachedInv, Reader!CacheIsBounded
<1>7. CASE /\ i \notin DOMAIN cached /\ Capacity # 0
           /\ Cardinality(DOMAIN cached) < Capacity
  <2>1. Reader!Keep(i, b, DOMAIN cached)
    BY <1>7, SameSets DEF Reader!Fetch, b
  <2>2. DOMAIN cached' = DOMAIN cached \union {i}
    BY <1>3, <2>1
  <2>3. /\ IsFiniteSet(DOMAIN cached \union {i})
        /\ Cardinality(DOMAIN cached \union {i}) = Cardinality(DOMAIN cached) + 1
    BY <1>4, <1>7, FS_AddElement
  <2>4. Reader!CacheIsBounded'
    BY <1>4, <1>7, <2>2, <2>3, BoundedCacheNext
  <2> QED
    BY <1>2, <2>1, <2>4
<1>8. CASE /\ i \notin DOMAIN cached /\ Capacity # 0
           /\ ~(Cardinality(DOMAIN cached) < Capacity)
  <2>1. PICK old \in DOMAIN cached : Reader!Keep(i, b, DOMAIN cached \ {old})
    BY <1>8, SameSets DEF Reader!Fetch, b
  <2> DEFINE kept == DOMAIN cached \ {old}
  <2>2. IsFiniteSet(kept) /\ Cardinality(kept) = Cardinality(DOMAIN cached) - 1
    BY <1>4, FS_RemoveElement
  <2>3. /\ IsFiniteSet(kept \union {i})
        /\ Cardinality(kept \union {i}) = Cardinality(kept) + 1
    BY <1>8, <2>2, FS_AddElement
  <2>4. DOMAIN cached' = kept \union {i}
    BY <1>3, <2>1
  <2>5. Reader!CacheIsBounded'
    BY <1>4, <2>2, <2>3, <2>4, BoundedCacheNext
  <2> QED
    BY <1>2, <2>1, <2>5
<1> QED
  BY <1>5, <1>6, <1>7, <1>8

(* Block `next' ends where the one after it begins, or at the end of the    *)
(* file; so what is set of it joins what was read below it.                *)
LEMMA CopyStep ==
  ASSUME Reader!Sizes, ReaderInv, Reader!Copy
  PROVE  ReaderInv'
<1> DEFINE start == next * BlockSize
           stop == Reader!Least(start + BlockSize, Size)
           b == Reader!BlockOf(next)
           from == Reader!Most(at, start)
           to == Reader!Least(end, stop)
<1>1. /\ at \in Nat /\ end \in Nat /\ next \in Nat /\ next # Reader!Done
      /\ end <= Size /\ Size \in Nat /\ BlockSize \in Nat \ {0} /\ BelowInv
      /\ 0 .. end - at - 1 \subseteq DOMAIN buffer
  BY DEF Reader!Sizes, ReaderInv, RangeInv, LoopInv, Reader!Copy, Reader!Done
<1>2. start \in Int /\ stop \in Int /\ stop <= start + BlockSize /\ stop <= Size
      /\ stop \in {start + BlockSize, Size}
  BY <1>1, LeastOfTwo
<1>3. b = Reader!Bytes(start, stop) /\ start + b.length = stop
  <2>1. b = Reader!Block(next)
    BY DEF Reader!BlockOf, ReaderInv, CachedInv
  <2>2. Reader!Bytes(start, stop).length = stop - start
    BY DEF Reader!Bytes
  <2> QED
    BY <1>2, <2>1, <2>2 DEF Reader!Block
<1>4. from \in Int /\ at <= from /\ start <= from /\ from \in {at, start}
  <2>1. at \in Int /\ start \in Int
    BY <1>1, <1>2
  <2> HIDE DEF start
  <2> QED
    BY <2>1, MostOfTwo
<1>5. to \in Int /\ to <= end /\ to <= stop /\ to \in {end, stop}
  <2>1. end \in Int /\ stop \in Int
    BY <1>1, <1>2
  <2> HIDE DEF start, stop
  <2> QED
    BY <2>1, LeastOfTwo
<1>6. /\ Reader!Fetch(next) /\ UNCHANGED <<previousEnd, at, end>>
      /\ buffer' = Reader!Set(buffer, Reader!SubArray(b, from - start, to - start), from - at)
      /\ next' = IF next = Reader!IndexOf(end - 1) THEN Reader!Done ELSE next + 1
  BY <1>3 DEF Reader!Copy
<1>7. Reader!SubArray(b, from - start, to - start) = Reader!Bytes(from, to)
  <2> HIDE DEF start, stop, b, from, to
  <2> QED
    BY <1>2, <1>3, <1>4, <1>5, SubArrayOfBytes
<1> HIDE DEF start, stop, b, from, to
<1>8. \A k \in 0 .. end - at - 1 : k \in DOMAIN buffer' /\
        (at + k < start + BlockSize => buffer'[k] = Source[at + k])
  <2> SUFFICES ASSUME NEW k \in 0 .. end - at - 1
               PROVE  k \in DOMAIN buffer' /\
                      (at + k < start + BlockSize => buffer'[k] = Source[at + k])
    OBVIOUS
  <2>1. k \in DOMAIN buffer /\ k \in Int /\ at + k < end
    BY <1>1
  <2>2. at + k < start => buffer[k] = Source[at + k]
    BY <1>1 DEF BelowInv, start
  <2>3. CASE from <= to
    <3>1. /\ DOMAIN buffer' = DOMAIN buffer
          /\ buffer'[k] = IF from <= at + k /\ at + k < to THEN Source[at + k] ELSE buffer[k]
      <4>1. buffer' = Reader!Set(buffer, Reader!Bytes(from, to), from - at)
        BY <1>6, <1>7
      <4>2. at \in Int /\ from \in Int /\ to \in Int /\ at <= from
        BY <1>1, <1>4, <1>5
      <4> QED
        BY <2>1, <2>3, <4>1, <4>2, SetBytes
    <3>2. at + k < start + BlockSize => at + k < to
      BY <1>1, <1>2, <1>5, <2>1
    <3>3. at + k < start \/ from <= at + k
      BY <1>1, <1>2, <1>4, <2>1
    <3> QED
      BY <2>1, <2>2, <3>1, <3>2, <3>3
  <2>4. CASE to < from
    <3>1. ~(k \in from - at .. from - at + (to - from) - 1)
      BY <1>1, <1>4, <1>5, <2>1, <2>4
    <3>2. DOMAIN buffer' = DOMAIN buffer /\ buffer'[k] = buffer[k]
      <4>1. Reader!Bytes(from, to).length = to - from
        BY DEF Reader!Bytes
      <4> QED
        BY <1>6, <1>7, <2>1, <3>1, <4>1 DEF Reader!Set
    <3>3. at + k < start + BlockSize => at + k < start
      BY <1>1, <1>2, <1>4, <1>5, <2>1, <2>4
    <3> QED
      BY <2>1, <2>2, <3>2, <3>3
  <2> QED
    BY <1>4, <1>5, <2>3, <2>4
<1>9. RangeInv'
  <2>1. next' \in Nat \union {Reader!Done}
    BY <1>1, <1>6
  <2> QED
    BY <1>1, <1>6, <1>8, <2>1 DEF RangeInv
<1>10. ASSUME next = Reader!IndexOf(end - 1) PROVE LoopInv' /\ Reader!ReadsAreExact'
  <2>1. next' = Reader!Done
    BY <1>6, <1>10
  <2>2. \A k \in 0 .. end - at - 1 : at + k < start + BlockSize
    <3> TAKE k \in 0 .. end - at - 1
    <3>1. end - 1 \in Nat /\ at + k <= end - 1
      BY <1>1
    <3>2. end - 1 < start + BlockSize
      BY <1>10, <3>1, IndexBounds DEF start
    <3> QED
      BY <1>1, <1>2, <3>1, <3>2
  <2> QED
    BY <1>1, <1>6, <1>8, <2>1, <2>2 DEF LoopInv, Reader!ReadsAreExact
<1>11. ASSUME next # Reader!IndexOf(end - 1) PROVE LoopInv' /\ Reader!ReadsAreExact'
  <2>1. next' = next + 1 /\ next' # Reader!Done
    BY <1>1, <1>6, <1>11 DEF Reader!Done
  <2>2. next' * BlockSize = start + BlockSize
    BY <1>1, <2>1 DEF start
  <2>3. BelowInv'
    BY <1>1, <1>6, <1>8, <2>2 DEF BelowInv
  <2> QED
    BY <1>1, <1>6, <2>1, <2>3 DEF LoopInv, Reader!ReadsAreExact
<1>12. CachedInv' /\ Reader!CacheIsBounded'
  BY <1>6, FetchKeepsBlocks DEF ReaderInv
<1> QED
  BY <1>9, <1>10, <1>11, <1>12 DEF ReaderInv

LEMMA ReadByAnotherStep ==
  ASSUME Reader!Sizes, ReaderInv, Reader!ReadByAnother
  PROVE  ReaderInv'
<1>1. PICK i \in Reader!IndexOf(0) .. Reader!IndexOf(Size - 1) : Reader!Fetch(i)
  BY DEF Reader!ReadByAnother
<1>2. CachedInv' /\ Reader!CacheIsBounded'
  BY <1>1, FetchKeepsBlocks DEF ReaderInv
<1>3. UNCHANGED <<at, end, buffer, next>>
  BY DEF Reader!ReadByAnother
<1>4. RangeInv' /\ LoopInv' /\ Reader!ReadsAreExact'
  BY <1>3 DEF ReaderInv, RangeInv, LoopInv, BelowInv, Reader!ReadsAreExact
<1> QED
  BY <1>2, <1>4 DEF ReaderInv

LEMMA StutterStep ==
  ASSUME ReaderInv, UNCHANGED Reader!vars
  PROVE  ReaderInv'
BY DEF ReaderInv, RangeInv, CachedInv, LoopInv, BelowInv, Reader!ReadsAreExact,
       Reader!CacheIsBounded, Reader!vars

(***************************************************************************)
(* Reading a file: the theorems                                            *)
(***************************************************************************)
LEMMA ReaderInvariant ==
  ASSUME Reader!Sizes
  PROVE  Reader!Spec => []ReaderInv
<1>1. Reader!Init => ReaderInv
  BY ReaderInit
<1>2. ReaderInv /\ [Reader!Next]_Reader!vars => ReaderInv'
  <2> SUFFICES ASSUME ReaderInv, [Reader!Next]_Reader!vars PROVE ReaderInv'
    OBVIOUS
  <2>1. ASSUME NEW a \in Nat, NEW size \in Nat, Reader!ReadNothing(a, size) PROVE ReaderInv'
    BY <2>1, ReadNothingStep
  <2>2. ASSUME NEW a \in Nat, NEW size \in Nat, Reader!Read(a, size) PROVE ReaderInv'
    BY <2>2, ReadStep
  <2>3. CASE Reader!Copy
    BY <2>3, CopyStep
  <2>4. CASE Reader!ReadByAnother
    BY <2>4, ReadByAnotherStep
  <2>5. CASE UNCHANGED Reader!vars
    BY <2>5, StutterStep
  <2> QED
    BY <2>1, <2>2, <2>3, <2>4, <2>5 DEF Reader!Next
<1> QED
  BY <1>1, <1>2, PTL DEF Reader!Spec

(* Every read returns the bytes of the file, in blocks of any size and with *)
(* any number of them kept (readOnlyFile, read).                           *)
THEOREM ReadsReturnTheFile ==
  ASSUME Reader!Sizes
  PROVE  Reader!Spec => []Reader!ReadsAreExact
<1>1. ReaderInv => Reader!ReadsAreExact
  BY DEF ReaderInv
<1> QED
  BY <1>1, ReaderInvariant, PTL

(* The cache of readOnlyFile never holds more than its `blocks'. *)
THEOREM CacheStaysBounded ==
  ASSUME Reader!Sizes
  PROVE  Reader!Spec => []Reader!CacheIsBounded
<1>1. ReaderInv => Reader!CacheIsBounded
  BY DEF ReaderInv
<1> QED
  BY <1>1, ReaderInvariant, PTL
=============================================================================
