-------------------------- MODULE FileStorageProofs --------------------------
(***************************************************************************)
(* Files of FileStorage are open, registered and active exactly as long as  *)
(* a database needs them, and open as what was stored last or failed to be   *)
(* since, for any number of Workers and databases.                         *)
(***************************************************************************)
EXTENDS FileStorage, FiniteSetTheorems, TLAPS

(***************************************************************************)
(* The invariant                                                           *)
(***************************************************************************)
TypeInv ==
  /\ conn \in [Db -> {"none", "memory", "stored", "zombie"}]
  /\ at \in [Db -> Worker \union {None}] /\ call \in [Db -> {"idle"} \union Part]
  /\ held \in [Db -> SUBSET Part] /\ files \in [Db -> SUBSET Part]
  /\ ids \in [Worker -> [Part -> Db \union {None}]]

(* Stored, or in a call of store(): its Worker has the name active. *)
Engaged(d) == conn[d] = "stored" \/ call[d] # "idle"

CallInv == \A d \in Db : call[d] # "idle" => conn[d] \in {"none", "memory"}

(* One database per Worker is. *)
OneInv == \A d \in Db : Engaged(d) =>
  /\ at[d] \in Worker
  /\ \A e \in Db : Engaged(e) /\ at[e] = at[d] => e = d

(* What is registered is registered by the database that is stored there. *)
IdsInv == \A w \in Worker, f \in Part, d \in Db :
  ids[w][f] = d => conn[d] = "stored" /\ at[d] = w

HeldInv == \A d \in Db :
  held[d] = IF conn[d] = "stored" THEN Part ELSE IF call[d] = "journal" THEN {"main"} ELSE {}
FilesInv == \A d \in Db : files[d] = IF conn[d] = "stored" THEN Part ELSE {}
StoredInv == \A d \in Db : conn[d] = "stored" => ids[at[d]] = [f \in Part |-> d]
ActiveInv == active = {at[d] : d \in {e \in Db : Engaged(e)}}

RegInv == CallInv /\ OneInv /\ IdsInv /\ HeldInv /\ FilesInv /\ StoredInv /\ ActiveInv

LossInv == lost \in [Db -> BOOLEAN] /\ error \in [Db -> BOOLEAN] /\ LossIsReported

(* What the files may be.  Of a file that is open there is one. *)
Contents == State \union {Mixed}
Mains == {Main(s, u) : s \in (SUBSET Contents) \ {{}}, u \in SUBSET Contents}
Journals == {Journal(s, t) : s \in SUBSET Contents, t \in Contents}
Disks == {Pair(m, j) : m \in {NoFile} \union Mains, j \in {NoFile} \union Journals}

DataInv ==
  /\ last \in [Db -> Contents] /\ commits \in State
  /\ deleting \in [Worker -> {"idle"} \union Part]

DiskInv == disk \in Disks /\ \A d \in Db : \A f \in held[d] : disk[f] # NoFile

(* The file opens as n, also if the power goes and takes any part of what   *)
(* was not synced: the journal makes n of all of it.                       *)
Holds(k, n) ==
  IF HasRecord(k) THEN /\ k["journal"].top = n
                       /\ Found(k["main"]) \subseteq k["journal"].from \union {n}
                  ELSE Found(k["main"]) = {n}

(* A journal without its file is empty, but for a delete() that has still   *)
(* to take it.                                                             *)
KeptInv ==
  /\ disk["main"] = NoFile => may = {0}
  /\ Overtakes /\ ~torn => disk["main"] = NoFile
  /\ ~Overtakes /\ ~torn => IF disk["main"] = NoFile THEN ~HasRecord(disk)
                                                    ELSE \E n \in may : Holds(disk, n)

IInv == TypeInv /\ RegInv /\ LossInv /\ DataInv /\ DiskInv /\ KeptInv

(***************************************************************************)
(* The registry                                                            *)
(***************************************************************************)
(* Neither the state of a call or database that matters nor the registry    *)
(* changes.                                                                *)
LEMMA SameStep ==
  ASSUME TypeInv, RegInv, UNCHANGED <<registry, conn, at, call>>
  PROVE  TypeInv' /\ RegInv'
BY DEF TypeInv, RegInv, CallInv, OneInv, IdsInv, HeldInv, FilesInv, StoredInv, ActiveInv,
       Engaged, registry

(* A database is created or discarded, which is not stored before or after. *)
LEMMA NotStoredStep ==
  ASSUME TypeInv, RegInv, NEW d \in Db, UNCHANGED <<registry, call>>,
         conn[d] \in {"none", "memory"}, NEW c \in {"none", "memory"},
         conn' = [conn EXCEPT ![d] = c],
         NEW w \in Worker \union {None}, at' \in {at, [at EXCEPT ![d] = w]},
         call[d] = "idle" \/ at' = at
  PROVE  TypeInv' /\ RegInv'
<1>1. TypeInv'
  BY DEF TypeInv, registry
<1>2. \A e \in Db : (conn'[e] = "stored") = (conn[e] = "stored")
  BY DEF TypeInv
<1>3. \A e \in Db : Engaged(e)' = Engaged(e)
  BY <1>2 DEF Engaged
<1>4. \A e \in Db : Engaged(e) => at'[e] = at[e]
  BY DEF TypeInv, Engaged
<1>5. CallInv'
  BY DEF TypeInv, RegInv, CallInv
<1>6. OneInv' /\ IdsInv'
  BY <1>2, <1>3, <1>4 DEF RegInv, OneInv, IdsInv, registry, Engaged
<1>7. HeldInv' /\ FilesInv' /\ StoredInv'
  BY <1>2, <1>4 DEF RegInv, HeldInv, FilesInv, StoredInv, registry, Engaged
<1>8. ActiveInv'
  <2>1. {e \in Db : Engaged(e)'} = {e \in Db : Engaged(e)}
    BY <1>3
  <2>2. {at'[e] : e \in {x \in Db : Engaged(x)'}} = {at[e] : e \in {x \in Db : Engaged(x)}}
    BY <1>4, <2>1
  <2> QED
    BY <2>2 DEF RegInv, ActiveInv, registry, Engaged
<1> QED
  BY <1>1, <1>5, <1>6, <1>7, <1>8 DEF RegInv

(* store() makes the name active in a Worker where it was not. *)
LEMMA StoreStep ==
  ASSUME TypeInv, RegInv, NEW w \in Worker, NEW d \in Db, Store(w, d),
         conn[d] \in {"none", "memory"}
  PROVE  TypeInv' /\ RegInv'
<1>1. /\ call[d] = "idle" /\ w \notin active /\ at' = [at EXCEPT ![d] = w]
      /\ active' = active \union {w} /\ call' = [call EXCEPT ![d] = "main"]
      /\ UNCHANGED <<held, ids, files, conn>>
  BY DEF Store, Idle
<1>2. TypeInv'
  BY <1>1 DEF TypeInv, Part
<1>3. ~Engaged(d) /\ Engaged(d)' /\ at'[d] = w
  BY <1>1 DEF TypeInv, Engaged
<1>4. \A e \in Db : e # d => Engaged(e)' = Engaged(e) /\ at'[e] = at[e] /\ call'[e] = call[e]
  BY <1>1 DEF TypeInv, Engaged
<1>5. \A e \in Db : Engaged(e) => at[e] # w
  BY <1>1 DEF RegInv, ActiveInv
<1>6. CallInv'
  BY <1>1, <1>4 DEF RegInv, CallInv
<1>7. OneInv'
  BY <1>3, <1>4, <1>5 DEF RegInv, OneInv
<1>8. IdsInv' /\ StoredInv' /\ FilesInv'
  BY <1>1, <1>4 DEF RegInv, IdsInv, StoredInv, FilesInv
<1>9. HeldInv'
  BY <1>1, <1>4 DEF RegInv, HeldInv, TypeInv
<1>10. ActiveInv'
  <2>1. \A v : v \in active' <=> \E e \in Db : Engaged(e)' /\ v = at'[e]
    BY <1>1, <1>3, <1>4 DEF RegInv, ActiveInv
  <2>2. active' = {at'[e] : e \in {x \in Db : Engaged(x)'}}
    BY <2>1
  <2> QED
    BY <2>2 DEF ActiveInv, Engaged
<1> QED
  BY <1>2, <1>6, <1>7, <1>8, <1>9, <1>10 DEF RegInv

(* The first file is open. *)
LEMMA OpenMainStep ==
  ASSUME TypeInv, RegInv, NEW d \in Db, OpenMain(d)
  PROVE  TypeInv' /\ RegInv'
<1>1. /\ call[d] = "main" /\ held' = [held EXCEPT ![d] = {"main"}]
      /\ call' = [call EXCEPT ![d] = "journal"] /\ UNCHANGED <<ids, files, active, conn, at>>
  BY DEF OpenMain, database
<1>2. TypeInv'
  BY <1>1 DEF TypeInv, Part
<1>3. \A e \in Db : (call'[e] # "idle") = (call[e] # "idle") /\ (e # d => call'[e] = call[e])
  BY <1>1 DEF TypeInv
<1>4. \A e \in Db : Engaged(e)' = Engaged(e)
  BY <1>1, <1>3 DEF Engaged
<1>5. CallInv' /\ OneInv' /\ IdsInv' /\ FilesInv' /\ StoredInv'
  BY <1>1, <1>3, <1>4 DEF RegInv, CallInv, OneInv, IdsInv, FilesInv, StoredInv, Engaged
<1>6. HeldInv'
  BY <1>1, <1>3 DEF TypeInv, RegInv, CallInv, HeldInv
<1>7. ActiveInv'
  BY <1>1, <1>4 DEF RegInv, ActiveInv, Engaged
<1> QED
  BY <1>2, <1>5, <1>6, <1>7 DEF RegInv

(* Both files are open and registered: the database is stored. *)
LEMMA StoresStep ==
  ASSUME TypeInv, RegInv, NEW d \in Db, Stores(d)
  PROVE  TypeInv' /\ RegInv'
<1>1. /\ call[d] = "journal" /\ call' = [call EXCEPT ![d] = "idle"] /\ at' = at
      /\ ids' = [ids EXCEPT ![at[d]] = [f \in Part |-> d]]
      /\ files' = [files EXCEPT ![d] = Part] /\ held' = [held EXCEPT ![d] = Part]
      /\ conn' = [conn EXCEPT ![d] = "stored"] /\ UNCHANGED active
  BY DEF Stores, Uses, Register
<1>2. Engaged(d) /\ at[d] \in Worker /\ conn[d] # "stored"
  BY <1>1 DEF Engaged, RegInv, OneInv, CallInv
<1>3. TypeInv'
  BY <1>1, <1>2 DEF TypeInv, Part
<1>4. /\ conn'[d] = "stored" /\ call'[d] = "idle" /\ held'[d] = Part /\ files'[d] = Part
      /\ \A e \in Db : e # d => /\ conn'[e] = conn[e] /\ call'[e] = call[e]
                               /\ held'[e] = held[e] /\ files'[e] = files[e]
  BY <1>1 DEF TypeInv
<1>5. \A e \in Db : Engaged(e)' = Engaged(e)
  BY <1>2, <1>4 DEF Engaged
<1>6. \A w \in Worker : ids'[w] = IF w = at[d] THEN [f \in Part |-> d] ELSE ids[w]
  BY <1>1, <1>2 DEF TypeInv
<1>7. \A e \in Db : e # d /\ conn[e] = "stored" => at[e] # at[d] /\ at[e] \in Worker
  BY <1>2 DEF RegInv, OneInv, Engaged
<1>8. CallInv' /\ HeldInv' /\ FilesInv'
  BY <1>4 DEF RegInv, CallInv, HeldInv, FilesInv
<1>9. OneInv' /\ ActiveInv'
  BY <1>1, <1>5 DEF RegInv, OneInv, ActiveInv, Engaged
<1>10. IdsInv'
  BY <1>1, <1>2, <1>4, <1>6, <1>7 DEF RegInv, IdsInv
<1>11. StoredInv'
  <2> SUFFICES ASSUME NEW e \in Db, conn'[e] = "stored"
               PROVE  ids'[at[e]] = [f \in Part |-> e]
    BY <1>1 DEF StoredInv
  <2>1. CASE e = d
    BY <1>2, <1>6, <2>1
  <2>2. CASE e # d
    <3>1. conn[e] = "stored" /\ at[e] \in Worker /\ at[e] # at[d]
      BY <1>4, <1>7, <2>2
    <3> QED
      BY <1>6, <3>1 DEF RegInv, StoredInv
  <2> QED
    BY <2>1, <2>2
<1> QED
  BY <1>3, <1>8, <1>9, <1>10, <1>11 DEF RegInv

(* release(): a call or a stored database of the Worker gives up its files,  *)
(* and those of no other.                                                  *)
LEMMA ReleaseStep ==
  ASSUME TypeInv, RegInv, NEW d \in Db, Engaged(d), Release(d), at' = at,
         conn' \in [Db -> {"none", "memory", "stored", "zombie"}],
         call' \in [Db -> {"idle"} \union Part],
         \A e \in Db : e # d => conn'[e] = conn[e] /\ call'[e] = call[e],
         conn'[d] # "stored", call'[d] = "idle"
  PROVE  TypeInv' /\ RegInv'
<1>1. /\ files' = [e \in Db |-> {f \in files[e] : ~(f \in held[d] /\ ids[at[d]][f] = e)}]
      /\ ids' = [ids EXCEPT ![at[d]] = [f \in Part |-> IF f \in held[d] THEN None
                                                      ELSE ids[at[d]][f]]]
      /\ held' = [held EXCEPT ![d] = {}] /\ active' = active \ {at[d]}
  BY DEF Release, Removed
<1>2. at[d] \in Worker
  BY DEF RegInv, OneInv
<1>3. TypeInv'
  <2>1. files' \in [Db -> SUBSET Part] /\ held' \in [Db -> SUBSET Part]
    BY <1>1 DEF TypeInv
  <2>2. ids' \in [Worker -> [Part -> Db \union {None}]]
    BY <1>1, <1>2 DEF TypeInv
  <2> QED
    BY <2>1, <2>2 DEF TypeInv
<1>4. \A w \in Worker, f \in Part :
        ids'[w][f] = IF w = at[d] /\ f \in held[d] THEN None ELSE ids[w][f]
  BY <1>1, <1>2 DEF TypeInv
<1>5. ~Engaged(d)' /\ \A e \in Db : e # d => Engaged(e)' = Engaged(e)
  BY DEF Engaged
<1>6. \A e \in Db : e # d /\ Engaged(e) => at[e] # at[d]
  BY DEF RegInv, OneInv
<1>7. \A e \in Db : e # d => files'[e] = files[e] /\ held'[e] = held[e]
  <2> SUFFICES ASSUME NEW e \in Db, e # d PROVE files'[e] = files[e] /\ held'[e] = held[e]
    OBVIOUS
  <2>1. held'[e] = held[e]
    BY <1>1 DEF TypeInv
  <2>2. \A f \in Part : ids[at[d]][f] # e
    BY <1>2, <1>6 DEF RegInv, IdsInv, Engaged
  <2>3. files'[e] = {f \in files[e] : ~(f \in held[d] /\ ids[at[d]][f] = e)}
    BY <1>1
  <2>4. files[e] \subseteq Part
    BY DEF TypeInv
  <2> QED
    BY <2>1, <2>2, <2>3, <2>4
<1>8. held'[d] = {} /\ files'[d] = {}
  <2>1. held'[d] = {}
    BY <1>1 DEF TypeInv
  <2>2. CASE conn[d] = "stored"
    <3>1. files[d] = Part /\ held[d] = Part /\ ids[at[d]] = [f \in Part |-> d]
      BY <2>2 DEF RegInv, FilesInv, HeldInv, StoredInv
    <3> QED
      BY <1>1, <2>1, <3>1
  <2>3. CASE conn[d] # "stored"
    <3>1. files[d] = {}
      BY <2>3 DEF RegInv, FilesInv
    <3> QED
      BY <1>1, <2>1, <3>1
  <2> QED
    BY <2>2, <2>3
<1>9. CallInv' /\ HeldInv' /\ FilesInv'
  BY <1>7, <1>8 DEF RegInv, CallInv, HeldInv, FilesInv
<1>10. OneInv'
  BY <1>5 DEF RegInv, OneInv
<1>11. IdsInv'
  <2> SUFFICES ASSUME NEW w \in Worker, NEW f \in Part, NEW e \in Db, ids'[w][f] = e
               PROVE  conn'[e] = "stored" /\ at[e] = w
    BY DEF IdsInv
  <2>1. ids[w][f] = e /\ ~(w = at[d] /\ f \in held[d])
    BY <1>4, NoneAssumption
  <2>2. conn[e] = "stored" /\ at[e] = w
    BY <2>1 DEF RegInv, IdsInv
  <2>3. e # d
    BY <2>1, <2>2 DEF RegInv, HeldInv
  <2> QED
    BY <2>2, <2>3
<1>12. StoredInv'
  <2> SUFFICES ASSUME NEW e \in Db, conn'[e] = "stored" PROVE ids'[at[e]] = [f \in Part |-> e]
    BY DEF StoredInv
  <2>1. e # d /\ conn[e] = "stored"
    OBVIOUS
  <2>2. at[e] # at[d] /\ ids[at[e]] = [f \in Part |-> e]
    BY <1>6, <2>1 DEF Engaged, RegInv, StoredInv
  <2> QED
    BY <1>1, <2>2 DEF TypeInv
<1>13. ActiveInv'
  <2>1. \A v : v \in active' <=> \E e \in Db : Engaged(e)' /\ v = at[e]
    BY <1>1, <1>5, <1>6 DEF RegInv, ActiveInv
  <2>2. active' = {at'[e] : e \in {x \in Db : Engaged(x)'}}
    BY <2>1
  <2> QED
    BY <2>2 DEF ActiveInv, Engaged
<1> QED
  BY <1>3, <1>9, <1>10, <1>11, <1>12, <1>13 DEF RegInv

(* Workers end, and what they had open or registered is gone with them. *)
LEMMA EndStep ==
  ASSUME TypeInv, RegInv, NEW ws \in SUBSET Worker, End(ws)
  PROVE  TypeInv' /\ RegInv'
<1>1. /\ conn' = [d \in Db |-> IF at[d] \in ws THEN "none" ELSE conn[d]]
      /\ call' = [d \in Db |-> IF at[d] \in ws THEN "idle" ELSE call[d]]
      /\ held' = [d \in Db |-> IF at[d] \in ws THEN {} ELSE held[d]]
      /\ files' = [d \in Db |-> IF at[d] \in ws THEN {} ELSE files[d]]
      /\ at' = [d \in Db |-> IF at[d] \in ws THEN None ELSE at[d]]
      /\ ids' = [w \in Worker |-> IF w \in ws THEN [f \in Part |-> None] ELSE ids[w]]
      /\ active' = active \ ws
  BY DEF End
<1>2. TypeInv'
  BY <1>1 DEF TypeInv
<1>3. \A d \in Db : at[d] \in ws => /\ conn'[d] = "none" /\ call'[d] = "idle"
                                    /\ held'[d] = {} /\ files'[d] = {}
  BY <1>1
<1>4. \A d \in Db : at[d] \notin ws => /\ conn'[d] = conn[d] /\ call'[d] = call[d] /\ at'[d] = at[d]
                                       /\ held'[d] = held[d] /\ files'[d] = files[d]
  BY <1>1
<1>5. \A d \in Db : Engaged(d)' <=> Engaged(d) /\ at[d] \notin ws
  BY <1>3, <1>4 DEF Engaged
<1>6. CallInv' /\ HeldInv' /\ FilesInv'
  <2>1. CallInv'
    BY <1>3, <1>4 DEF RegInv, CallInv
  <2>2. HeldInv'
    BY <1>3, <1>4 DEF RegInv, HeldInv
  <2>3. FilesInv'
    BY <1>3, <1>4 DEF RegInv, FilesInv
  <2> QED
    BY <2>1, <2>2, <2>3
<1>7. OneInv'
  BY <1>4, <1>5 DEF RegInv, OneInv
<1>8. IdsInv'
  BY <1>1, <1>4, NoneAssumption DEF RegInv, IdsInv
<1>9. StoredInv'
  BY <1>1, <1>3, <1>4 DEF RegInv, StoredInv, OneInv, Engaged
<1>10. ActiveInv'
  <2>1. \A v : v \in active' <=> \E e \in Db : Engaged(e)' /\ v = at'[e]
    BY <1>1, <1>4, <1>5 DEF RegInv, ActiveInv
  <2>2. active' = {at'[e] : e \in {x \in Db : Engaged(x)'}}
    BY <2>1
  <2> QED
    BY <2>2 DEF ActiveInv, Engaged
<1> QED
  BY <1>2, <1>6, <1>7, <1>8, <1>9, <1>10 DEF RegInv

(***************************************************************************)
(* The files                                                               *)
(***************************************************************************)
LEMMA MainFields ==
  /\ \A m \in Mains : /\ m # NoFile /\ m.mixes \subseteq Contents /\ m.mixes # {}
                      /\ m.unsynced \subseteq Contents /\ Found(m) \subseteq Contents /\ Found(m) # {}
  /\ \A s, u : Main(s, u).mixes = s /\ Main(s, u).unsynced = u /\ Found(Main(s, u)) = s \union u
  /\ \A s \in SUBSET Contents, u \in SUBSET Contents : s # {} => Main(s, u) \in Mains
<1>1. \A s, u : /\ Main(s, u).mixes = s /\ Main(s, u).unsynced = u
                /\ Found(Main(s, u)) = s \union u /\ Main(s, u) # NoFile
  BY DEF Main, Found, NoFile
<1>2. \A s \in SUBSET Contents, u \in SUBSET Contents : s # {} => Main(s, u) \in Mains
  BY DEF Mains
<1>3. ASSUME NEW m \in Mains
      PROVE  /\ m # NoFile /\ m.mixes \subseteq Contents /\ m.mixes # {}
             /\ m.unsynced \subseteq Contents /\ Found(m) \subseteq Contents /\ Found(m) # {}
  <2>1. PICK s \in (SUBSET Contents) \ {{}}, u \in SUBSET Contents : m = Main(s, u)
    BY DEF Mains
  <2>2. m # NoFile /\ m.mixes = s /\ m.unsynced = u /\ Found(m) = s \union u
    BY <1>1, <2>1
  <2> QED
    BY <2>2
<1> QED
  BY <1>1, <1>2, <1>3

LEMMA JournalFields ==
  /\ \A j \in Journals : j # NoFile /\ j.from \subseteq Contents /\ j.top \in Contents
  /\ \A s, t : Journal(s, t).from = s /\ Journal(s, t).top = t
  /\ \A s \in SUBSET Contents, t \in Contents : Journal(s, t) \in Journals
<1>1. \A s, t : Journal(s, t).from = s /\ Journal(s, t).top = t /\ Journal(s, t) # NoFile
  BY DEF Journal, NoFile
<1>2. \A s \in SUBSET Contents, t \in Contents : Journal(s, t) \in Journals
  BY DEF Journals
<1>3. ASSUME NEW j \in Journals
      PROVE  \E s \in SUBSET Contents, t \in Contents : j = Journal(s, t)
  BY DEF Journals
<1> QED
  BY <1>1, <1>2, <1>3

LEMMA PairFields ==
  /\ \A m, j : Pair(m, j)["main"] = m /\ Pair(m, j)["journal"] = j
  /\ \A m \in {NoFile} \union Mains, j \in {NoFile} \union Journals : Pair(m, j) \in Disks
  /\ \A k \in Disks : /\ k["main"] \in {NoFile} \union Mains
                      /\ k["journal"] \in {NoFile} \union Journals
                      /\ k = Pair(k["main"], k["journal"])
<1>1. \A m, j : Pair(m, j)["main"] = m /\ Pair(m, j)["journal"] = j
  BY DEF Pair, Part
<1>2. ASSUME NEW k \in Disks
      PROVE  \E m \in {NoFile} \union Mains, j \in {NoFile} \union Journals : k = Pair(m, j)
  BY DEF Disks
<1>3. \A m \in {NoFile} \union Mains, j \in {NoFile} \union Journals : Pair(m, j) \in Disks
  BY DEF Disks
<1> QED
  BY <1>1, <1>2, <1>3

LEMMA SetFields ==
  ASSUME NEW k \in Disks, NEW c
  PROVE  /\ [k EXCEPT !["main"] = c] = Pair(c, k["journal"])
         /\ [k EXCEPT !["journal"] = c] = Pair(k["main"], c)
<1>1. k = [f \in Part |-> k[f]]
  BY PairFields DEF Pair
<1>2. [k EXCEPT !["main"] = c] = Pair(c, k["journal"])
  BY <1>1 DEF Pair, Part
<1>3. [k EXCEPT !["journal"] = c] = Pair(k["main"], c)
  BY <1>1 DEF Pair, Part
<1> QED
  BY <1>2, <1>3

LEMMA States ==
  /\ 0 \in Contents /\ State \subseteq Contents /\ Mixed \in Contents
  /\ \A n \in State : n < MaxCommits => n + 1 \in State
BY BoundsAssumption DEF Contents, State

LEMMA ClearedFields ==
  /\ Cleared \in Journals /\ Cleared.from = {}
  /\ \A m : ~HasRecord(Pair(m, Cleared)) /\ ~HasRecord(Pair(m, NoFile))
BY States, JournalFields, PairFields DEF Cleared, HasRecord

(* What a file opens as is a state, or a mix of some.                      *)
LEMMA RecoveredType ==
  ASSUME NEW k \in Disks, k["main"] \in Mains
  PROVE  Recovered(k) \in Contents
<1> DEFINE j == k["journal"]
           s == k["main"].mixes
           r == IF ~HasRecord(k) THEN s
                ELSE IF s \subseteq j.from \union {j.top} THEN {j.top} ELSE s \union {j.top}
<1>1. r \subseteq Contents
  <2>1. HasRecord(k) => j \in Journals
    BY PairFields DEF HasRecord
  <2> QED
    BY <2>1, MainFields, JournalFields
<1>2. Cardinality(r) = 1 => (CHOOSE n \in r : TRUE) \in r
  <2>1. r # {}
    BY MainFields
  <2> QED
    BY <2>1
<1>3. Recovered(k) = IF Cardinality(r) = 1 THEN CHOOSE n \in r : TRUE ELSE Mixed
  BY DEF Recovered
<1> HIDE DEF r
<1> QED
  BY <1>1, <1>2, <1>3, States

(* A file that holds n opens as n. *)
LEMMA HoldsRecovers ==
  ASSUME NEW k \in Disks, k["main"] \in Mains, NEW n, Holds(k, n)
  PROVE  Recovered(k) = n
<1> DEFINE j == k["journal"]
           s == k["main"].mixes
           r == IF ~HasRecord(k) THEN s
                ELSE IF s \subseteq j.from \union {j.top} THEN {j.top} ELSE s \union {j.top}
<1>1. s # {} /\ s \subseteq Found(k["main"])
  BY MainFields DEF Found
<1>2. r = {n}
  BY <1>1 DEF Holds
<1>3. Recovered(k) = IF Cardinality(r) = 1 THEN CHOOSE m \in r : TRUE ELSE Mixed
  BY DEF Recovered
<1> HIDE DEF r
<1>4. (CHOOSE m \in {n} : TRUE) \in {n}
  OBVIOUS
<1> QED
  BY <1>2, <1>3, <1>4, FS_Singleton

(* The records of the journal reach everything that is in the file: this     *)
(* one replaces all of it, or what the file reads as, and those before it    *)
(* take care of what the power may bring back.                             *)
Reaches(k, over) ==
  over = Contents \/ (over = k["main"].mixes /\ \E m : Holds(k, m))

LEMMA RecordedFields ==
  ASSUME NEW k \in Disks, k["main"] \in Mains, k["journal"] \in Journals, NEW n \in Contents,
         NEW over \in SUBSET Contents
  PROVE  /\ Recorded(k, over, n) \in Journals /\ Recorded(k, over, n).top = n
         /\ Reaches(k, over) => Found(k["main"]) \subseteq Recorded(k, over, n).from \union {n}
<1> DEFINE j == k["journal"]
           before == IF HasRecord(k) THEN {j.top} ELSE {}
           from == (j.from \union over \union before) \ {n}
<1>1. Recorded(k, over, n) = Journal(from, n)
  BY DEF Recorded
<1>2. from \subseteq Contents
  BY JournalFields
<1>3. ASSUME Reaches(k, over) PROVE Found(k["main"]) \subseteq from \union {n}
  <2>1. CASE over = Contents
    BY <2>1, MainFields
  <2>2. CASE over = k["main"].mixes /\ \E m : Holds(k, m)
    <3>1. PICK m : Holds(k, m)
      BY <2>2
    <3>2. CASE HasRecord(k)
      BY <3>1, <3>2 DEF Holds
    <3>3. CASE ~HasRecord(k)
      <4>1. Found(k["main"]) = {m} /\ k["main"].mixes # {}
        BY <3>1, <3>3, MainFields DEF Holds
      <4>2. k["main"].mixes = {m}
        BY <4>1 DEF Found
      <4> QED
        BY <2>2, <4>1, <4>2
    <3> QED
      BY <3>2, <3>3
  <2> QED
    BY <1>3, <2>1, <2>2 DEF Reaches
<1> HIDE DEF from
<1> QED
  BY <1>1, <1>2, <1>3, JournalFields

(* What the journal makes n of opens as n. *)
LEMMA RecordHolds ==
  ASSUME NEW m \in Mains, NEW j \in Journals
  PROVE  /\ Pair(m, j) \in Disks /\ Pair(m, j)["main"] \in Mains
         /\ Pair(m, j)["journal"] \in Journals
         /\ Found(m) \subseteq j.from \union {j.top} => Holds(Pair(m, j), j.top)
<1>1. /\ Pair(m, j) \in Disks /\ Pair(m, j)["main"] = m /\ Pair(m, j)["journal"] = j
      /\ Found(m) # {} /\ j # NoFile
  BY PairFields, MainFields, JournalFields
<1>2. HasRecord(Pair(m, j)) <=> j.from # {}
  BY <1>1 DEF HasRecord
<1>3. ASSUME Found(m) \subseteq j.from \union {j.top} PROVE Holds(Pair(m, j), j.top)
  <2>1. CASE j.from # {}
    BY <1>1, <1>2, <1>3, <2>1 DEF Holds
  <2>2. CASE j.from = {}
    <3>1. Found(m) = {j.top}
      BY <1>1, <1>3, <2>2
    <3> QED
      BY <1>1, <1>2, <2>2, <3>1 DEF Holds
  <2> QED
    BY <2>1, <2>2
<1> QED
  BY <1>1, <1>3

LEMMA ReplayedHolds ==
  ASSUME NEW k \in Disks, k["main"] \in Mains
  PROVE  /\ Replayed(k) \in Disks /\ Replayed(k)["main"] \in Mains
         /\ Replayed(k)["journal"] \in Journals
         /\ Holds(Replayed(k), Recovered(k)) /\ Found(Replayed(k)["main"]) = {Recovered(k)}
<1> DEFINE m == Main({Recovered(k)}, {})
<1>1. m \in Mains /\ Found(m) = {Recovered(k)}
  BY RecoveredType, MainFields
<1>2. Replayed(k) = Pair(m, Cleared)
  BY DEF Replayed
<1> HIDE DEF m
<1> QED
  BY <1>1, <1>2, ClearedFields, PairFields DEF Holds

(* Both files are there. *)
Both(k) == k \in Disks /\ k["main"] \in Mains /\ k["journal"] \in Journals

LEMMA HalfWrittenHolds ==
  ASSUME NEW k, Both(k), NEW n \in Contents, NEW over \in SUBSET Contents,
         NEW l \in {Pair(k["main"], Recorded(k, over, n)), HalfWritten(k, over, n),
                    Written(k, over, n)}
  PROVE  Both(l) /\ (Reaches(k, over) => Holds(l, n))
<1> DEFINE j == Recorded(k, over, n)
           half == Main(k["main"].mixes \union {n}, k["main"].unsynced \ {n})
           all == Main({n}, Found(k["main"]) \ {n})
<1>1. /\ j \in Journals /\ j.top = n
      /\ Reaches(k, over) => Found(k["main"]) \subseteq j.from \union {n}
  BY RecordedFields DEF Both
<1>2. /\ k["main"].mixes \subseteq Contents /\ k["main"].unsynced \subseteq Contents
      /\ Found(k["main"]) = k["main"].mixes \union k["main"].unsynced
  BY MainFields DEF Both, Found
<1>3. /\ half \in Mains /\ all \in Mains
      /\ Found(half) = Found(k["main"]) \union {n} /\ Found(all) = Found(k["main"]) \union {n}
  BY <1>2, MainFields
<1>4. HalfWritten(k, over, n) = Pair(half, j) /\ Written(k, over, n) = Pair(all, j)
  BY DEF HalfWritten, Written
<1> HIDE DEF j, half, all
<1>5. PICK m \in {k["main"], half, all} : l = Pair(m, j)
  BY <1>4 DEF j
<1>6. m \in Mains /\ Found(m) \subseteq Found(k["main"]) \union {n}
  BY <1>3, <1>5 DEF Both
<1>7. Reaches(k, over) => Found(m) \subseteq j.from \union {n}
  BY <1>1, <1>6
<1> QED
  BY <1>1, <1>5, <1>6, <1>7, RecordHolds DEF Both

(* A checkpoint changes nothing of what the file opens as. *)
LEMMA CheckpointHolds ==
  ASSUME NEW k, Both(k), NEW l \in Checkpoints(k)
  PROVE  Both(l) /\ \A n : Holds(k, n) => Holds(l, n)
<1>1. l = k \/ l = Replayed(k)
  BY DEF Checkpoints
<1>2. Both(Replayed(k)) /\ Holds(Replayed(k), Recovered(k))
  BY ReplayedHolds DEF Both
<1>3. \A n : Holds(k, n) => Recovered(k) = n
  BY HoldsRecovers DEF Both
<1> QED
  BY <1>1, <1>2, <1>3

(* ovWriteBack: the file opens as n, or, if that failed, as before. *)
LEMMA WriteBackHolds ==
  ASSUME NEW k, Both(k), NEW n \in Contents, NEW over \in SUBSET Contents, NEW fails \in BOOLEAN,
         NEW l \in WriteBack(k, over, n, fails)
  PROVE  Both(l) /\ (Reaches(k, over) => Holds(l, n) \/ (fails /\ l = k))
<1>1. CASE fails
  BY <1>1, HalfWrittenHolds DEF WriteBack, NotStored
<1>2. CASE ~fails
  <2>1. l \in Checkpoints(Written(k, over, n))
    BY <1>2 DEF WriteBack
  <2>2. Both(Written(k, over, n)) /\ (Reaches(k, over) => Holds(Written(k, over, n), n))
    BY HalfWrittenHolds
  <2> QED
    BY <2>1, <2>2, CheckpointHolds
<1> QED
  BY <1>1, <1>2

(* A file is created empty, if it is missing.                              *)
LEMMA CreatedFields ==
  ASSUME disk \in Disks, NEW parts \in SUBSET Part
  PROVE  /\ Created(parts) \in Disks
         /\ Created(parts)["main"] = IF "main" \in parts /\ disk["main"] = NoFile
                                     THEN Main({0}, {}) ELSE disk["main"]
         /\ Created(parts)["journal"] = IF "journal" \in parts /\ disk["journal"] = NoFile
                                        THEN Cleared ELSE disk["journal"]
         /\ HasRecord(Created(parts)) = HasRecord(disk)
         /\ \A n : Holds(disk, n) /\ disk["main"] \in Mains => Holds(Created(parts), n)
         /\ ~HasRecord(disk) /\ Created(parts)["main"] = Main({0}, {}) => Holds(Created(parts), 0)
<1> DEFINE m == IF "main" \in parts /\ disk["main"] = NoFile THEN Main({0}, {}) ELSE disk["main"]
           j == IF "journal" \in parts /\ disk["journal"] = NoFile THEN Cleared ELSE disk["journal"]
<1>1. Created(parts) = Pair(m, j)
  BY DEF Created, Pair, Part
<1>2. disk["main"] \in {NoFile} \union Mains /\ disk["journal"] \in {NoFile} \union Journals
  BY PairFields
<1>3. m \in {NoFile} \union Mains /\ j \in {NoFile} \union Journals
  <2>1. Main({0}, {}) \in Mains
    BY States, MainFields
  <2> QED
    BY <1>2, <2>1, ClearedFields
<1>4. disk["main"] \in Mains => m = disk["main"]
  BY MainFields
<1>5. (j # NoFile /\ j.from # {}) = HasRecord(disk)
  <2>1. CASE disk["journal"] = NoFile
    BY <2>1, ClearedFields DEF HasRecord
  <2>2. CASE disk["journal"] # NoFile
    BY <2>2 DEF HasRecord
  <2> QED
    BY <2>1, <2>2
<1>6. HasRecord(disk) => j = disk["journal"]
  BY DEF HasRecord
<1> HIDE DEF m, j
<1>7. HasRecord(Pair(m, j)) = HasRecord(disk)
  BY <1>5, PairFields DEF HasRecord
<1>8. \A n : Holds(disk, n) /\ disk["main"] \in Mains => Holds(Pair(m, j), n)
  BY <1>4, <1>6, <1>7, PairFields DEF Holds
<1>9. ~HasRecord(disk) /\ m = Main({0}, {}) => Holds(Pair(m, j), 0)
  BY <1>7, PairFields, MainFields DEF Holds
<1> QED
  BY <1>1, <1>3, <1>7, <1>8, <1>9, PairFields DEF m, j

(***************************************************************************)
(* What is stored                                                          *)
(***************************************************************************)
LEMMA SameDeletes == deleting' = deleting => Overtakes' = Overtakes
BY DEF Overtakes

(* The files of a database that is stored, and of a call that opens them.  *)
LEMMA OpenFiles ==
  ASSUME RegInv, DiskInv, KeptInv, NEW d \in Db, conn[d] = "stored" \/ call[d] = "journal"
  PROVE  /\ disk["main"] \in Mains /\ (Overtakes => torn)
         /\ ~torn => \E n \in may : Holds(disk, n)
         /\ conn[d] = "stored" => disk["journal"] \in Journals
<1>1. "main" \in held[d] /\ (conn[d] = "stored" => "journal" \in held[d])
  BY DEF RegInv, HeldInv, CallInv, Part
<1>2. disk["main"] # NoFile /\ (conn[d] = "stored" => disk["journal"] # NoFile)
  BY <1>1 DEF DiskInv
<1>3. disk["main"] \in {NoFile} \union Mains /\ disk["journal"] \in {NoFile} \union Journals
  BY PairFields DEF DiskInv
<1>4. (Overtakes => torn) /\ (~torn => \E n \in may : Holds(disk, n))
  BY <1>2 DEF KeptInv
<1> QED
  BY <1>2, <1>3, <1>4

(* Nothing happens to the files. *)
LEMMA SameFiles ==
  ASSUME DiskInv, KeptInv, UNCHANGED <<disk, may>>, torn' <=> torn, Overtakes' = Overtakes,
         \A d \in Db : held'[d] \subseteq held[d]
  PROVE  DiskInv' /\ KeptInv'
<1>1. DiskInv'
  BY DEF DiskInv
<1>2. KeptInv'
  BY DEF KeptInv
<1> QED
  BY <1>1, <1>2

(* Both files are there, and neither is being deleted unless that is torn.  *)
LEMMA BothFiles ==
  ASSUME TypeInv', disk' \in Disks, disk'["main"] \in Mains, disk'["journal"] \in Journals,
         Overtakes' => torn', ~torn' => \E n \in may' : Holds(disk', n)
  PROVE  DiskInv' /\ KeptInv'
<1>1. disk'["main"] # NoFile /\ disk'["journal"] # NoFile
  BY MainFields, JournalFields
<1>2. \A d \in Db : \A f \in held'[d] : f = "main" \/ f = "journal"
  BY DEF TypeInv, Part
<1>3. DiskInv'
  BY <1>1, <1>2 DEF DiskInv
<1>4. KeptInv'
  BY <1>1 DEF KeptInv
<1> QED
  BY <1>3, <1>4

(* A file is created, while none is being deleted unless that is torn.     *)
LEMMA CreatedKept ==
  ASSUME DiskInv, KeptInv, NEW parts \in SUBSET Part, disk' = Created(parts),
         Created(parts)["main"] # NoFile, Overtakes' = Overtakes, torn' = (torn \/ Overtakes),
         may' = may,
         \A d \in Db : held'[d] \subseteq held[d] \/ held'[d] \subseteq {"main"},
         \A d \in Db : held[d] \subseteq Part
  PROVE  DiskInv' /\ KeptInv'
<1>1. /\ Created(parts) \in Disks
      /\ disk["main"] # NoFile => Created(parts)["main"] = disk["main"]
      /\ disk["main"] = NoFile => Created(parts)["main"] = Main({0}, {})
      /\ disk["journal"] # NoFile => Created(parts)["journal"] # NoFile
  BY CreatedFields DEF DiskInv
<1>2. DiskInv'
  <2>1. \A d \in Db : \A f \in held'[d] : f = "main" \/ (f = "journal" /\ disk[f] # NoFile)
    BY DEF DiskInv, Part
  <2> QED
    BY <1>1, <2>1 DEF DiskInv
<1>3. ~Overtakes /\ ~torn => \E n \in may : Holds(Created(parts), n)
  <2>1. CASE disk["main"] = NoFile
    BY <1>1, <2>1, CreatedFields DEF DiskInv, KeptInv
  <2>2. CASE disk["main"] # NoFile
    <3>1. disk["main"] \in Mains
      BY <2>2, PairFields DEF DiskInv
    <3> QED
      BY <2>2, <3>1, CreatedFields DEF DiskInv, KeptInv
  <2> QED
    BY <2>1, <2>2
<1>4. KeptInv'
  BY <1>3 DEF KeptInv
<1> QED
  BY <1>2, <1>4

(* The first file is opened, or a call of store() fails.                   *)
LEMMA OpenMainKept ==
  ASSUME TypeInv, RegInv, DiskInv, KeptInv, NEW d \in Db, OpenMain(d)
  PROVE  DiskInv' /\ KeptInv'
<1>1. /\ disk' = Created({"main"}) /\ torn' = (torn \/ Overtakes) /\ may' = may
      /\ held' = [held EXCEPT ![d] = {"main"}] /\ deleting' = deleting
  BY DEF OpenMain
<1>2. \A e \in Db : held'[e] \subseteq held[e] \/ held'[e] \subseteq {"main"}
  BY <1>1 DEF TypeInv
<1>3. Created({"main"})["main"] # NoFile
  <2>1. Main({0}, {}) # NoFile
    BY States, MainFields
  <2> QED
    BY <2>1, CreatedFields DEF DiskInv, Part
<1> QED
  BY <1>1, <1>2, <1>3, SameDeletes, CreatedKept DEF TypeInv, Part

LEMMA OpenFailsKept ==
  ASSUME TypeInv, RegInv, DiskInv, KeptInv, NEW d \in Db, OpenFails(d)
  PROVE  DiskInv' /\ KeptInv'
<1>1. /\ disk' \in {disk, Created({call[d]})} /\ torn' = (torn \/ (disk' # disk /\ Overtakes))
      /\ call[d] \in Part /\ may' = may /\ deleting' = deleting
      /\ held' = [held EXCEPT ![d] = {}]
  <2>1. ~Idle(d) /\ Release(d) /\ deleting' = deleting /\ may' = may
        /\ disk' \in {disk, Created({call[d]})} /\ torn' = (torn \/ (disk' # disk /\ Overtakes))
    BY DEF OpenFails
  <2>2. call[d] \in Part
    BY <2>1 DEF Idle, TypeInv
  <2>3. held' = [held EXCEPT ![d] = {}]
    BY <2>1 DEF Release
  <2> QED
    BY <2>1, <2>2, <2>3
<1>2. \A e \in Db : held'[e] \subseteq held[e]
  BY <1>1 DEF TypeInv
<1>3. CASE disk' = disk
  <2>1. torn' <=> torn
    BY <1>1, <1>3
  <2> QED
    BY <1>1, <1>2, <1>3, <2>1, SameDeletes, SameFiles
<1>4. CASE disk' # disk
  <2>1. disk' = Created({call[d]}) /\ torn' = (torn \/ Overtakes)
    BY <1>1, <1>4
  <2>2. Created({call[d]})["main"] # NoFile
    <3>1. CASE call[d] = "main"
      <4>1. Main({0}, {}) # NoFile
        BY States, MainFields
      <4> QED
        BY <3>1, <4>1, CreatedFields DEF DiskInv, Part
    <3>2. CASE call[d] = "journal"
      <4>1. disk["main"] # NoFile
        BY <3>2, OpenFiles, MainFields
      <4> QED
        BY <3>2, <4>1, CreatedFields DEF DiskInv, Part
    <3> QED
      BY <1>1, <3>1, <3>2 DEF Part
  <2> QED
    BY <1>1, <1>2, <2>1, <2>2, SameDeletes, CreatedKept DEF TypeInv
<1> QED
  BY <1>3, <1>4

(* The second file is there too: what the file holds it opens as.          *)
LEMMA CreatedJournal ==
  ASSUME RegInv, DiskInv, KeptInv, NEW d \in Db, call[d] = "journal", NEW k,
         k = Created({"journal"})
  PROVE  Both(k) /\ (Overtakes => torn) /\ (~torn => \E n \in may : Holds(k, n))
<1>1. disk["main"] \in Mains /\ (Overtakes => torn) /\ (~torn => \E n \in may : Holds(disk, n))
  BY OpenFiles
<1>2. k \in Disks /\ k["main"] = disk["main"]
  BY CreatedFields DEF DiskInv, Part
<1>3. k["journal"] \in Journals
  <2>1. k["journal"] = IF disk["journal"] = NoFile THEN Cleared ELSE disk["journal"]
    BY CreatedFields DEF DiskInv, Part
  <2> QED
    BY <2>1, ClearedFields, PairFields DEF DiskInv
<1>4. ~torn => \E n \in may : Holds(k, n)
  BY <1>1, CreatedFields DEF DiskInv, Part
<1> QED
  BY <1>1, <1>2, <1>3, <1>4 DEF Both

(* openFile succeeds: the database holds what the file does. *)
LEMMA SyncedKept ==
  ASSUME TypeInv, TypeInv', RegInv, DataInv, DiskInv, KeptInv, NEW d \in Db, Synced(d)
  PROVE  DiskInv' /\ KeptInv' /\ Recovered(disk') \in Contents
<1> DEFINE k == Created({"journal"})
<1>1. /\ call[d] = "journal" /\ disk' = Replayed(k) /\ torn' = Overtakes /\ deleting' = deleting
      /\ last' = [last EXCEPT ![d] = Recovered(disk')] /\ may' = {last'[d]}
  BY DEF Synced, Stores, Uses
<1> HIDE DEF k
<1>2. Both(k) /\ (Overtakes => torn)
  BY <1>1, CreatedJournal DEF k
<1>3. Both(disk') /\ Holds(disk', Recovered(k))
  BY <1>1, <1>2, ReplayedHolds DEF Both
<1>4. Recovered(disk') = Recovered(k) /\ Recovered(disk') \in Contents
  BY <1>3, HoldsRecovers, RecoveredType DEF Both
<1>5. may' = {Recovered(disk')}
  BY <1>1 DEF DataInv
<1>6. \E n \in may' : Holds(disk', n)
  BY <1>3, <1>4, <1>5
<1> QED
  BY <1>1, <1>3, <1>4, <1>6, SameDeletes, BothFiles DEF Both

(* attachFile writes: the file holds what the database does, or, if that    *)
(* fails, what it held.                                                    *)
LEMMA ReplacedHolds ==
  ASSUME RegInv, DataInv, DiskInv, KeptInv, NEW d \in Db, call[d] = "journal",
         NEW fails \in BOOLEAN, NEW l \in Replaced(d, fails)
  PROVE  /\ Both(l) /\ (Overtakes => torn)
         /\ ~torn => \E n \in MayOpen(last[d], fails) : Holds(l, n)
<1> DEFINE k == Created({"journal"})
<1>1. Both(k) /\ (Overtakes => torn) /\ (~torn => \E n \in may : Holds(k, n))
  BY CreatedJournal
<1> DEFINE r == Replayed(k)
<1>2. Both(r) /\ (~torn => \E n \in may : Holds(r, n))
  BY <1>1, CheckpointHolds DEF Checkpoints
<1>3. l \in WriteBack(r, Contents, last[d], fails)
  BY DEF Replaced, Contents
<1>4. last[d] \in Contents
  BY DEF DataInv
<1> HIDE DEF k, r
<1>5. Both(l) /\ (Holds(l, last[d]) \/ (fails /\ l = r))
  BY <1>2, <1>3, <1>4, WriteBackHolds DEF Reaches
<1>6. last[d] \in MayOpen(last[d], fails) /\ (fails => may \subseteq MayOpen(last[d], fails))
  BY DEF MayOpen
<1> QED
  BY <1>1, <1>2, <1>5, <1>6

LEMMA AttachedKept ==
  ASSUME TypeInv, TypeInv', RegInv, DataInv, DiskInv, KeptInv, NEW d \in Db, Attached(d)
  PROVE  DiskInv' /\ KeptInv'
<1>1. /\ call[d] = "journal" /\ torn' = Overtakes /\ deleting' = deleting
      /\ may' = MayOpen(last[d], FALSE) /\ disk' \in Replaced(d, FALSE)
  BY DEF Attached, Stores, Uses
<1>2. Both(disk')
  BY <1>1, ReplacedHolds
<1>3. may' = {last[d]}
  BY <1>1 DEF MayOpen
<1>4. Holds(disk', last[d])
  <2> DEFINE r == Replayed(Created({"journal"}))
  <2>1. Both(r)
    BY <1>1, CreatedJournal, ReplayedHolds DEF Both
  <2>2. disk' \in WriteBack(r, Contents, last[d], FALSE) /\ last[d] \in Contents
    BY <1>1 DEF Replaced, Contents, DataInv
  <2> HIDE DEF r
  <2> QED
    BY <2>1, <2>2, WriteBackHolds DEF Reaches
<1>5. \E n \in may' : Holds(disk', n)
  BY <1>3, <1>4
<1>6. Overtakes' => torn'
  BY <1>1, SameDeletes
<1> QED
  BY <1>2, <1>5, <1>6, BothFiles DEF Both

(* Neither does: the journal may be replayed, and one of an attach() may     *)
(* have got as far as to replace what the file opens as.                   *)
LEMMA UseFailsKept ==
  ASSUME TypeInv, TypeInv', RegInv, DataInv, DiskInv, KeptInv, NEW d \in Db, UseFails(d)
  PROVE  DiskInv' /\ KeptInv'
<1> DEFINE k == Created({"journal"})
<1>1. /\ call[d] = "journal" /\ torn' = torn /\ deleting' = deleting
      /\ \/ disk' \in {k, Replayed(k)} /\ may' = may
         \/ disk' \in Replaced(d, TRUE) /\ may' = MayOpen(last[d], TRUE)
  BY DEF UseFails, Uses
<1> HIDE DEF k
<1>2. Overtakes => torn
  BY <1>1, CreatedJournal DEF k
<1>3. Both(disk') /\ (~torn => \E n \in may' : Holds(disk', n))
  <2>1. CASE disk' \in {k, Replayed(k)} /\ may' = may
    <3>1. Both(k) /\ (~torn => \E n \in may : Holds(k, n))
      BY <1>1, CreatedJournal DEF k
    <3>2. disk' \in Checkpoints(k)
      BY <2>1 DEF Checkpoints
    <3> QED
      BY <2>1, <3>1, <3>2, CheckpointHolds
  <2>2. CASE disk' \in Replaced(d, TRUE) /\ may' = MayOpen(last[d], TRUE)
    BY <1>1, <2>2, ReplacedHolds
  <2> QED
    BY <1>1, <2>1, <2>2
<1> QED
  BY <1>1, <1>2, <1>3, SameDeletes, BothFiles DEF Both

(* A commit of a database that is stored, or what was left of some, is      *)
(* written: the file holds it, or what it held if that fails.              *)
LEMMA WriteKept ==
  ASSUME TypeInv', RegInv, DiskInv, KeptInv, NEW d \in Db, conn[d] = "stored",
         NEW n \in Contents, NEW fails \in BOOLEAN,
         disk' \in WriteBack(disk, disk["main"].mixes, n, fails), may' = MayOpen(n, fails),
         torn' = torn, deleting' = deleting
  PROVE  DiskInv' /\ KeptInv'
<1>1. /\ Both(disk) /\ (Overtakes => torn)
      /\ ~torn => \E m \in may : Holds(disk, m)
  BY OpenFiles DEF Both, DiskInv
<1>2. disk["main"].mixes \in SUBSET Contents
  BY <1>1, MainFields DEF Both
<1>3. ~torn => Reaches(disk, disk["main"].mixes)
  BY <1>1 DEF Reaches
<1>4. Both(disk') /\ (~torn => Holds(disk', n) \/ (fails /\ disk' = disk))
  BY <1>1, <1>2, <1>3, WriteBackHolds
<1>5. n \in may' /\ (fails => may \subseteq may')
  BY DEF MayOpen
<1> QED
  BY <1>1, <1>4, <1>5, SameDeletes, BothFiles DEF Both

(* A try at storing what is left: of a file that opens as one of `s'.      *)
LEMMA TriedHolds ==
  ASSUME NEW k, Both(k), NEW d \in Db, last[d] \in Contents, NEW fails \in BOOLEAN,
         NEW l \in Tried(k, d, fails), NEW s, ~torn => \E n \in s : Holds(k, n)
  PROVE  /\ Both(l)
         /\ ~torn => \E n \in (IF ~unstored[d] THEN s
                               ELSE IF fails THEN s \union {last[d]} ELSE {last[d]}) : Holds(l, n)
<1>1. CASE unstored[d]
  <2>1. l \in WriteBack(k, k["main"].mixes, last[d], fails) /\ k["main"].mixes \in SUBSET Contents
    BY <1>1, MainFields DEF Tried, Both
  <2>2. ~torn => Reaches(k, k["main"].mixes)
    BY DEF Reaches
  <2>3. Both(l) /\ (~torn => Holds(l, last[d]) \/ (fails /\ l = k))
    BY <2>1, <2>2, WriteBackHolds
  <2> QED
    BY <1>1, <2>3
<1>2. CASE ~unstored[d]
  BY <1>2 DEF Tried
<1> QED
  BY <1>1, <1>2

(* A database leaves its file, which it could store or not (`left').       *)
LEMMA LeaveKept ==
  ASSUME TypeInv, TypeInv', RegInv, DiskInv, KeptInv, NEW d \in Db, conn[d] = "stored",
         NEW left, NEW fails, Leave(d, left, fails), Both(disk'),
         ~torn => \E n \in (IF unstored[d] THEN MayOpen(last[d], left) ELSE may) : Holds(disk', n),
         torn' = torn, deleting' = deleting
  PROVE  DiskInv' /\ KeptInv'
<1>1. may' = IF unstored[d] THEN MayOpen(last[d], left) ELSE may
  BY DEF Leave
<1>2. Overtakes => torn
  BY OpenFiles
<1> QED
  BY <1>1, <1>2, SameDeletes, BothFiles DEF Both

LEMMA SettledHolds ==
  ASSUME NEW k, Both(k), NEW left \in BOOLEAN, NEW l \in Settled(k, left)
  PROVE  Both(l) /\ \A n : Holds(k, n) => Holds(l, n)
<1>1. l = k \/ l \in Checkpoints(k)
  BY DEF Settled
<1> QED
  BY <1>1, CheckpointHolds

LEMMA DetachKept ==
  ASSUME TypeInv, TypeInv', RegInv, DataInv, DiskInv, KeptInv, NEW d \in Db, Detach(d)
  PROVE  DiskInv' /\ KeptInv'
<1>0. PICK left \in BOOLEAN :
        /\ conn[d] = "stored" /\ Leave(d, left, left) /\ torn' = torn /\ deleting' = deleting
        /\ \E k \in Tried(disk, d, left) : disk' \in Settled(k, left)
  BY DEF Detach, DetachFile, Fails, calls
<1>1. PICK k \in Tried(disk, d, left) : disk' \in Settled(k, left)
  BY <1>0
<1>2. Both(disk) /\ (~torn => \E n \in may : Holds(disk, n)) /\ last[d] \in Contents
  BY <1>0, OpenFiles DEF Both, DiskInv, DataInv
<1>3. /\ Both(k)
      /\ ~torn => \E n \in (IF ~unstored[d] THEN may
                            ELSE IF left THEN may \union {last[d]} ELSE {last[d]}) : Holds(k, n)
  BY <1>2, TriedHolds
<1>4. Both(disk') /\ \A n : Holds(k, n) => Holds(disk', n)
  BY <1>1, <1>3, SettledHolds
<1>5. ~torn => \E n \in (IF unstored[d] THEN MayOpen(last[d], left) ELSE may) : Holds(disk', n)
  BY <1>3, <1>4 DEF MayOpen
<1> QED
  BY <1>0, <1>4, <1>5, LeaveKept

LEMMA CloseKept ==
  ASSUME TypeInv, TypeInv', RegInv, DataInv, DiskInv, KeptInv, NEW d \in Db, Close(d)
  PROVE  DiskInv' /\ KeptInv'
<1>1. PICK fails \in Fails(d), left \in Fails(d) :
        /\ conn[d] = "stored" /\ CloseFile(d, fails, left) /\ Leave(d, left, fails)
        /\ torn' = torn /\ deleting' = deleting
  BY DEF Close, calls
<1>2. fails \in BOOLEAN /\ left \in BOOLEAN /\ (fails => unstored[d])
  BY DEF Fails
<1>3. PICK k \in Tried(disk, d, fails) :
        IF leaked[d] THEN left = fails /\ disk' = k
        ELSE IF fails THEN \E l \in Tried(k, d, left) : disk' \in Settled(l, left)
        ELSE left = FALSE /\ disk' \in Checkpoints(k)
  BY <1>1 DEF CloseFile
<1>4. Both(disk) /\ (~torn => \E n \in may : Holds(disk, n)) /\ last[d] \in Contents
  BY <1>1, OpenFiles DEF Both, DiskInv, DataInv
<1> DEFINE s == IF ~unstored[d] THEN may
                ELSE IF fails THEN may \union {last[d]} ELSE {last[d]}
<1>5. Both(k) /\ (~torn => \E n \in s : Holds(k, n))
  BY <1>2, <1>4, TriedHolds
<1> DEFINE u == IF unstored[d] THEN MayOpen(last[d], left) ELSE may
<1>6. Both(disk') /\ (~torn => \E n \in u : Holds(disk', n))
  <2>1. CASE leaked[d]
    <3>1. left = fails /\ disk' = k
      BY <1>3, <2>1
    <3>2. u = s
      BY <3>1 DEF MayOpen
    <3> QED
      BY <1>5, <3>1, <3>2
  <2>2. CASE ~leaked[d] /\ fails
    <3>1. PICK l \in Tried(k, d, left) : disk' \in Settled(l, left)
      BY <1>3, <2>2
    <3> DEFINE v == IF ~unstored[d] THEN s
                    ELSE IF left THEN s \union {last[d]} ELSE {last[d]}
    <3>2. v = u
      BY <1>2, <2>2 DEF MayOpen
    <3> HIDE DEF s, u
    <3>3. Both(l) /\ (~torn => \E n \in v : Holds(l, n))
      BY <1>2, <1>4, <1>5, TriedHolds
    <3>4. Both(disk') /\ \A n : Holds(l, n) => Holds(disk', n)
      BY <1>2, <3>1, <3>3, SettledHolds
    <3> QED
      BY <3>2, <3>3, <3>4
  <2>3. CASE ~leaked[d] /\ ~fails
    <3>1. left = FALSE /\ disk' \in Checkpoints(k)
      BY <1>3, <2>3
    <3>2. u = s
      BY <2>3, <3>1 DEF MayOpen
    <3>3. Both(disk') /\ \A n : Holds(k, n) => Holds(disk', n)
      BY <1>5, <3>1, CheckpointHolds
    <3> QED
      BY <1>5, <3>2, <3>3
  <2> QED
    BY <1>2, <2>1, <2>2, <2>3
<1> QED
  BY <1>1, <1>6, LeaveKept

(* delete(): its first half takes the state away, and until its second half *)
(* has taken the journal, that is all there is.                            *)
LEMMA DeleteMainKept ==
  ASSUME TypeInv, DataInv, DiskInv, KeptInv, NEW w \in Worker, DeleteMain(w)
  PROVE  DiskInv' /\ KeptInv'
<1>1. /\ disk' = [disk EXCEPT !["main"] = NoFile] /\ may' = {0}
      /\ deleting' = [deleting EXCEPT ![w] = "journal"] /\ held' = held
      /\ Free("main")
  BY DEF DeleteMain, registry
<1>2. disk' = Pair(NoFile, disk["journal"])
  BY <1>1, SetFields DEF DiskInv
<1>3. disk' \in Disks /\ disk'["main"] = NoFile /\ disk'["journal"] = disk["journal"]
  BY <1>2, PairFields DEF DiskInv
<1>4. Overtakes'
  BY <1>1 DEF DataInv, Overtakes
<1>5. DiskInv'
  <2>1. \A d \in Db : \A f \in held[d] : f = "journal" /\ disk[f] # NoFile
    BY <1>1 DEF DiskInv, Free, TypeInv, Part
  <2> QED
    BY <1>1, <1>3, <2>1 DEF DiskInv
<1>6. KeptInv'
  BY <1>1, <1>3, <1>4 DEF KeptInv
<1> QED
  BY <1>5, <1>6

LEMMA DeleteJournalKept ==
  ASSUME TypeInv, DiskInv, KeptInv, NEW w \in Worker, DeleteJournal(w)
  PROVE  DiskInv' /\ KeptInv'
<1>1. /\ disk' = [disk EXCEPT !["journal"] = NoFile] /\ may' = may
      /\ torn' = (torn /\ disk["main"] # NoFile) /\ held' = held
      /\ deleting[w] = "journal" /\ Free("journal")
  BY DEF DeleteJournal, registry
<1>2. disk' = Pair(disk["main"], NoFile)
  BY <1>1, SetFields DEF DiskInv
<1>3. disk' \in Disks /\ disk'["main"] = disk["main"] /\ disk'["journal"] = NoFile
  BY <1>2, PairFields DEF DiskInv
<1>4. ~torn' => disk["main"] = NoFile
  BY <1>1 DEF KeptInv, Overtakes
<1>5. DiskInv'
  <2>1. \A d \in Db : \A f \in held[d] : f = "main" /\ disk[f] # NoFile
    BY <1>1 DEF DiskInv, Free, TypeInv, Part
  <2> QED
    BY <1>1, <1>3, <2>1 DEF DiskInv
<1>6. KeptInv'
  BY <1>1, <1>3, <1>4 DEF KeptInv, HasRecord
<1> QED
  BY <1>5, <1>6

(* A delete() ends without the journal, which is torn if that is of use.    *)
LEMMA LeftKept ==
  ASSUME DiskInv, KeptInv, disk' = disk, may' = may, torn => torn', Overtakes' => Overtakes,
         Overtakes /\ ~Overtakes' /\ ~torn' => ~HasRecord(disk),
         \A d \in Db : held'[d] \subseteq held[d]
  PROVE  DiskInv' /\ KeptInv'
<1>1. DiskInv'
  BY DEF DiskInv
<1>2. KeptInv'
  BY DEF KeptInv
<1> QED
  BY <1>1, <1>2

LEMMA DeleteFailsKept ==
  ASSUME DataInv, DiskInv, KeptInv, NEW w \in Worker, DeleteFails(w)
  PROVE  DiskInv' /\ KeptInv'
<1>1. /\ deleting' = [deleting EXCEPT ![w] = "idle"] /\ held' = held /\ disk' = disk /\ may' = may
      /\ torn' = (torn \/ (deleting[w] = "journal" /\ HasRecord(disk)))
  BY DEF DeleteFails, registry
<1>2. \A v \in Worker : deleting'[v] = IF v = w THEN "idle" ELSE deleting[v]
  BY <1>1 DEF DataInv
<1>3. Overtakes' => Overtakes
  BY <1>2 DEF Overtakes
<1>4. Overtakes /\ ~Overtakes' => deleting[w] = "journal"
  BY <1>2 DEF Overtakes
<1> QED
  BY <1>1, <1>3, <1>4, LeftKept

(* Workers end, and with them what they delete.                            *)
LEMMA EndLeaves ==
  ASSUME DataInv, TypeInv, NEW ws \in SUBSET Worker, End(ws)
  PROVE  /\ torn => torn'
         /\ Overtakes' => Overtakes
         /\ Overtakes /\ ~Overtakes' /\ ~torn' => ~HasRecord(disk)
         /\ \A d \in Db : held'[d] \subseteq held[d]
<1>1. /\ held' = [d \in Db |-> IF at[d] \in ws THEN {} ELSE held[d]]
      /\ deleting' = [w \in Worker |-> IF w \in ws THEN "idle" ELSE deleting[w]]
      /\ torn' = (torn \/ (HasRecord(disk) /\ \E w \in ws : deleting[w] = "journal"))
  BY DEF End
<1>2. \A w \in Worker : deleting'[w] = IF w \in ws THEN "idle" ELSE deleting[w]
  BY <1>1
<1>3. Overtakes' => Overtakes
  BY <1>2 DEF Overtakes
<1>4. Overtakes /\ ~Overtakes' => \E w \in ws : deleting[w] = "journal"
  BY <1>2 DEF Overtakes
<1>5. \A d \in Db : held'[d] \subseteq held[d]
  BY <1>1
<1> QED
  BY <1>1, <1>3, <1>4, <1>5

(* The power goes: what may be found of the file is found.                 *)
LEMMA PowerLossKept ==
  ASSUME TypeInv, DataInv, DiskInv, KeptInv, PowerLoss
  PROVE  DiskInv' /\ KeptInv'
<1> DEFINE m == Main(Found(disk["main"]), {})
<1>1. /\ disk["main"] # NoFile /\ disk' = [disk EXCEPT !["main"] = Main(Found(disk["main"]), {})]
      /\ End(Worker) /\ may' = may
  BY DEF PowerLoss
<1>2. /\ torn => torn'
      /\ Overtakes' => Overtakes
      /\ \A d \in Db : held'[d] \subseteq held[d]
  BY <1>1, EndLeaves
<1>3. disk["main"] \in Mains /\ disk["journal"] \in {NoFile} \union Journals
  BY <1>1, PairFields DEF DiskInv
<1>4. m \in Mains /\ Found(m) = Found(disk["main"]) /\ m # NoFile
  <2>1. Found(disk["main"]) \in (SUBSET Contents) \ {{}}
    BY <1>3, MainFields
  <2>2. m \in Mains /\ m.mixes = Found(disk["main"]) /\ m.unsynced = {}
    BY <2>1, MainFields
  <2> QED
    BY <2>2, MainFields DEF Found
<1>5. disk' = Pair(m, disk["journal"])
  BY <1>1, SetFields DEF DiskInv
<1> HIDE DEF m
<1>6. disk' \in Disks /\ disk'["main"] = m /\ disk'["journal"] = disk["journal"]
  BY <1>3, <1>4, <1>5, PairFields
<1>7. DiskInv'
  <2>1. \A d \in Db : \A f \in held[d] : (f = "main" \/ f = "journal") /\ disk[f] # NoFile
    BY DEF DiskInv, TypeInv, Part
  <2> QED
    BY <1>2, <1>4, <1>6, <2>1 DEF DiskInv
<1>8. \A n : Holds(disk, n) => Holds(disk', n)
  BY <1>4, <1>6 DEF Holds, HasRecord
<1>9. Overtakes => torn
  BY <1>1 DEF KeptInv
<1>10. ~torn' => \E n \in may : Holds(disk, n)
  BY <1>1, <1>2, <1>9 DEF KeptInv
<1>11. KeptInv'
  BY <1>1, <1>2, <1>4, <1>6, <1>8, <1>9, <1>10 DEF KeptInv
<1> QED
  BY <1>7, <1>11

(* A Worker ends while it writes a commit: the record makes that commit of  *)
(* what the file mixes.                                                    *)
LEMMA CrashWritingKept ==
  ASSUME TypeInv, TypeInv', RegInv, DataInv, DiskInv, KeptInv, NEW d \in Db, CrashWriting(d)
  PROVE  DiskInv' /\ KeptInv'
<1> DEFINE n == commits + 1
           over == disk["main"].mixes
<1>1. /\ conn[d] = "stored" /\ may' = {n} /\ commits < MaxCommits /\ End({at[d]})
      /\ disk' = HalfWritten(disk, over, n)
  BY DEF CrashWriting
<1>2. Both(disk) /\ (Overtakes => torn) /\ (~torn => \E m \in may : Holds(disk, m))
  BY <1>1, OpenFiles DEF Both, DiskInv
<1>3. n \in Contents /\ over \in SUBSET Contents
  BY <1>1, <1>2, States, MainFields DEF DataInv, Both
<1>4. ~torn => Reaches(disk, over)
  BY <1>2 DEF Reaches
<1> HIDE DEF n, over
<1>5. Both(disk') /\ (~torn => Holds(disk', n))
  BY <1>1, <1>2, <1>3, <1>4, HalfWrittenHolds
<1>6. (torn => torn') /\ (Overtakes' => Overtakes)
  <2>1. at[d] \in Worker
    BY <1>1 DEF RegInv, OneInv, Engaged
  <2> QED
    BY <1>1, <2>1, EndLeaves
<1> QED
  BY <1>1, <1>2, <1>5, <1>6, BothFiles DEF Both

LEMMA DataKept ==
  ASSUME TypeInv, DataInv, Next, \A d \in Db : Synced(d) => Recovered(disk') \in Contents
  PROVE  DataInv'
<1>1. /\ \A d \in Db, n \in Contents : [last EXCEPT ![d] = n] \in [Db -> Contents]
      /\ commits < MaxCommits => commits + 1 \in State /\ commits + 1 \in Contents
      /\ 0 \in Contents
  BY States DEF DataInv
<1>2. CASE UNCHANGED <<last, commits, deleting>>
  BY <1>2 DEF DataInv
<1>3. CASE \/ \E w \in Worker, d \in Db : Create(w, d)
           \/ \E d \in Db : Commit(d)
  <2>1. PICK d \in Db : /\ commits < MaxCommits /\ commits' = commits + 1
                        /\ last' = [last EXCEPT ![d] = commits + 1] /\ deleting' = deleting
    BY <1>3 DEF Create, Commit, calls
  <2> QED
    BY <1>1, <2>1 DEF DataInv
<1>4. CASE \E d \in Db : Synced(d) \/ Close(d) \/ Discard(d)
  <2>1. PICK d \in Db, n \in Contents : /\ last' = [last EXCEPT ![d] = n]
                                        /\ UNCHANGED <<commits, deleting>>
    BY <1>1, <1>4 DEF Synced, Stores, Uses, Close, Discard, calls
  <2> QED
    BY <1>1, <2>1 DEF DataInv
<1>5. CASE \E w \in Worker : Delete(w) \/ DeleteMain(w) \/ DeleteJournal(w) \/ DeleteFails(w)
  <2>1. PICK w \in Worker, f \in {"idle"} \union Part :
          deleting' = [deleting EXCEPT ![w] = f] /\ UNCHANGED <<last, commits>>
    BY <1>5 DEF Delete, DeleteMain, DeleteJournal, DeleteFails, database, Part
  <2> QED
    BY <2>1 DEF DataInv
<1>6. ASSUME NEW ws, End(ws), commits' \in State PROVE DataInv'
  <2>1. /\ last' = [d \in Db |-> IF at[d] \in ws THEN 0 ELSE last[d]]
        /\ deleting' = [w \in Worker |-> IF w \in ws THEN "idle" ELSE deleting[w]]
    BY <1>6 DEF End
  <2>2. last' \in [Db -> Contents]
    BY <1>1, <2>1 DEF DataInv
  <2>3. deleting' \in [Worker -> {"idle"} \union Part]
    BY <2>1 DEF DataInv
  <2> QED
    BY <1>6, <2>2, <2>3 DEF DataInv
<1>7. CASE (\E w \in Worker : Crash(w)) \/ (\E d \in Db : CrashWriting(d)) \/ PowerLoss
  <2>1. commits' \in State
    BY <1>1, <1>7 DEF Crash, CrashWriting, PowerLoss, DataInv
  <2> QED
    BY <1>6, <1>7, <2>1 DEF Crash, CrashWriting, PowerLoss
<1>8. CASE \E w \in Worker, d \in Db : Sync(w, d) \/ Attach(w, d)
  <2>1. UNCHANGED <<last, commits, deleting>>
    BY <1>8 DEF Sync, Attach, Store
  <2> QED
    BY <1>2, <2>1
<1>9. CASE \E d \in Db : Flush(d) \/ Leak(d) \/ OpenMain(d) \/ OpenFails(d) \/ Attached(d)
                        \/ UseFails(d) \/ Detach(d)
  <2>1. UNCHANGED <<last, commits, deleting>>
    BY <1>9 DEF Flush, Leak, OpenMain, OpenFails, Attached, Stores, UseFails, Uses, Detach,
                calls, database
  <2> QED
    BY <1>2, <2>1
<1> QED
  BY <1>3, <1>4, <1>5, <1>7, <1>8, <1>9 DEF Next

LEMMA FilesKept ==
  ASSUME TypeInv, TypeInv', RegInv, DataInv, DiskInv, KeptInv, Next
  PROVE  DataInv' /\ DiskInv' /\ KeptInv'
<1>1. ASSUME UNCHANGED <<disk, may, torn>>, Overtakes' = Overtakes, held' = held
      PROVE  DiskInv' /\ KeptInv'
  BY <1>1, SameFiles
<1>2. ASSUME NEW w \in Worker, NEW d \in Db, Create(w, d) \/ Sync(w, d) \/ Attach(w, d)
      PROVE  DiskInv' /\ KeptInv'
  <2>1. UNCHANGED <<disk, may, torn, held, deleting>>
    BY <1>2 DEF Create, Sync, Attach, Store, history, registry, calls
  <2> QED
    BY <1>1, <2>1, SameDeletes
<1>3. ASSUME NEW d \in Db, Leak(d) \/ Discard(d) PROVE DiskInv' /\ KeptInv'
  <2>1. UNCHANGED <<disk, may, torn, held, deleting>>
    BY <1>3 DEF Leak, Discard, history, registry, calls
  <2> QED
    BY <1>1, <2>1, SameDeletes
<1>4. ASSUME NEW d \in Db, Commit(d) PROVE DiskInv' /\ KeptInv'
  <2>1. /\ UNCHANGED <<held, torn, deleting>> /\ commits < MaxCommits
        /\ \/ UNCHANGED <<disk, may>>
           \/ \E fails \in BOOLEAN :
                /\ conn[d] = "stored" /\ may' = MayOpen(commits + 1, fails)
                /\ disk' \in WriteBack(disk, disk["main"].mixes, commits + 1, fails)
    BY <1>4 DEF Commit, registry, calls
  <2>2. commits + 1 \in Contents
    BY <2>1, States DEF DataInv
  <2>3. CASE UNCHANGED <<disk, may>>
    BY <1>1, <2>1, <2>3, SameDeletes
  <2>4. CASE ~UNCHANGED <<disk, may>>
    BY <2>1, <2>2, <2>4, WriteKept
  <2> QED
    BY <2>3, <2>4
<1>5. ASSUME NEW d \in Db, Flush(d) PROVE DiskInv' /\ KeptInv'
  <2>1. PICK fails \in BOOLEAN :
          /\ UNCHANGED <<torn, deleting>> /\ conn[d] = "stored" /\ may' = MayOpen(last[d], fails)
          /\ disk' \in WriteBack(disk, disk["main"].mixes, last[d], fails)
    BY <1>5 DEF Flush, Tried, calls
  <2>2. last[d] \in Contents
    BY DEF DataInv
  <2> QED
    BY <2>1, <2>2, WriteKept
<1>6. ASSUME NEW d \in Db, OpenMain(d) \/ OpenFails(d) \/ Synced(d) \/ Attached(d) \/ UseFails(d)
      PROVE  DiskInv' /\ KeptInv'
  BY <1>6, OpenMainKept, OpenFailsKept, SyncedKept, AttachedKept, UseFailsKept
<1>7. ASSUME NEW d \in Db, Detach(d) \/ Close(d) PROVE DiskInv' /\ KeptInv'
  BY <1>7, DetachKept, CloseKept
<1>8. ASSUME NEW w \in Worker, Delete(w) PROVE DiskInv' /\ KeptInv'
  <2>1. /\ UNCHANGED <<disk, may, torn, held>> /\ deleting[w] = "idle"
        /\ deleting' = [deleting EXCEPT ![w] = "main"]
    BY <1>8 DEF Delete, history, registry
  <2>2. Overtakes' = Overtakes
    BY <2>1 DEF Overtakes, DataInv
  <2> QED
    BY <1>1, <2>1, <2>2
<1>9. ASSUME NEW w \in Worker, DeleteMain(w) \/ DeleteJournal(w) \/ DeleteFails(w)
      PROVE  DiskInv' /\ KeptInv'
  BY <1>9, DeleteMainKept, DeleteJournalKept, DeleteFailsKept
<1>10. ASSUME NEW w \in Worker, Crash(w) PROVE DiskInv' /\ KeptInv'
  <2>1. End({w}) /\ disk' = disk /\ may' = may
    BY <1>10 DEF Crash
  <2> QED
    BY <2>1, EndLeaves, LeftKept
<1>11. ASSUME NEW d \in Db, CrashWriting(d) PROVE DiskInv' /\ KeptInv'
  BY <1>11, CrashWritingKept
<1>12. ASSUME PowerLoss PROVE DiskInv' /\ KeptInv'
  BY <1>12, PowerLossKept
<1>13. DiskInv' /\ KeptInv'
  BY <1>2, <1>3, <1>4, <1>5, <1>6, <1>7, <1>8, <1>9, <1>10, <1>11, <1>12 DEF Next
<1>14. DataInv'
  BY SyncedKept, DataKept
<1> QED
  BY <1>13, <1>14

(***************************************************************************)
(* What is lost                                                            *)
(***************************************************************************)
LEMMA LossKept ==
  ASSUME LossInv, Next
  PROVE  LossInv'
<1>1. CASE UNCHANGED <<lost, error>>
  BY <1>1 DEF LossInv, LossIsReported
<1>2. ASSUME NEW d \in Db, error' = [error EXCEPT ![d] = FALSE], lost' = [lost EXCEPT ![d] = FALSE]
      PROVE  LossInv'
  BY <1>2 DEF LossInv, LossIsReported
<1>3. ASSUME NEW d \in Db, NEW left \in BOOLEAN, NEW fails \in BOOLEAN, left => fails,
             Leave(d, left, fails)
      PROVE  LossInv'
  BY <1>3 DEF Leave, LossInv, LossIsReported
<1>4. ASSUME NEW ws, End(ws) PROVE LossInv'
  BY <1>4 DEF End, LossInv, LossIsReported
<1>5. ASSUME NEW d \in Db, Detach(d) PROVE LossInv'
  BY <1>3, <1>5 DEF Detach, Fails
<1>6. ASSUME NEW d \in Db, Close(d) PROVE LossInv'
  <2>1. PICK fails \in Fails(d), left \in Fails(d) :
          CloseFile(d, fails, left) /\ Leave(d, left, fails)
    BY <1>6 DEF Close
  <2>2. left => fails
    BY <2>1 DEF CloseFile
  <2>3. left \in BOOLEAN /\ fails \in BOOLEAN
    BY DEF Fails
  <2> QED
    BY <1>3, <2>1, <2>2, <2>3
<1>7. ASSUME NEW w \in Worker, NEW d \in Db, Create(w, d) PROVE LossInv'
  BY <1>2, <1>7 DEF Create
<1>8. ASSUME NEW d \in Db, Stores(d) PROVE LossInv'
  BY <1>2, <1>8 DEF Stores
<1>9. CASE \E w \in Worker, d \in Db : Sync(w, d) \/ Attach(w, d)
  <2>1. UNCHANGED <<lost, error>>
    BY <1>9 DEF Sync, Attach, Store, history
  <2> QED
    BY <1>1, <2>1
<1>10. CASE \E d \in Db : Commit(d) \/ Flush(d) \/ Leak(d) \/ OpenMain(d) \/ OpenFails(d)
                      \/ UseFails(d) \/ Discard(d)
  <2>1. UNCHANGED <<lost, error>>
    BY <1>10 DEF Commit, Flush, Leak, OpenMain, OpenFails, UseFails, Discard, database, history
  <2> QED
    BY <1>1, <2>1
<1>11. CASE \E w \in Worker : Delete(w) \/ DeleteMain(w) \/ DeleteJournal(w) \/ DeleteFails(w)
  <2>1. UNCHANGED <<lost, error>>
    BY <1>11 DEF Delete, DeleteMain, DeleteJournal, DeleteFails, database, history
  <2> QED
    BY <1>1, <2>1
<1>12. CASE \E d \in Db : Synced(d) \/ Attached(d)
  BY <1>8, <1>12 DEF Synced, Attached
<1>13. CASE (\E w \in Worker : Crash(w)) \/ (\E d \in Db : CrashWriting(d)) \/ PowerLoss
  BY <1>4, <1>13 DEF Crash, CrashWriting, PowerLoss
<1> QED
  BY <1>5, <1>6, <1>7, <1>9, <1>10, <1>11, <1>12, <1>13 DEF Next

(***************************************************************************)
(* The steps                                                               *)
(***************************************************************************)
LEMMA InitIInv == Init => IInv
<1> SUFFICES ASSUME Init PROVE IInv
  OBVIOUS
<1>1. TypeInv /\ LossInv
  BY DEF Init, TypeInv, LossInv, LossIsReported
<1>2. RegInv
  BY NoneAssumption DEF Init, RegInv, CallInv, OneInv, IdsInv, HeldInv, FilesInv, StoredInv,
                        ActiveInv, Engaged
<1>3. DataInv
  BY States, BoundsAssumption DEF Init, DataInv, State
<1>4. disk = Pair(NoFile, NoFile)
  BY DEF Init, Pair
<1>5. DiskInv
  <2>1. Pair(NoFile, NoFile) \in Disks
    BY PairFields
  <2>2. \A d \in Db : held[d] = {}
    BY DEF Init
  <2> QED
    BY <1>4, <2>1, <2>2 DEF DiskInv
<1>6. KeptInv
  <2>1. ~Overtakes /\ ~HasRecord(disk) /\ disk["main"] = NoFile
    BY <1>4, PairFields DEF Init, Overtakes, HasRecord
  <2> QED
    BY <2>1 DEF Init, KeptInv
<1> QED
  BY <1>1, <1>2, <1>3, <1>5, <1>6 DEF IInv

LEMMA RegKept ==
  ASSUME TypeInv, RegInv, Next
  PROVE  TypeInv' /\ RegInv'
<1>1. ASSUME NEW w \in Worker, NEW d \in Db, Create(w, d) PROVE TypeInv' /\ RegInv'
  BY <1>1, NotStoredStep DEF Create, Idle, calls
<1>2. ASSUME NEW w \in Worker, NEW d \in Db, Sync(w, d) \/ Attach(w, d) PROVE TypeInv' /\ RegInv'
  BY <1>2, StoreStep DEF Sync, Attach
<1>3. ASSUME NEW d \in Db, Commit(d) \/ Flush(d) \/ Leak(d) PROVE TypeInv' /\ RegInv'
  BY <1>3, SameStep DEF Commit, Flush, Leak, calls
<1>4. ASSUME NEW d \in Db, OpenMain(d) PROVE TypeInv' /\ RegInv'
  BY <1>4, OpenMainStep
<1>5. ASSUME NEW d \in Db, OpenFails(d) \/ UseFails(d) PROVE TypeInv' /\ RegInv'
  <2>1. /\ call[d] # "idle" /\ call' = [call EXCEPT ![d] = "idle"] /\ Release(d)
        /\ UNCHANGED <<conn, at>>
    BY <1>5 DEF OpenFails, UseFails, Uses, Idle, database
  <2>2. conn'[d] # "stored" /\ Engaged(d)
    BY <2>1 DEF RegInv, CallInv, Engaged
  <2> QED
    BY <2>1, <2>2, ReleaseStep DEF TypeInv
<1>6. ASSUME NEW d \in Db, Synced(d) \/ Attached(d) PROVE TypeInv' /\ RegInv'
  BY <1>6, StoresStep DEF Synced, Attached
<1>7. ASSUME NEW d \in Db, Detach(d) \/ Close(d) PROVE TypeInv' /\ RegInv'
  <2>1. PICK c \in {"none", "memory", "zombie"} : conn' = [conn EXCEPT ![d] = c]
    BY <1>7 DEF Detach, DetachFile, Close
  <2>2. conn[d] = "stored" /\ Release(d) /\ UNCHANGED <<at, call>>
    BY <1>7 DEF Detach, DetachFile, Close, Leave, calls
  <2>3. Engaged(d) /\ call[d] = "idle"
    BY <2>2 DEF Engaged, RegInv, CallInv
  <2> QED
    BY <2>1, <2>2, <2>3, ReleaseStep DEF TypeInv
<1>8. ASSUME NEW d \in Db, Discard(d) PROVE TypeInv' /\ RegInv'
  <2>1. /\ conn[d] = "memory" /\ conn' = [conn EXCEPT ![d] = "none"]
        /\ UNCHANGED <<registry, call>> /\ at' = at
    BY <1>8 DEF Discard, calls
  <2> QED
    BY <2>1, NotStoredStep
<1>9. ASSUME NEW w \in Worker, Delete(w) \/ DeleteMain(w) \/ DeleteJournal(w) \/ DeleteFails(w)
      PROVE  TypeInv' /\ RegInv'
  BY <1>9, SameStep DEF Delete, DeleteMain, DeleteJournal, DeleteFails, database
<1>10. CASE \E w \in Worker : Crash(w)
  BY <1>10, EndStep DEF Crash
<1>11. CASE \E d \in Db : CrashWriting(d)
  BY <1>11, EndStep DEF CrashWriting, RegInv, OneInv, Engaged
<1>12. CASE PowerLoss
  BY <1>12, EndStep DEF PowerLoss
<1> QED
  BY <1>1, <1>2, <1>3, <1>4, <1>5, <1>6, <1>7, <1>8, <1>9, <1>10, <1>11, <1>12 DEF Next

LEMMA IInvKept == IInv /\ [Next]_vars => IInv'
<1> SUFFICES ASSUME IInv, [Next]_vars PROVE IInv'
  OBVIOUS
<1>1. CASE Next
  BY <1>1, RegKept, LossKept, FilesKept DEF IInv
<1>2. CASE UNCHANGED vars
  <2>1. TypeInv' /\ RegInv'
    BY <1>2, SameStep DEF vars, database, calls, IInv
  <2>2. LossInv'
    BY <1>2 DEF vars, database, history, IInv, LossInv, LossIsReported
  <2>3. UNCHANGED <<disk, held, may, torn, deleting, last, commits>>
    BY <1>2 DEF vars, registry, database, calls, history
  <2>4. DataInv'
    BY <2>3 DEF IInv, DataInv
  <2>5. DiskInv' /\ KeptInv'
    BY <2>3, SameDeletes, SameFiles DEF IInv
  <2> QED
    BY <2>1, <2>2, <2>4, <2>5 DEF IInv
<1> QED
  BY <1>1, <1>2

(***************************************************************************)
(* The theorems                                                            *)
(***************************************************************************)
LEMMA Invariant == Spec => []IInv
<1> QED
  BY InitIInv, IInvKept, PTL DEF Spec

(* store(), close(), detach() and delete() of any number of Workers, with a *)
(* failure or an end at any await, keep open and registered what a stored   *)
(* database needs, and nothing else (FileStorage.store, Files).            *)
THEOREM NothingStaysOpen == Spec => []FilesAreReleased
<1>1. IInv => FilesAreReleased
  <2> SUFFICES ASSUME IInv PROVE FilesAreReleased
    OBVIOUS
  <2>1. \A d \in Db : (conn[d] = "stored" \/ ~Idle(d)) <=> Engaged(d)
    BY DEF Idle, Engaged
  <2>2. {e \in Db : conn[e] = "stored" \/ ~Idle(e)} = {e \in Db : Engaged(e)}
    BY <2>1
  <2>3. active = {at[d] : d \in {e \in Db : conn[e] = "stored" \/ ~Idle(e)}}
    BY <2>2 DEF IInv, RegInv, ActiveInv
  <2> QED
    BY <2>3 DEF IInv, RegInv, HeldInv, FilesInv, StoredInv, FilesAreReleased
<1> QED
  BY <1>1, Invariant, PTL

(* What close() or detach() could not store, flush() reports                *)
(* (FilePersistence.closing, detach).                                      *)
THEOREM LossesAreReported == Spec => []LossIsReported
<1>1. IInv => LossIsReported
  BY DEF IInv, LossInv
<1> QED
  BY <1>1, Invariant, PTL

(* Opening the database gives the state that was stored last, or a newer one *)
(* that could not be stored since, whatever the calls of any number of       *)
(* Workers leave behind that fail - a record, a half written file -, and     *)
(* after any Worker ended or the power went, unless a delete() took one file *)
(* and not the other (README.md:406; openFile, ovWriteBack, ovRecover).     *)
THEOREM AlwaysOpensTheLastCommit == Spec => []OpensTheLastCommit
<1>1. IInv => OpensTheLastCommit
  <2> SUFFICES ASSUME IInv, ~torn, ~Overtakes
               PROVE  (IF disk["main"] = NoFile THEN 0 ELSE Recovered(disk)) \in may
    BY DEF OpensTheLastCommit
  <2>1. CASE disk["main"] = NoFile
    BY <2>1 DEF IInv, KeptInv
  <2>2. CASE disk["main"] # NoFile
    <3>1. disk["main"] \in Mains /\ disk \in Disks
      BY <2>2, PairFields DEF IInv, DiskInv
    <3>2. PICK n \in may : Holds(disk, n)
      BY <2>2 DEF IInv, KeptInv
    <3> QED
      BY <2>2, <3>1, <3>2, HoldsRecovers
  <2> QED
    BY <2>1, <2>2
<1> QED
  BY <1>1, Invariant, PTL
=============================================================================
