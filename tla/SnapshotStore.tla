---------------------------- MODULE SnapshotStore ----------------------------
(***************************************************************************)
(* What a store of snapshots promises to the Workers that share it          *)
(* (README.md, "Snapshot storage"; SnapshotStore in src/src/snapshots.ts): *)
(* a snapshot appears whole and at once, over one that is there, is never  *)
(* changed, and goes only when nothing lies over it; and a database reads  *)
(* a whole chain of snapshots, down to a full one.  With locks (`guarded'), *)
(* they all stay in the store for as long as it does.                      *)
(***************************************************************************)
CONSTANTS Worker, Key,
          None       \* no key: what a full snapshot lies over

VARIABLES
  stored,   \* the snapshots: for their keys, the time each was created at, the
            \* key it lies over, and when the snapshot of that was created
  reads,    \* per Worker, the chains of <<key, time>> it reads
  guarded   \* what is read is kept

vars == <<stored, reads, guarded>>

Init == stored = [k \in {} |-> None] /\ reads = [w \in Worker |-> {{}}]

There(k, time) == k \in DOMAIN stored /\ stored[k].at = time

(* Each layer is there, and the one it lies over is a layer too. *)
Whole(chain) == \A layer \in chain :
  /\ There(layer[1], layer[2])
  /\ LET s == stored[layer[1]]
     IN  s.parent # None => <<s.parent, s.parentAt>> \in chain

Put(k) ==
  /\ k \notin DOMAIN stored /\ DOMAIN stored' = DOMAIN stored \union {k}
  /\ stored' = [j \in DOMAIN stored' |-> IF j = k THEN stored'[k] ELSE stored[j]]
  /\ stored'[k].parent # None => There(stored'[k].parent, stored'[k].parentAt)
  /\ UNCHANGED <<reads, guarded>>

Delete(k) ==
  /\ k \in DOMAIN stored /\ \A j \in DOMAIN stored : stored[j].parent # k
  /\ guarded => \A w \in Worker : \A chain \in reads[w] : \A layer \in chain : layer[1] # k
  /\ stored' = [j \in DOMAIN stored \ {k} |-> stored[j]]
  /\ UNCHANGED <<reads, guarded>>

(* A database is opened, moves, or is forked to be saved; or reads no more.  *)
Read(w) ==
  /\ reads' = [reads EXCEPT ![w] = reads'[w]]
  /\ guarded => \A chain \in reads'[w] : chain \in reads[w] \/ Whole(chain)
  /\ UNCHANGED <<stored, guarded>>

Next == (\E k \in Key : Put(k) \/ Delete(k)) \/ (\E w \in Worker : Read(w))

Spec == Init /\ [][Next]_vars

=============================================================================
