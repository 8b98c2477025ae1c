---------------------------- MODULE ReadOnlyFile ----------------------------
(***************************************************************************)
(* readOnlyFile of src/src/snapshots.ts over a File or Blob: a read that    *)
(* goes on where the one before ended reads whole blocks, of which the      *)
(* newest are kept.  A read of several blocks is a step for each, since it  *)
(* may drop blocks that it has read, or is still to read.                   *)
(***************************************************************************)
EXTENDS Integers, FiniteSets

CONSTANTS Source,     \* the bytes, from 0
          Size, BlockSize,
          Capacity    \* ReadOnlyFileOptions.blocks

Sizes == Size \in Nat /\ BlockSize \in Nat \ {0} /\ Capacity \in Nat

VARIABLES
  cached,       \* blocks by index, each with the time of its last use
  turn,        \* that time: a Map keeps its entries in the order of it
  previousEnd,  \* where the previous read ended
  at, end,      \* the range that is read
  buffer,       \*   and what it is read into
  next          \* the block that is read next, Done at the end

vars == <<cached, turn, previousEnd, at, end, buffer, next>>

Done == -1
Least(a, b) == IF a < b THEN a ELSE b
Most(a, b) == IF a < b THEN b ELSE a
IndexOf(position) == position \div BlockSize

(* Bytes, as a Uint8Array is: `byte' of 0 to length - 1. *)
Bytes(a, b) == [length |-> b - a, byte |-> [k \in 0 .. b - a - 1 |-> Source[a + k]]]
SubArray(bytes, a, b) == [length |-> b - a, byte |-> [k \in 0 .. b - a - 1 |-> bytes.byte[a + k]]]
Set(into, bytes, offset) ==
  [k \in DOMAIN into |-> IF k \in offset .. offset + bytes.length - 1
                         THEN bytes.byte[k - offset] ELSE into[k]]

Block(i) == Bytes(i * BlockSize, Least(i * BlockSize + BlockSize, Size))

Init ==
  /\ cached = [i \in {} |-> 0] /\ turn = 0 /\ previousEnd = -1
  /\ at = 0 /\ end = 0 /\ buffer = [k \in {} |-> 0] /\ next = Done

(***************************************************************************)
(* read(buffer, at): at the end of the file there is nothing to read        *)
(***************************************************************************)
(* The read goes on where the one before ended, or its blocks are there. *)
Whole(a, e) ==
  \/ Capacity > 0 /\ a >= previousEnd /\ a < previousEnd + BlockSize
  \/ \A i \in IndexOf(a) .. IndexOf(e - 1) : i \in DOMAIN cached

ReadNothing(a, length) ==
  /\ next = Done /\ Least(a + length, Size) <= a
  /\ at' = a /\ end' = a /\ buffer' = [k \in 0 .. length - 1 |-> 0]
  /\ UNCHANGED <<cached, turn, previousEnd, next>>

Read(a, length) ==
  LET e == Least(a + length, Size)
      empty == [k \in 0 .. length - 1 |-> 0]
  IN  /\ next = Done /\ e > a
      /\ at' = a /\ end' = e /\ previousEnd' = e
      /\ IF Whole(a, e) THEN next' = IndexOf(a) /\ buffer' = empty
         ELSE next' = Done /\ buffer' = Set(empty, Bytes(a, e), 0)
      /\ UNCHANGED <<cached, turn>>

(***************************************************************************)
(* block(index)                                                            *)
(***************************************************************************)
Used(block) == [block |-> block, used |-> turn]

(* Block i is kept, and `kept' of the others. *)
Keep(i, block, kept) ==
  cached' = [j \in kept \union {i} |-> IF j = i THEN Used(block) ELSE cached[j]]

Oldest(i) == i \in DOMAIN cached /\ \A j \in DOMAIN cached : cached[i].used <= cached[j].used

(* What block(i) returns. *)
BlockOf(i) == IF i \in DOMAIN cached THEN cached[i].block ELSE Block(i)

(* Keeps it, instead of the least recently used one if there are as many as *)
(* it may keep.                                                            *)
Fetch(i) ==
  /\ turn' = turn + 1
  /\ IF i \in DOMAIN cached THEN Keep(i, BlockOf(i), DOMAIN cached)
     ELSE IF Capacity = 0 THEN UNCHANGED cached
     ELSE IF Cardinality(DOMAIN cached) < Capacity THEN Keep(i, BlockOf(i), DOMAIN cached)
     ELSE \E old \in DOMAIN cached : Oldest(old) /\ Keep(i, BlockOf(i), DOMAIN cached \ {old})

Copy ==
  LET start == next * BlockSize
      b == BlockOf(next)
      from == Most(at, start)
      to == Least(end, start + b.length)
  IN  /\ next # Done /\ Fetch(next)
      /\ buffer' = Set(buffer, SubArray(b, from - start, to - start), from - at)
      /\ next' = IF next = IndexOf(end - 1) THEN Done ELSE next + 1
      /\ UNCHANGED <<previousEnd, at, end>>

(* Another file over the same content, with the same blocks, reads one      *)
(* between the reads of this one: layers of snapshots share them.          *)
ReadByAnother ==
  /\ next = Done /\ \E i \in IndexOf(0) .. IndexOf(Size - 1) : Fetch(i)
  /\ UNCHANGED <<previousEnd, at, end, buffer, next>>

Next ==
  \/ \E a, length \in Nat : ReadNothing(a, length) \/ Read(a, length)
  \/ Copy
  \/ ReadByAnother

Spec == Init /\ [][Next]_vars

(***************************************************************************)
(* Properties                                                              *)
(***************************************************************************)
(* A read returns the bytes of the file, whatever was read before it and    *)
(* whichever blocks it found, read or dropped.                             *)
ReadsAreExact ==
  next = Done => \A k \in 0 .. end - at - 1 : k \in DOMAIN buffer /\ buffer[k] = Source[at + k]

(* No more blocks are kept than may be. *)
CacheIsBounded == IsFiniteSet(DOMAIN cached) /\ Cardinality(DOMAIN cached) <= Capacity
=============================================================================
