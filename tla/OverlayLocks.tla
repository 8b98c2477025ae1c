---------------------------- MODULE OverlayLocks ----------------------------
(***************************************************************************)
(* Connections, each on a thread of its own, to overlays that live in      *)
(* memory (src/src/overlay.c): the locks of the connections of one overlay *)
(* (ovLock, ovUnlock), and the pages that an overlay shares with those it  *)
(* was forked to, which are counted and copied before they are written     *)
(* (ovPageForWrite).  gMutex guards the locks and counts, but not a whole  *)
(* write of a page: what it protects is one step here.                     *)
(*                                                                         *)
(* A transaction of SQLite's pager writes to the file with an EXCLUSIVE    *)
(* lock only, page by page, and cuts it if it got shorter; a rollback cuts *)
(* it, or makes it longer, and writes the pages it journaled again.        *)
(* Journals are private (memIoMethods), so none is ever hot.               *)
(***************************************************************************)
EXTENDS Integers, FiniteSets

CONSTANTS Conn, Ov, PageId,
          N,          \* chunks a file may have
          None,       \* no overlay, no connection, no page
          MaxCommits  \* bound: transactions that write

ASSUME NoneAssumption == None \notin Conn \union Ov \union PageId
ASSUME FiniteAssumption == IsFiniteSet(Conn) /\ IsFiniteSet(Ov)
ASSUME NAssumption == N \in Nat \ {0}

Chunk == 0 .. N - 1
Size == 0 .. N
File == [size : Size, data : [Chunk -> Nat]]

(* SQLITE_LOCK_NONE to SQLITE_LOCK_EXCLUSIVE, which the code compares. *)
NONE == 0
SHARED == 1
RESERVED == 2
PENDING == 3
EXCLUSIVE == 4
Lock == NONE .. EXCLUSIVE

VARIABLES
  on,        \* per connection: p->pOv, or None
  lock,      \* per connection: p->eLock
  nRef,      \* per overlay: connections; none: it is not there
  nShared,   \* per overlay: those with a lock
  pWriter,   \* per overlay: the one with a RESERVED lock, or more
  eWriter,   \* per overlay: what it has
  szFile,    \* per overlay: the size of the file, in chunks
  apPage,    \* per overlay: its page of each chunk, or None (zeros)
  count,     \* per page: p->nRef; 0: it is free
  bytes,     \* per page: what it holds
  op,        \* per connection: the write of a page under way
  plan,      \* per connection: what its transaction makes of the file
  todo,      \* per connection: the chunks still to be written for that
  committed, \* history: per overlay, its last commit
  view,      \* history: per connection, what it read when it got its lock
  commits    \* transactions that wrote

lockVars  == <<lock, nShared, pWriter, eWriter>>
pageVars  == <<szFile, apPage, count, bytes>>
pagerVars == <<plan, todo, commits>>
vars == <<on, nRef, lockVars, pageVars, op, pagerVars, committed, view>>

NoFile == [size |-> 0, data |-> [i \in Chunk |-> 0]]
NoPages == [i \in Chunk |-> None]
Idle == [pc |-> "idle", chunk |-> None, new |-> None]

Init ==
  /\ on = [c \in Conn |-> None] /\ lock = [c \in Conn |-> NONE]
  /\ nRef = [o \in Ov |-> 0] /\ nShared = [o \in Ov |-> 0]
  /\ pWriter = [o \in Ov |-> None] /\ eWriter = [o \in Ov |-> NONE]
  /\ szFile = [o \in Ov |-> 0] /\ apPage = [o \in Ov |-> NoPages]
  /\ count = [p \in PageId |-> 0] /\ bytes = [p \in PageId |-> 0]
  /\ op = [c \in Conn |-> Idle]
  /\ plan = [c \in Conn |-> NoFile] /\ todo = [c \in Conn |-> {}] /\ commits = 0
  /\ committed = [o \in Ov |-> NoFile] /\ view = [c \in Conn |-> NoFile]

(* ovFileSize, and ovRead of the whole file. *)
Content(o) ==
  [size |-> szFile[o],
   data |-> [i \in Chunk |-> IF i >= szFile[o] \/ apPage[o][i] = None THEN 0
                             ELSE bytes[apPage[o][i]]]]

(* Chunks in which a page table has this page. *)
Uses(table, p) == Cardinality({i \in Chunk : table[i] = p})

(* Mutant of DropPages: frees them, whoever else may have them. *)
DropPagesAnyhow(o, n) ==
  /\ apPage' = [apPage EXCEPT ![o] = [i \in Chunk |-> IF i < n THEN apPage[o][i] ELSE None]]
  /\ count' = [p \in PageId |->
       IF \E i \in Chunk : i >= n /\ apPage[o][i] = p THEN 0 ELSE count[p]]

(* ovDropPagesLocked: the pages from the nth on are let go of. *)
DropPages(o, n) ==
  /\ apPage' = [apPage EXCEPT ![o] = [i \in Chunk |-> IF i < n THEN apPage[o][i] ELSE None]]
  /\ count' = [p \in PageId |->
       count[p] - Cardinality({i \in Chunk : i >= n /\ apPage[o][i] = p})]

(***************************************************************************)
(* Opening and closing                                                     *)
(***************************************************************************)
(* ovOpenMain: joins the overlay of that name, or creates it. *)
Open(c, o) ==
  /\ on[c] = None
  /\ on' = [on EXCEPT ![c] = o] /\ nRef' = [nRef EXCEPT ![o] = @ + 1]
  /\ UNCHANGED <<lockVars, pageVars, op, pagerVars, committed, view>>

(* Mutant of CanFork: no matter what the writer does. *)
CanForkAnytime(src) == nRef[src] > 0
CanFork(src) == nRef[src] > 0 /\ eWriter[src] < PENDING

(* ovCreateLocked with from=: every page is shared. *)
Fork(c, o, src) ==
  /\ on[c] = None /\ nRef[o] = 0 /\ CanFork(src)
  /\ on' = [on EXCEPT ![c] = o] /\ nRef' = [nRef EXCEPT ![o] = 1]
  /\ apPage' = [apPage EXCEPT ![o] = apPage[src]]
  /\ szFile' = [szFile EXCEPT ![o] = szFile[src]]
  /\ count' = [p \in PageId |-> count[p] + Uses(apPage[src], p)]
  /\ committed' = [committed EXCEPT ![o] = committed[src]]
  /\ UNCHANGED <<lockVars, bytes, op, pagerVars, view>>

(* Mutant of Unlocked: counts itself out though it had no lock. *)
UnlockedAnyhow(c, o, to) ==
  /\ lock' = [lock EXCEPT ![c] = to]
  /\ pWriter' = [pWriter EXCEPT ![o] = IF lock[c] > SHARED /\ @ = c THEN None ELSE @]
  /\ eWriter' = [eWriter EXCEPT ![o] =
       IF lock[c] > SHARED /\ pWriter[o] = c THEN NONE ELSE @]
  /\ nShared' = [nShared EXCEPT ![o] = IF to = NONE THEN @ - 1 ELSE @]

Unlocked(c, o, to) ==
  /\ lock' = [lock EXCEPT ![c] = to]
  /\ pWriter' = [pWriter EXCEPT ![o] = IF lock[c] > SHARED /\ @ = c THEN None ELSE @]
  /\ eWriter' = [eWriter EXCEPT ![o] =
       IF lock[c] > SHARED /\ pWriter[o] = c THEN NONE ELSE @]
  /\ nShared' = [nShared EXCEPT ![o] =
       IF to = NONE /\ lock[c] >= SHARED THEN @ - 1 ELSE @]

(* ovClose, after the pager rolled back what was not committed.  The last   *)
(* connection takes the overlay with it (ovDestroyLocked).                 *)
Close(c) ==
  /\ on[c] # None /\ lock[c] # EXCLUSIVE
  /\ LET o == on[c]
     IN  /\ Unlocked(c, o, NONE)
         /\ nRef' = [nRef EXCEPT ![o] = @ - 1]
         /\ IF nRef[o] = 1
            THEN /\ DropPages(o, 0) /\ szFile' = [szFile EXCEPT ![o] = 0]
                 /\ committed' = [committed EXCEPT ![o] = NoFile]
            ELSE UNCHANGED <<szFile, apPage, count, committed>>
  /\ on' = [on EXCEPT ![c] = None] /\ view' = [view EXCEPT ![c] = NoFile]
  /\ UNCHANGED <<bytes, op, pagerVars>>

(***************************************************************************)
(* ovLock and ovUnlock                                                     *)
(***************************************************************************)
(* Mutant of CanShare: new readers get in while a writer waits. *)
CanShareWhilePending(o) == eWriter[o] < EXCLUSIVE
CanShare(o) == eWriter[o] < PENDING

LockShared(c) ==
  /\ on[c] # None /\ lock[c] = NONE /\ CanShare(on[c])
  /\ nShared' = [nShared EXCEPT ![on[c]] = @ + 1]
  /\ lock' = [lock EXCEPT ![c] = SHARED]
  /\ view' = [view EXCEPT ![c] = Content(on[c])]
  /\ UNCHANGED <<on, nRef, pWriter, eWriter, pageVars, op, pagerVars, committed>>

(* Mutant of CanWrite: a second writer takes the place of the first. *)
CanWriteToo(c) == TRUE
CanWrite(c) == pWriter[on[c]] \in {None, c}

TakeWriter(c, level) ==
  /\ pWriter' = [pWriter EXCEPT ![on[c]] = c]
  /\ eWriter' = [eWriter EXCEPT ![on[c]] = level]
  /\ lock' = [lock EXCEPT ![c] = level]
  /\ UNCHANGED <<on, nRef, nShared, pageVars, op, committed, view>>

Begun == {c \in Conn : lock[c] \in {RESERVED, PENDING}}

LockReserved(c) ==
  /\ lock[c] = SHARED /\ CanWrite(c) /\ commits + Cardinality(Begun) < MaxCommits
  /\ TakeWriter(c, RESERVED)
  /\ UNCHANGED pagerVars

(* Readers are left: SQLITE_BUSY, but new ones are kept out. *)
LockPending(c) ==
  /\ lock[c] = RESERVED /\ CanWrite(c) /\ nShared[on[c]] > 1
  /\ TakeWriter(c, PENDING)
  /\ UNCHANGED pagerVars

(* Mutant of AloneWith: counts only those that came before it. *)
AloneWithReader(c) == nShared[on[c]] <= 2
AloneWith(c) == nShared[on[c]] <= 1

(* The pager then writes some pages, the header among them, and cuts the    *)
(* file if it gets shorter; if it gets longer, by writing its last page.   *)
LockExclusive(c) ==
  /\ lock[c] \in {RESERVED, PENDING} /\ CanWrite(c) /\ AloneWith(c)
  /\ TakeWriter(c, EXCLUSIVE)
  /\ commits' = commits + 1
  /\ \E n \in Size \ {0} : \E chunks \in SUBSET (0 .. n - 1) :
       /\ 0 \in chunks /\ (n > committed[on[c]].size => n - 1 \in chunks)
       /\ todo' = [todo EXCEPT ![c] = chunks]
       /\ plan' = [plan EXCEPT ![c] =
            [size |-> n,
             data |-> [i \in Chunk |-> IF i \in chunks THEN commits + 1
                                       ELSE IF i < n THEN committed[on[c]].data[i] ELSE 0]]]

(* The pager ends a read, gives up, or has written what it wanted to. *)
Unlock(c, to) ==
  /\ op[c] = Idle /\ todo[c] = {}
  /\ lock[c] > to /\ (lock[c] = EXCLUSIVE => szFile[on[c]] = plan[c].size)
  /\ Unlocked(c, on[c], to)
  /\ IF lock[c] = EXCLUSIVE
     THEN committed' = [committed EXCEPT ![on[c]] = plan[c]]
     ELSE UNCHANGED committed
  /\ view' = [view EXCEPT ![c] = IF to = NONE THEN NoFile ELSE committed'[on[c]]]
  /\ plan' = [plan EXCEPT ![c] = NoFile]
  /\ UNCHANGED <<on, nRef, pageVars, op, todo, commits>>

EndRead(c) == lock[c] = SHARED /\ Unlock(c, NONE)

(* A statement fails: the pages that were journaled are written again, and   *)
(* the last one if the file was cut.                                       *)
Rollback(c) ==
  /\ lock[c] = EXCLUSIVE /\ op[c] = Idle /\ plan[c] # committed[on[c]]
  /\ plan' = [plan EXCEPT ![c] = committed[on[c]]]
  /\ LET now == Content(on[c])
         was == committed[on[c]]
     IN  todo' = [todo EXCEPT ![c] =
           {i \in 0 .. was.size - 1 :
              now.data[i] # was.data[i] \/ (i = was.size - 1 /\ now.size < was.size)}]
  /\ UNCHANGED <<on, nRef, lockVars, pageVars, op, commits, committed, view>>

(***************************************************************************)
(* ovPageForWrite, and the write                                           *)
(***************************************************************************)
Page(c) == apPage[on[c]][op[c].chunk]

(* Mutant of Shared: one other overlay may keep reading it. *)
SharedByMore(p) == count[p] > 2
Shared(p) == count[p] > 1

(* Whether to copy the page is decided with gMutex, which is left then. *)
WriteStart(c, i) ==
  /\ op[c] = Idle /\ i \in todo[c]
  /\ LET p == apPage[on[c]][i]
     IN  op' = [op EXCEPT ![c] =
           [pc |-> IF p = None \/ Shared(p) THEN "copy" ELSE "write",
            chunk |-> i, new |-> p]]
  /\ UNCHANGED <<on, nRef, lockVars, pageVars, pagerVars, committed, view>>

(* A page is allocated, and holds what the other held, or zeros. *)
Copy(c) ==
  /\ op[c].pc = "copy" /\ \E p \in PageId : count[p] = 0
  /\ LET p == CHOOSE p \in PageId : count[p] = 0
     IN  /\ count' = [count EXCEPT ![p] = 1]
         /\ bytes' = [bytes EXCEPT ![p] = IF Page(c) = None THEN 0 ELSE bytes[Page(c)]]
         /\ op' = [op EXCEPT ![c].new = p,
                     ![c].pc = IF Page(c) = None THEN "install" ELSE "drop"]
  /\ UNCHANGED <<on, nRef, lockVars, szFile, apPage, pagerVars, committed, view>>

(* Mutant of Drop: only a page that others still use is let go of. *)
DropShared(c) ==
  /\ op[c].pc = "drop"
  /\ count' = [count EXCEPT ![Page(c)] = IF @ > 1 THEN @ - 1 ELSE @]
  /\ op' = [op EXCEPT ![c].pc = "install"]
  /\ UNCHANGED <<on, nRef, lockVars, szFile, apPage, bytes, pagerVars, committed, view>>

(* With gMutex again: others may have let go of the old page meanwhile. *)
Drop(c) ==
  /\ op[c].pc = "drop"
  /\ count' = [count EXCEPT ![Page(c)] = @ - 1]
  /\ op' = [op EXCEPT ![c].pc = "install"]
  /\ UNCHANGED <<on, nRef, lockVars, szFile, apPage, bytes, pagerVars, committed, view>>

Install(c) ==
  /\ op[c].pc = "install"
  /\ apPage' = [apPage EXCEPT ![on[c]][op[c].chunk] = op[c].new]
  /\ op' = [op EXCEPT ![c].pc = "write"]
  /\ UNCHANGED <<on, nRef, lockVars, szFile, count, bytes, pagerVars, committed, view>>

(* The page that was found, or installed, is written. *)
Write(c) ==
  /\ op[c].pc = "write"
  /\ bytes' = [bytes EXCEPT ![op[c].new] = plan[c].data[op[c].chunk]]
  /\ szFile' = [szFile EXCEPT ![on[c]] = IF op[c].chunk >= @ THEN op[c].chunk + 1 ELSE @]
  /\ todo' = [todo EXCEPT ![c] = @ \ {op[c].chunk}]
  /\ op' = [op EXCEPT ![c] = Idle]
  /\ UNCHANGED <<on, nRef, lockVars, apPage, count, plan, commits, committed, view>>

(* ovTruncate, at the end of a commit or the start of a rollback. *)
Truncate(c) ==
  /\ lock[c] = EXCLUSIVE /\ op[c] = Idle /\ plan[c].size < szFile[on[c]]
  /\ DropPages(on[c], plan[c].size)
  /\ szFile' = [szFile EXCEPT ![on[c]] = plan[c].size]
  /\ UNCHANGED <<on, nRef, lockVars, bytes, op, pagerVars, committed, view>>

Next == \E c \in Conn :
  \/ \E o \in Ov : Open(c, o) \/ \E src \in Ov : Fork(c, o, src)
  \/ Close(c)
  \/ LockShared(c) \/ LockReserved(c) \/ LockPending(c) \/ LockExclusive(c)
  \/ Unlock(c, NONE) \/ Unlock(c, SHARED) \/ Rollback(c)
  \/ \E i \in Chunk : WriteStart(c, i)
  \/ Copy(c) \/ Drop(c) \/ Install(c) \/ Write(c) \/ Truncate(c)

(* Reads end, and a writer that found readers tries again. *)
Fairness == \A c \in Conn : WF_vars(EndRead(c)) /\ WF_vars(LockExclusive(c))

Spec == Init /\ [][Next]_vars /\ Fairness

(***************************************************************************)
(* Properties                                                              *)
(***************************************************************************)
TypeOK ==
  /\ on \in [Conn -> Ov \union {None}] /\ lock \in [Conn -> Lock]
  /\ nRef \in [Ov -> Nat] /\ nShared \in [Ov -> Nat]
  /\ pWriter \in [Ov -> Conn \union {None}] /\ eWriter \in [Ov -> Lock]
  /\ szFile \in [Ov -> Size] /\ apPage \in [Ov -> [Chunk -> PageId \union {None}]]
  /\ count \in [PageId -> Nat] /\ bytes \in [PageId -> Nat]
  /\ op \in [Conn -> [pc : {"idle", "copy", "drop", "install", "write"},
                      chunk : Chunk \union {None}, new : PageId \union {None}]]
  /\ plan \in [Conn -> File] /\ todo \in [Conn -> SUBSET Chunk]
  /\ committed \in [Ov -> File] /\ view \in [Conn -> File]
  /\ commits \in Nat

(* The counts of an overlay are those of its connections: none of them is   *)
(* lost or counted twice on any path of locks, upgrades, closing and       *)
(* giving up (ovLock, ovUnlock, ovClose).                                  *)
LocksAreCounted == \A o \in Ov :
  /\ nRef[o] = Cardinality({c \in Conn : on[c] = o})
  /\ nShared[o] = Cardinality({c \in Conn : on[c] = o /\ lock[c] >= SHARED})
  /\ \A c \in Conn : on[c] = o /\ lock[c] > SHARED =>
       pWriter[o] = c /\ eWriter[o] = lock[c]

(* While a connection holds a lock it reads one state of the file, the last *)
(* commit when it got it: no write of another, and no half of one, shows   *)
(* (ovLock).                                                               *)
ReadersSeeOneCommit == \A c \in Conn :
  lock[c] \in SHARED .. PENDING => Content(on[c]) = view[c]

(* An overlay nobody writes reads its last commit.  Writing one never shows  *)
(* in a fork, in what it was forked from, or in a fork taken at that time, *)
(* also while both write the page they share at once (ovPageForWrite).     *)
ForksAreIsolated == \A o \in Ov :
  eWriter[o] < EXCLUSIVE => Content(o) = committed[o]

(* A page is freed when the last page table lets go of it, not earlier and   *)
(* not later: p->nRef counts them, but for one that a write is replacing,   *)
(* and a copy that is not in a table yet.                                  *)
InTables(p) ==
  {x \in Ov \X Chunk : /\ apPage[x[1]][x[2]] = p
                       /\ ~\E c \in Conn : /\ on[c] = x[1] /\ op[c].chunk = x[2]
                                           /\ op[c].pc = "install"}
InHand(p) == {c \in Conn : op[c].pc \in {"drop", "install"} /\ op[c].new = p}
PagesAreCounted == \A p \in PageId :
  count[p] = Cardinality(InTables(p)) + Cardinality(InHand(p))

(* "PENDING keeps new readers out while existing ones finish": a writer that *)
(* waits for readers gets its lock, or gives up (ovLock).                  *)
WritersGetIn == \A c \in Conn : lock[c] = PENDING ~> lock[c] # PENDING

=============================================================================
