------------------------------ MODULE Connection ------------------------------
(***************************************************************************)
(* A Database (src/src/Database.ts) and its Statements                     *)
(* (src/src/Statement.ts): two sets of objects with lifetimes of their own, *)
(* those of JavaScript, which refer by pointer to those of SQLite.         *)
(*                                                                         *)
(* SQLite's side is what the code relies on: a statement that has returned  *)
(* a row keeps its transaction open until it ends; outside BEGIN the last   *)
(* one that writes commits; one that starts over is prepared again.        *)
(* Each commit is taken to change the schema too.                          *)
(***************************************************************************)
EXTENDS Integers

CONSTANTS Stmt,        \* Statement objects
          Ptr,         \* addresses of SQLite's statements
          MaxCommits   \* bound: commits of a behaviour

ASSUME PtrAssumption == 0 \notin Ptr

VARIABLES
  conn,       \* "open", "closed", "zombie": closed, but SQLite keeps it
  vdbe,       \* SQLite's statements, by address
  bound,      \* those with a parameter in memory of a Statement
  statements, \* Database.statements: addresses
  stmt,       \* Statement.stmt: its address, 0 when closed
  mem,        \* Statement.allocatedmem has blocks
  names,      \* Statement.columnNames: the schema they are of, or Unknown
  begun,      \* after BEGIN
  wrote,      \* the transaction has written
  commits,
  slot,       \* Database.functions: the slot of a function, 0 for none
  calls,      \* the slot SQLite calls for it
  leaked,     \* history: binding the parameters of a new statement failed
  failed      \* history: its step failed and it started over, without reset()

statementVars == <<vdbe, bound, statements, stmt, mem, names, leaked, failed>>
functionVars == <<slot, calls>>
connVars == <<conn, statementVars, begun, wrote, commits, functionVars>>

Schema == 0 .. MaxCommits
Unknown == -1
Kind == {"read", "write"}
Running == {"row", "aborted"}            \* have a row; "aborted": rolled back meanwhile
NoVdbe == [run |-> "free", kind |-> "read", code |-> 0]
Prepared(kind) == [run |-> "ready", kind |-> kind, code |-> commits]

ConnInit ==
  /\ conn = "open" /\ vdbe = [p \in Ptr |-> NoVdbe] /\ bound = {} /\ statements = {}
  /\ stmt = [s \in Stmt |-> 0] /\ mem = {} /\ names = [s \in Stmt |-> Unknown]
  /\ begun = FALSE /\ wrote = FALSE /\ commits = 0
  /\ slot = 0 /\ calls = 0
  /\ leaked = FALSE /\ failed = {}

(***************************************************************************)
(* Transactions                                                            *)
(***************************************************************************)
Writing == {p \in Ptr : vdbe[p].run = "row" /\ vdbe[p].kind = "write"}

(* sqlite3_txn_state = SQLITE_TXN_WRITE *)
InWrite == wrote \/ Writing # {}

(* Database.inTransaction *)
InTransaction == conn = "open" /\ begun

(* The statements in `ps' end, without an error: outside BEGIN, the last    *)
(* that writes commits.                                                    *)
Ends(ps) ==
  commits' = IF ~begun /\ Writing # {} /\ Writing \subseteq ps THEN commits + 1 ELSE commits

Begin ==
  /\ conn = "open" /\ ~begun /\ begun' = TRUE /\ wrote' = (Writing # {})
  /\ UNCHANGED <<conn, statementVars, commits, functionVars>>

EndTransaction ==             \* COMMIT, which fails while a statement writes
  /\ conn = "open" /\ begun /\ Writing = {} /\ begun' = FALSE /\ wrote' = FALSE
  /\ commits' = IF wrote THEN commits + 1 ELSE commits
  /\ UNCHANGED <<conn, statementVars, functionVars>>

Rollback ==
  /\ conn = "open" /\ begun /\ begun' = FALSE /\ wrote' = FALSE
  /\ vdbe' = [p \in Ptr |-> [vdbe[p] EXCEPT !.run = IF p \in Writing THEN "aborted" ELSE @]]
  /\ UNCHANGED <<conn, bound, statements, stmt, mem, names, leaked, failed, commits,
                 functionVars>>

Run ==                        \* Database.run of an INSERT
  /\ conn = "open" /\ commits < MaxCommits
  /\ wrote' = (wrote \/ begun)
  /\ commits' = IF ~begun /\ Writing = {} THEN commits + 1 ELSE commits
  /\ UNCHANGED <<conn, statementVars, begun, functionVars>>

(***************************************************************************)
(* Statements                                                              *)
(***************************************************************************)
Free == {p \in Ptr : vdbe[p].run = "free"}

(* Mutant of Prepare: one with parameters is not put into statements. *)
PrepareUnlisted(s, p, kind) == \E params \in BOOLEAN :
  /\ conn = "open" /\ stmt[s] = 0 /\ p \in Free
  /\ vdbe' = [vdbe EXCEPT ![p] = Prepared(kind)]
  /\ stmt' = [stmt EXCEPT ![s] = p]
  /\ statements' = IF params THEN statements ELSE statements \union {p}
  /\ bound' = IF params THEN bound \union {p} ELSE bound
  /\ mem' = IF params THEN mem \union {s} ELSE mem
  /\ names' = [names EXCEPT ![s] = Unknown] /\ failed' = failed \ {s}
  /\ UNCHANGED <<conn, leaked, begun, wrote, commits, functionVars>>

Prepare(s, p, kind) == \E params \in BOOLEAN :
  /\ conn = "open" /\ stmt[s] = 0 /\ p \in Free
  /\ vdbe' = [vdbe EXCEPT ![p] = Prepared(kind)]
  /\ stmt' = [stmt EXCEPT ![s] = p] /\ statements' = statements \union {p}
  /\ bound' = IF params THEN bound \union {p} ELSE bound
  /\ mem' = IF params THEN mem \union {s} ELSE mem
  /\ names' = [names EXCEPT ![s] = Unknown] /\ failed' = failed \ {s}
  /\ UNCHANGED <<conn, leaked, begun, wrote, commits, functionVars>>

(* prepare() and exec() throw if a parameter does not bind: nobody has the  *)
(* Statement then, nor what it allocated.                                  *)
PrepareFails(p, kind) ==
  /\ conn = "open" /\ p \in Free /\ leaked' = TRUE
  /\ vdbe' = [vdbe EXCEPT ![p] = Prepared(kind)]
  /\ UNCHANGED <<conn, bound, statements, stmt, mem, names, failed, begun, wrote,
                 commits, functionVars>>

(* Mutant of Reset: sqlite3_clear_bindings is not called. *)
ResetKeepsBindings(s) ==
  LET p == stmt[s] IN
  /\ p # 0 /\ Ends({p})
  /\ vdbe' = [vdbe EXCEPT ![p].run = "ready"]
  /\ names' = [names EXCEPT ![s] = Unknown] /\ failed' = failed \ {s}
  /\ mem' = mem \ {s} /\ UNCHANGED bound
  /\ UNCHANGED <<conn, statements, stmt, leaked, begun, wrote, functionVars>>

Reset(s) ==                   \* Statement.reset
  LET p == stmt[s] IN
  /\ p # 0 /\ Ends({p})
  /\ vdbe' = [vdbe EXCEPT ![p].run = "ready"]
  /\ names' = [names EXCEPT ![s] = Unknown] /\ failed' = failed \ {s}
  /\ mem' = mem \ {s} /\ bound' = bound \ {p}
  /\ UNCHANGED <<conn, statements, stmt, leaked, begun, wrote, functionVars>>

(* bind() resets first.  One value that does not bind leaves those before   *)
(* it, or none.                                                            *)
Bind(s) ==
  LET p == stmt[s] IN
  /\ p # 0 /\ Ends({p})
  /\ vdbe' = [vdbe EXCEPT ![p].run = "ready"]
  /\ names' = [names EXCEPT ![s] = Unknown] /\ failed' = failed \ {s}
  /\ mem' = mem \union {s} /\ bound' = bound \union {p}
  /\ UNCHANGED <<conn, statements, stmt, leaked, begun, wrote, functionVars>>

(* A step of a statement that is not at a row starts it: SQLite prepares it *)
(* again if the schema changed.                                            *)
Starts(p) == vdbe[p].run \notin Running
Code(p) == IF Starts(p) THEN commits ELSE vdbe[p].code
Stepped(p, run) == [vdbe EXCEPT ![p].run = run, ![p].code = Code(p)]

(* What starting it does to the transaction. *)
Begins(s, p) ==
  /\ p # 0 /\ (vdbe[p].kind = "write" /\ Starts(p) => commits < MaxCommits)
  /\ wrote' = (wrote \/ (begun /\ vdbe[p].kind = "write" /\ Starts(p)))
  /\ UNCHANGED <<conn, bound, statements, stmt, mem, leaked, begun, functionVars>>

StepRow(s) ==
  LET p == stmt[s] IN
  /\ Begins(s, p) /\ vdbe[p].run # "aborted"
  /\ vdbe' = Stepped(p, "row") /\ UNCHANGED <<names, failed, commits>>

(* Mutant of StepDone: the names are kept. *)
StepDoneKeepsNames(s) ==
  LET p == stmt[s] IN
  /\ Begins(s, p) /\ vdbe[p].run # "aborted" /\ vdbe' = Stepped(p, "halted")
  /\ commits' = IF ~begun /\ vdbe[p].kind = "write" /\ Writing \subseteq {p}
                THEN commits + 1 ELSE commits
  /\ failed' = failed \ {s} /\ UNCHANGED names

StepDone(s) ==
  LET p == stmt[s] IN
  /\ Begins(s, p) /\ vdbe[p].run # "aborted" /\ vdbe' = Stepped(p, "halted")
  /\ commits' = IF ~begun /\ vdbe[p].kind = "write" /\ Writing \subseteq {p}
                THEN commits + 1 ELSE commits
  /\ names' = [names EXCEPT ![s] = Unknown] /\ failed' = failed \ {s}

(* step() throws: outside BEGIN, what the statement wrote is rolled back. *)
StepFails(s) ==
  LET p == stmt[s] IN
  /\ Begins(s, p) /\ vdbe' = Stepped(p, "halted")
  /\ failed' = failed \union {s} /\ UNCHANGED <<names, commits>>

GetAsObject(s) ==             \* caches the names: Statement.cachedColumnNames
  LET p == stmt[s] IN
  /\ p # 0 /\ vdbe[p].run \in Running /\ names[s] = Unknown
  /\ names' = [names EXCEPT ![s] = vdbe[p].code]
  /\ UNCHANGED <<conn, vdbe, bound, statements, stmt, mem, leaked, failed, begun, wrote,
                 commits, functionVars>>

(* What is left when the Statements `ss' are freed: see Statement.free. *)
Freed(ss) ==
  LET ps == {stmt[s] : s \in ss} \ {0} IN
  /\ Ends(ps)
  /\ vdbe' = [p \in Ptr |-> IF p \in ps THEN NoVdbe ELSE vdbe[p]]
  /\ bound' = bound \ ps /\ statements' = statements \ ps
  /\ stmt' = [s \in Stmt |-> IF s \in ss THEN 0 ELSE stmt[s]]
  /\ mem' = mem \ ss /\ failed' = failed \ ss
  /\ names' = [s \in Stmt |-> IF s \in ss THEN Unknown ELSE names[s]]

FreeStatement(s) ==
  /\ Freed({s}) /\ UNCHANGED <<conn, leaked, begun, wrote, functionVars>>

(***************************************************************************)
(* Functions, and closing                                                  *)
(***************************************************************************)
(* The slot of a function, which may replace another: removeFunction gives  *)
(* a slot back to the table, addFunction takes the one that was last.      *)
Taken == IF slot = 0 THEN 1 ELSE slot

(* Mutant of CreateFunction: the new one is added before the old is removed. *)
CreateFunctionFirst ==
  /\ conn = "open" /\ slot' = IF slot = 1 THEN 2 ELSE 1
  /\ calls' \in {calls, slot'}
  /\ UNCHANGED <<conn, statementVars, begun, wrote, commits>>

(* SQLite may refuse: it does while a statement runs, if the name is known. *)
CreateFunction ==
  /\ conn = "open" /\ slot' = Taken /\ calls' \in {calls, slot'}
  /\ UNCHANGED <<conn, statementVars, begun, wrote, commits>>

(* Frees what is listed in statements; sqlite3_close_v2 waits for others. *)
CloseDatabase ==
  /\ conn = "open"
  /\ Freed({s \in Stmt : stmt[s] \in statements})
  /\ conn' = IF \A p \in Ptr : vdbe'[p].run = "free" THEN "closed" ELSE "zombie"
  /\ begun' = FALSE /\ wrote' = FALSE /\ slot' = 0 /\ calls' = 0
  /\ UNCHANGED leaked

ConnNext ==
  \/ Begin \/ EndTransaction \/ Rollback \/ Run \/ CreateFunction \/ CloseDatabase
  \/ \E p \in Ptr, kind \in Kind : PrepareFails(p, kind) \/ \E s \in Stmt : Prepare(s, p, kind)
  \/ \E s \in Stmt : Reset(s) \/ Bind(s) \/ StepRow(s) \/ StepDone(s) \/ StepFails(s)
                     \/ GetAsObject(s) \/ FreeStatement(s)

ConnSpec == ConnInit /\ [][ConnNext]_connVars

(***************************************************************************)
(* Properties                                                              *)
(***************************************************************************)
(* Nothing refers to what is gone, in any order of prepare, bind, reset,    *)
(* free (twice, too) and close: a Statement is the only one of a live       *)
(* statement of SQLite, which is listed; SQLite reads parameters only from  *)
(* memory that their Statement has not freed yet; and it calls a slot of    *)
(* the table only while the function of this database is in it.            *)
NothingDangles ==
  /\ \A s \in Stmt : stmt[s] # 0 => stmt[s] \in statements
  /\ \A s, t \in Stmt : stmt[s] = stmt[t] /\ stmt[s] # 0 => s = t
  /\ \A p \in statements : vdbe[p].run # "free" /\ \E s \in Stmt : stmt[s] = p
  /\ \A p \in bound : \E s \in mem : stmt[s] = p
  /\ calls \in {0, slot}

(* Statement.ts:275 "They cannot change until the statement is reset": the  *)
(* names of a row are those of the schema it was read with - unless its     *)
(* step failed, and the next one started it over without reset().          *)
RowsHaveTheirNames == \A s \in Stmt :
  stmt[s] # 0 /\ names[s] # Unknown /\ s \notin failed /\ vdbe[stmt[s]].run \in Running =>
    names[s] = vdbe[stmt[s]].code

(* README.md:264 "The file closes once the database and its forks are        *)
(* closed": SQLite keeps nothing of a database that is closed, unless        *)
(* binding the parameters of a new statement failed.                       *)
ClosedIsGone == conn = "zombie" => leaked
=============================================================================
