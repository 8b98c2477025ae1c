------------------------------- MODULE AutoSave -------------------------------
(***************************************************************************)
(* A session that saves by itself (Session.#autoSave of                    *)
(* src/src/snapshots.ts), over the database it watches: SQLite calls        *)
(* committed() in each commit, whatever statement or call ends it; timers   *)
(* run between the calls.  What a save writes is the matter of module       *)
(* Sessions; here it is the number of commits it contains.                 *)
(***************************************************************************)
EXTENDS Connection

Options == {"after", "maxHeld"}
Nothing == -1                            \* no save is under way
Busy == -2                               \* one whose fork failed

VARIABLES
  options,  \* which of them are given
  timer,    \* of `after' is set
  checking, \* and that of `maxHeld'
  saving,   \* the commits in the save under way: `running' unless Nothing
  again, stopped,
  saved,    \* the commits in the newest snapshot
  skipped   \* history: why the last commits are not saved, none if they may be

autoVars == <<options, timer, checking, saving, again, stopped, saved, skipped>>
watchedVars == <<connVars, autoVars>>

AutoInit ==
  /\ ConnInit /\ options \in SUBSET Options \ {{}}
  /\ timer = FALSE /\ checking = FALSE /\ saving = Nothing /\ again = FALSE
  /\ stopped = FALSE /\ saved = 0 /\ skipped = {}

(* Mutant of Committed: a commit while a save runs sets no timer. *)
CommittedIdle ==
  /\ timer' = (timer \/ ("after" \in options /\ ~stopped /\ saving = Nothing))
  /\ checking' = (checking \/ ("maxHeld" \in options /\ ~stopped))
  /\ skipped' = {}
  /\ UNCHANGED <<options, saving, again, stopped, saved>>

(* Called in each commit, until stop() or close() ends the watch. *)
Committed ==
  /\ timer' = (timer \/ ("after" \in options /\ ~stopped))
  /\ checking' = (checking \/ ("maxHeld" \in options /\ ~stopped))
  /\ skipped' = {}
  /\ UNCHANGED <<options, saving, again, stopped, saved>>

(* A step of the database.  After a commit the rest of this module hears it. *)
Database ==
  /\ ConnNext /\ IF commits' > commits THEN Committed ELSE UNCHANGED autoVars

(* Mutant of Active: only the database is looked at. *)
ActiveUnlessClosed == conn = "open"
Active == ~stopped /\ conn = "open"

(***************************************************************************)
(* run(), called while save `sv' is under way, with `again' being `ag' and  *)
(* the reasons `sk' for what is not saved                                  *)
(***************************************************************************)
Stops == ~Active /\ stopped' = TRUE      \* active() calls stop()

WithKey(sk) == sk \union {"key"}         \* key() has none or throws, or meta() does

(* Mutant of Runs: `again' is not set. *)
RunsOnce(sv, ag, sk) ==
  /\ timer' = FALSE
  /\ \/ Stops /\ saving' = sv /\ again' = ag /\ skipped' = sk
     \/ /\ Active /\ UNCHANGED stopped /\ again' = ag
        /\ \/ sv # Nothing /\ saving' = sv /\ skipped' = sk
           \/ /\ sv = Nothing /\ InTransaction
              /\ saving' = Nothing /\ skipped' = sk \union {"transaction"}
           \/ /\ sv = Nothing /\ ~InTransaction
              /\ \/ saving' = Nothing /\ skipped' = WithKey(sk)
                 \/ saving' = (IF InWrite THEN Busy ELSE commits) /\ skipped' = sk

Runs(sv, ag, sk) ==
  /\ timer' = FALSE
  /\ \/ Stops /\ saving' = sv /\ again' = ag /\ skipped' = sk
     \/ /\ Active /\ UNCHANGED stopped /\ again' = (ag \/ sv # Nothing)
        /\ \/ sv # Nothing /\ saving' = sv /\ skipped' = sk
           \/ /\ sv = Nothing /\ InTransaction
              /\ saving' = Nothing /\ skipped' = sk \union {"transaction"}
           \/ /\ sv = Nothing /\ ~InTransaction
              /\ \/ saving' = Nothing /\ skipped' = WithKey(sk)
                 \/ saving' = (IF InWrite THEN Busy ELSE commits) /\ skipped' = sk

TimerFires ==
  /\ timer /\ Runs(saving, again, skipped)
  /\ UNCHANGED <<connVars, options, checking, saved>>

(* The timeout of 0 that a commit sets: a transaction may be open again, or  *)
(* the database may hold less than `maxHeld'.                              *)
CheckFires ==
  /\ checking /\ checking' = FALSE
  /\ \/ Stops /\ timer' = FALSE /\ UNCHANGED <<saving, again, skipped>>
     \/ Active /\ UNCHANGED <<timer, saving, again, stopped, skipped>>
     \/ Active /\ ~InTransaction /\ Runs(saving, again, skipped)
  /\ UNCHANGED <<connVars, options, saved>>

(* A save ends; then run() is called if it was meanwhile.  save() also      *)
(* resolves if the key holds other content, and has stored nothing then:    *)
(* "mismatch", of which the caller is not told.  What became of a save says *)
(* nothing of commits that came later.                                     *)
SaveEnds == \E outcome \in {"saved", "mismatch", "failed"} :
  LET older == saving \in 0 .. commits - 1
      sk == IF outcome = "saved" \/ older THEN skipped ELSE skipped \union {outcome} IN
  /\ saving # Nothing /\ (saving = Busy => outcome = "failed")
  /\ saved' = IF outcome = "saved" THEN saving ELSE saved
  /\ IF again THEN Runs(Nothing, FALSE, sk)
     ELSE saving' = Nothing /\ skipped' = sk /\ UNCHANGED <<timer, again, stopped>>
  /\ UNCHANGED <<connVars, options, checking>>

StopAutoSave ==               \* Session.close, before it saves and closes
  /\ ~stopped /\ stopped' = TRUE /\ timer' = FALSE
  /\ UNCHANGED <<connVars, options, checking, saving, again, saved, skipped>>

AutoNext == Database \/ TimerFires \/ CheckFires \/ SaveEnds \/ StopAutoSave

(* Timers fire, and a save ends. *)
AutoFairness == WF_watchedVars(TimerFires) /\ WF_watchedVars(CheckFires) /\ WF_watchedVars(SaveEnds)

AutoSpec == AutoInit /\ [][AutoNext]_watchedVars /\ AutoFairness

(***************************************************************************)
(* Properties                                                              *)
(***************************************************************************)
(* "Automatic saves stop when the session or its database closes"           *)
(* (README.md:191): no timer that is left, and no run() that a save put     *)
(* off, starts another.                                                    *)
StoppedSavesNothing ==
  [][stopped \/ conn # "open" => saving' \in {saving, Nothing}]_watchedVars

(* With `after' (README.md:181), what is committed is saved at last, also    *)
(* what is committed while a save runs - or a try to save it did not: there *)
(* was no key; the key holds other content, of which nobody is told; it     *)
(* failed, which is reported; or it fell into a transaction, which nothing  *)
(* makes up for if that commits no change.                                 *)
CommitsSettle ==
  "after" \in options /\ saved < commits ~> saved = commits \/ skipped # {} \/ ~Active
=============================================================================
