------------------------------ MODULE Notices -------------------------------
(***************************************************************************)
(* How a change of the contact table is made and announced: Mutate         *)
(* (internal/ayllu), the notice pipeline (internal/notice) with its        *)
(* pending_notices in state.json, the two callers on the guardian pages    *)
(* (internal/web, internal/filing's releases), the command line            *)
(* (cmd/wasi/contacts.go) and the recovery at the start of serve.          *)
(*                                                                         *)
(* A change is its number, which stands for the event and for the notice   *)
(* id derived from it; what it does to the table is in Contacts.  The      *)
(* goroutines announcing different changes interleave, the process may die *)
(* between any two steps, and a write, an APPEND or a MOVE may fail with   *)
(* or without effect.                                                      *)
(***************************************************************************)
EXTENDS Naturals, Sequences, FiniteSets, Sieve

CONSTANTS
  MaxChanges,    \* bound: changes guardians and the operator make
  MaxFaults,     \* bound: failing writes, APPENDs, MOVEs, LISTs and lost replies
  MaxCrashes,    \* bound: times the process dies
  Ages,          \* may 90 days pass (noticeReconcileWindow)
  LostReplies    \* may the reply to an APPEND be lost with the connection

ASSUME NoticesAssumptions ==
  /\ MaxChanges \in Nat /\ MaxFaults \in Nat /\ MaxCrashes \in Nat
  /\ Ages \in BOOLEAN /\ LostReplies \in BOOLEAN

VARIABLES
  table,     \* changes in the contact table in memory
  saved,     \* changes in ayllu.toml
  log,       \* changes whose line in ayllu-log.jsonl can be read
  torn,      \* the log ends in the middle of a line
  old,       \* changes made longer ago than the window
  pending,   \* pending_notices as published by the state store
  disk,      \* pending_notices in state.json
  inbox,     \* notice letters in INBOX, per change
  mode,      \* the server: "down", "flush", "reconcile" or "serve"
  stage,     \* where the goroutine making a change is
  todo,      \* notices the startup pass has not dealt with
  sent,      \* what alreadyAppended found
  at,        \* startup: step of the first of todo
  \* history, read by the properties and the bounds only
  clean,     \* no error since the server was started
  excused,   \* changes pending twice, or whose APPEND lost its reply
  faults, crashes

tableVars == <<table, saved, log, torn, old>>
startVars == <<mode, todo, sent, at, clean>>
boundVars == <<faults, crashes>>
vars == <<tableVars, pending, disk, inbox, stage, startVars, excused, boundVars>>

Changes == 1..MaxChanges
Stages == {"none", "log", "move", "pend", "append", "remove", "done"}

TypeOK ==
  /\ table \subseteq Changes /\ saved \subseteq Changes /\ log \subseteq Changes
  /\ old \subseteq Changes /\ sent \subseteq Changes /\ excused \subseteq Changes
  /\ torn \in BOOLEAN /\ clean \in BOOLEAN
  /\ pending \in Seq(Changes) /\ disk \in Seq(Changes) /\ todo \in Seq(Changes)
  /\ inbox \in [Changes -> Nat]
  /\ mode \in {"down", "flush", "reconcile", "serve"}
  /\ stage \in [Changes -> Stages]
  /\ at \in {"look", "append", "remove"}
  /\ faults \in 0..MaxFaults /\ crashes \in 0..MaxCrashes

Delivered == {n \in Changes : inbox[n] > 0}

Init ==
  /\ table = {} /\ saved = {} /\ log = {} /\ torn = FALSE /\ old = {}
  /\ pending = <<>> /\ disk = <<>>
  /\ inbox = [n \in Changes |-> 0]
  /\ mode = "down"
  /\ stage = [n \in Changes |-> "none"]
  /\ todo = <<>> /\ sent = {} /\ at = "look"
  /\ clean = TRUE /\ excused = {} /\ faults = 0 /\ crashes = 0

Fault ==
  /\ faults < MaxFaults
  /\ faults' = faults + 1
  /\ UNCHANGED crashes
-----------------------------------------------------------------------------
(* The steps everybody shares. *)

\* One Update of state.json: durable, then published.  A failed one publishes
\* nothing, though the file may be in place.
Update(p) == pending' = p /\ disk' = p
UpdateFails(p) == disk' \in {disk, p} /\ UNCHANGED pending

WithNotice(n) == Append(pending, n)
WithoutNotice(n) == Kept(pending, Changes \ {n})

Noted(n) == excused' = IF n \in Elements(pending) THEN excused \cup {n} ELSE excused

\* APPEND to INBOX.  A connection lost before the reply makes withConn send it
\* again.
AppendLetter(n) ==
  \/ /\ inbox' = [inbox EXCEPT ![n] = @ + 1]
     /\ UNCHANGED <<boundVars, excused>>
  \/ /\ LostReplies /\ Fault
     /\ inbox' = [inbox EXCEPT ![n] = @ + 2]
     /\ excused' = excused \cup {n}

AppendFails(n) ==
  /\ Fault
  /\ \/ UNCHANGED <<inbox, excused>>
     \/ /\ inbox' = [inbox EXCEPT ![n] = @ + 1]
        /\ UNCHANGED excused
     \/ /\ LostReplies
        /\ inbox' = [inbox EXCEPT ![n] = @ + 2]
        /\ excused' = excused \cup {n}
-----------------------------------------------------------------------------
(* Mutate, under the store's mutex: ayllu.toml, then the log. *)

Enter(n, s) == stage' = [stage EXCEPT ![n] = s]
Unlocked == \A n \in Changes : stage[n] # "log"
Begins(n) ==
  /\ Unlocked /\ mode \in {"down", "serve"}
  /\ stage[n] = "none" /\ \A k \in 1..(n - 1) : stage[k] # "none"

\* commitLocked.  With the server down it is the command line's.
Commit(n) ==
  /\ Begins(n)
  /\ table' = table \cup {n}
  /\ saved' = table'
  /\ Enter(n, "log")
  /\ UNCHANGED <<log, torn, old, pending, disk, inbox, startVars, excused, boundVars>>

\* (A slip: the log line goes out before the table is written.)
CommitFailsLogged(n) ==
  /\ Begins(n) /\ Fault
  /\ saved' \in {saved, table \cup {n}}
  /\ log' = log \cup {n}
  /\ Enter(n, "done")
  /\ UNCHANGED <<table, torn, old, pending, disk, inbox, startVars, excused>>

\* The write fails and memory is rolled back, whatever the file says.
CommitFails(n) ==
  /\ Begins(n) /\ Fault
  /\ saved' \in {saved, table \cup {n}}
  /\ Enter(n, "done")
  /\ UNCHANGED <<table, log, torn, old, pending, disk, inbox, startVars, excused>>

\* The line n ends up in the log, unless it is glued to a torn one.
Line(n) == log' = (IF torn THEN log ELSE log \cup {n}) /\ torn' = FALSE

\* appendLogLocked.  What follows is the caller's: the contacts page announces,
\* a release moves its letter first, the command line leaves it to the server.
Log(n) ==
  /\ stage[n] = "log"
  /\ Line(n)
  /\ \/ mode = "down" /\ Enter(n, "done")
     \/ mode = "serve" /\ (Enter(n, "pend") \/ Enter(n, "move"))
  /\ UNCHANGED <<table, saved, old, pending, disk, inbox, startVars, excused, boundVars>>

\* The write fails: nothing, part of the line, or all of it but the sync.  The
\* caller sees an error and announces nothing; the change stands.
LogFails(n) ==
  /\ stage[n] = "log" /\ Fault
  /\ \/ UNCHANGED <<log, torn>>
     \/ torn' = TRUE /\ UNCHANGED log
     \/ Line(n)
  /\ Enter(n, "done")
  /\ UNCHANGED <<table, saved, old, pending, disk, inbox, startVars, excused>>

\* A release's MOVE and arrival pass; when they fail the page says so and the
\* event is dropped.
ReleaseMove(n) ==
  /\ stage[n] = "move"
  /\ \/ Enter(n, "pend") /\ UNCHANGED boundVars
     \/ Enter(n, "done") /\ Fault
  /\ UNCHANGED <<tableVars, pending, disk, inbox, startVars, excused>>
-----------------------------------------------------------------------------
(* Announce. *)

AnnouncePend(n) ==
  /\ stage[n] = "pend"
  /\ \/ Update(WithNotice(n)) /\ Enter(n, "append") /\ UNCHANGED boundVars
     \/ UpdateFails(WithNotice(n)) /\ Enter(n, "done") /\ Fault
  /\ UNCHANGED <<tableVars, inbox, startVars, excused>>

AnnounceAppend(n) ==
  /\ stage[n] = "append"
  /\ \/ AppendLetter(n) /\ Enter(n, "remove")
     \/ AppendFails(n) /\ Enter(n, "done")
  /\ UNCHANGED <<tableVars, pending, disk, startVars>>

\* The guardian copy that follows is best effort and leaves no trace.
AnnounceRemove(n) ==
  /\ stage[n] = "remove"
  /\ \/ Update(WithoutNotice(n)) /\ UNCHANGED boundVars
     \/ UpdateFails(WithoutNotice(n)) /\ Fault
  /\ Enter(n, "done")
  /\ UNCHANGED <<tableVars, inbox, startVars, excused>>

\* Any other Update of state.json writes what is published.
OtherUpdate ==
  /\ mode = "serve" /\ disk # pending
  /\ disk' = pending
  /\ UNCHANGED <<tableVars, pending, inbox, stage, startVars, excused, boundVars>>
-----------------------------------------------------------------------------
(* Startup: Flush, then Reconcile, before anything can announce. *)

started == <<tableVars, stage>>

\* The pass goes over s with INBOX as it is now; a LIST that fails ends it.
Pass(m, s, ok) ==
  /\ mode' = m /\ at' = "look"
  /\ \/ todo' = s /\ sent' = Delivered /\ clean' = ok /\ UNCHANGED boundVars
     \/ s # <<>> /\ todo' = <<>> /\ sent' = {} /\ clean' = FALSE /\ Fault

Start ==
  /\ mode = "down" /\ Unlocked
  /\ Pass("flush", pending, TRUE)
  /\ UNCHANGED <<started, pending, disk, inbox, excused>>

NextItem == todo' = Tail(todo) /\ at' = "look"
Working == mode \in {"flush", "reconcile"} /\ todo # <<>>

\* (A slip: INBOX is not asked whether the letter went out before the crash.)
LookBlind ==
  /\ Working /\ at = "look"
  /\ at' = "append"
  /\ UNCHANGED <<started, mode, todo, sent, clean, pending, disk, inbox, excused,
                 boundVars>>

\* Flush clears an entry whose letter is there; Reconcile passes over it, and
\* records the others as pending before it appends.
Look ==
  /\ Working /\ at = "look"
  /\ IF Head(todo) \in sent
     THEN /\ IF mode = "flush" THEN at' = "remove" /\ UNCHANGED todo ELSE NextItem
          /\ UNCHANGED <<clean, pending, disk, excused, boundVars>>
     ELSE \/ /\ mode = "flush"
             /\ at' = "append"
             /\ UNCHANGED <<todo, clean, pending, disk, excused, boundVars>>
          \/ /\ mode = "reconcile"
             /\ Update(WithNotice(Head(todo))) /\ Noted(Head(todo))
             /\ at' = "append"
             /\ UNCHANGED <<todo, clean, boundVars>>
          \/ /\ mode = "reconcile"
             /\ UpdateFails(WithNotice(Head(todo))) /\ Noted(Head(todo)) /\ Fault
             /\ NextItem /\ clean' = FALSE
  /\ UNCHANGED <<started, mode, sent, inbox>>

StartAppend ==
  /\ Working /\ at = "append"
  /\ \/ AppendLetter(Head(todo)) /\ at' = "remove" /\ UNCHANGED <<todo, clean>>
     \/ AppendFails(Head(todo)) /\ NextItem /\ clean' = FALSE
  /\ UNCHANGED <<started, mode, sent, pending, disk>>

StartRemove ==
  /\ Working /\ at = "remove"
  /\ \/ Update(WithoutNotice(Head(todo))) /\ UNCHANGED <<clean, boundVars>>
     \/ UpdateFails(WithoutNotice(Head(todo))) /\ clean' = FALSE /\ Fault
  /\ NextItem
  /\ UNCHANGED <<started, mode, sent, inbox, excused>>

\* (A slip: the window is read from the wrong end.)
DueOld == Kept([n \in Changes |-> n], log \cap old)

\* ReadLog: the readable lines of the window, oldest first.
Due == Kept([n \in Changes |-> n], log \ old)

FlushEnd ==
  /\ mode = "flush" /\ todo = <<>>
  /\ Pass("reconcile", Due, clean)
  /\ UNCHANGED <<started, pending, disk, inbox, excused>>

\* The listeners come up whatever the two passes reported.
ReconcileEnd ==
  /\ mode = "reconcile" /\ todo = <<>>
  /\ mode' = "serve"
  /\ UNCHANGED <<started, todo, sent, at, clean, pending, disk, inbox, excused,
                 boundVars>>
-----------------------------------------------------------------------------
(* The process dies, or 90 days pass. *)

\* Of a log line being written, part may stay.
Crash ==
  /\ mode # "down" \/ ~Unlocked
  /\ crashes < MaxCrashes
  /\ crashes' = crashes + 1
  /\ mode' = "down"
  /\ stage' = [n \in Changes |-> IF stage[n] = "none" THEN "none" ELSE "done"]
  /\ table' = saved
  /\ torn' \in IF Unlocked THEN {torn} ELSE {torn, TRUE}
  /\ pending' = disk
  /\ todo' = <<>> /\ sent' = {} /\ at' = "look"
  /\ UNCHANGED <<saved, log, old, disk, inbox, clean, excused, faults>>

Age ==
  /\ Ages
  /\ \A n \in Changes : stage[n] \in {"none", "done"}
  /\ mode \in {"down", "serve"}
  /\ old' = {n \in Changes : stage[n] = "done"}
  /\ UNCHANGED <<table, saved, log, torn, pending, disk, inbox, stage, startVars,
                 excused, boundVars>>

Next ==
  \/ \E n \in Changes :
       \/ Commit(n) \/ CommitFails(n) \/ Log(n) \/ LogFails(n) \/ ReleaseMove(n)
       \/ AnnouncePend(n) \/ AnnounceAppend(n) \/ AnnounceRemove(n)
  \/ OtherUpdate
  \/ Start \/ Look \/ StartAppend \/ StartRemove \/ FlushEnd \/ ReconcileEnd
  \/ Crash \/ Age

Spec == Init /\ [][Next]_vars
-----------------------------------------------------------------------------
(* What must hold. *)

\* Nothing is ever announced, or owed as an announcement, that did not happen:
\* a notice, its pending entry and its log line are of a change in ayllu.toml,
\* even when a write failed and the table in memory was rolled back.
TrueNotice == Delivered \cup Elements(pending) \cup Elements(disk) \cup log \subseteq saved

\* A second letter about one change takes a pending entry recorded twice or a
\* lost reply: no crash, at whatever step and however often, makes one by itself.
SecondLetterExcused == \A n \in Changes : inbox[n] > 1 => n \in excused

\* A startup without an error settles everything: no notice is left pending and
\* every change of the window whose line can be read has its letter, whichever
\* step the last process died in and whoever failed to announce it.
NothingOwed ==
  [][mode = "reconcile" /\ mode' = "serve" /\ clean =>
       /\ pending' = <<>>
       /\ log \ old \subseteq Delivered]_vars

\* A change in force has its letter, or is being announced, or is recorded where
\* the next startup looks: nothing about the list changes silently.
NoSilentChange ==
  \A n \in table :
    \/ n \in Delivered \cup Elements(disk) \cup (log \ old)
    \/ stage[n] \notin {"none", "done"}

\* One change, one letter.
NoticeOnce == \A n \in Changes : inbox[n] <= 1
=============================================================================
