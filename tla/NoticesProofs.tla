--------------------------- MODULE NoticesProofs ----------------------------
(***************************************************************************)
(* Proofs about Notices: nothing is announced that did not happen, a       *)
(* second letter is always excused, and a clean startup owes nothing.      *)
(***************************************************************************)
EXTENDS Notices, SieveFacts

(* The inductive invariant. *)

Early == {"none", "log", "move", "pend"}
Underway == {n \in Changes : stage[n] \notin {"none", "done"}}

\* Whatever was, is or will be announced is in the table, in memory and in
\* ayllu.toml: a failed commit may take either back to the other.
Truth ==
  Delivered \cup Elements(pending) \cup Elements(disk) \cup Elements(todo) \cup log
    \cup Underway \subseteq table \cap saved

\* Who may be at work in each phase of the server.
Phases ==
  /\ mode \in {"flush", "reconcile"} => \A n \in Changes : stage[n] \in {"none", "done"}
  /\ mode = "down" => \A n \in Changes : stage[n] \in {"none", "log", "done"}
  /\ mode \in {"down", "serve"} => todo = <<>>
  /\ todo = <<>> => at = "look"

\* Before its goroutine appends, a change has no letter; before it is recorded
\* as pending nobody else holds it, and before it is made it is in no log.
Fresh ==
  \A n \in Changes :
    /\ stage[n] \in Early \cup {"append"} => inbox[n] = 0
    /\ stage[n] \in Early => n \notin Elements(pending) \cup Elements(disk) \cup Elements(todo)
    /\ stage[n] = "none" => n \notin log

\* A list names a change twice only if that is excused, and what a startup pass
\* has yet to append has no letter.
Single ==
  /\ Twice(pending) \cup Twice(disk) \cup Twice(todo) \subseteq excused
  /\ \A n \in Elements(todo) \ sent :
        inbox[n] = 0 \/ n \in excused \/ (at = "remove" /\ n = Head(todo))
  /\ at = "append" => Head(todo) \notin sent
  /\ SecondLetterExcused

\* What a startup without an error has settled so far.
Settling ==
  /\ mode \in {"flush", "reconcile"} => sent \subseteq Delivered
  /\ mode = "flush" /\ clean => Elements(pending) \subseteq Elements(todo)
  /\ mode = "reconcile" /\ clean =>
       /\ Elements(pending) \subseteq IF at = "look" THEN {} ELSE {Head(todo)}
       /\ log \ old \subseteq Delivered \cup Elements(todo)
  /\ at = "remove" => Head(todo) \in Delivered

NoticesInv == TypeOK /\ Truth /\ Phases /\ Fresh /\ Single /\ Settling
-----------------------------------------------------------------------------
(* The lists. *)

\* The lists the code builds: pending_notices with and without an entry.
LEMMA ListFacts ==
  ASSUME TypeOK, NEW n \in Changes
  PROVE  /\ WithNotice(n) \in Seq(Changes)
         /\ Elements(WithNotice(n)) = Elements(pending) \cup {n}
         /\ \A x \in Twice(WithNotice(n)) :
              x \in Twice(pending) \/ (x = n /\ n \in Elements(pending))
         /\ WithoutNotice(n) \in Seq(Changes)
         /\ Elements(WithoutNotice(n)) = Elements(pending) \ {n}
         /\ Twice(WithoutNotice(n)) \subseteq Twice(pending)
<1>1. pending \in Seq(Changes)
  BY DEF TypeOK
<1>2. Elements(pending) \subseteq Changes
  BY <1>1 DEF Elements
<1>3. /\ Elements(WithoutNotice(n)) = Elements(pending) \cap (Changes \ {n})
      /\ WithoutNotice(n) \in Seq(Changes)
      /\ Twice(WithoutNotice(n)) \subseteq Twice(pending)
  BY <1>1, KeptFacts DEF WithoutNotice
<1> QED BY <1>1, <1>2, <1>3, AppendElements DEF WithNotice

\* ReadLog's answer: each readable change of the window, once.
LEMMA DueFacts ==
  ASSUME TypeOK
  PROVE  Due \in Seq(Changes) /\ Elements(Due) = log \ old /\ Twice(Due) = {}
<1> DEFINE all == [n \in Changes |-> n]
<1>1. all \in Seq(Changes) /\ Elements(all) = Changes
  BY NoticesAssumptions DEF Changes, Elements
<1>2. Twice(all) = {}
  BY DEF Twice
<1>3. log \ old \subseteq Changes
  BY DEF TypeOK
<1> HIDE DEF all
<1> QED BY <1>1, <1>2, <1>3, KeptFacts DEF Due, all

\* What is left of the startup pass after its first notice.
LEMMA TodoFacts ==
  ASSUME TypeOK, todo # <<>>
  PROVE  /\ Head(todo) \in Elements(todo) /\ Head(todo) \in Changes
         /\ Tail(todo) \in Seq(Changes)
         /\ Elements(todo) = {Head(todo)} \cup Elements(Tail(todo))
         /\ Twice(Tail(todo)) \subseteq Twice(todo)
         /\ Head(todo) \in Elements(Tail(todo)) => Head(todo) \in Twice(todo)
BY TailElements DEF TypeOK

\* The empty list.
LEMMA EmptyFacts ==
  /\ <<>> \in Seq(Changes) /\ Elements(<<>>) = {} /\ Twice(<<>>) = {}
  /\ \A s \in Seq(Changes) : Elements(s) = {} => s = <<>>
  /\ \A s \in Seq(Changes) : Elements(s) \subseteq Changes
<1>1. <<>> \in Seq(Changes) /\ Elements(<<>>) = {} /\ Twice(<<>>) = {}
  BY DEF Elements, Twice
<1>2. ASSUME NEW s \in Seq(Changes), Elements(s) = {} PROVE s = <<>>
  <2>1. ASSUME Len(s) # 0 PROVE FALSE
    <3>1. 1 \in DOMAIN s
      BY <2>1
    <3> QED BY <3>1, <1>2 DEF Elements
  <2> QED BY <2>1
<1>3. ASSUME NEW s \in Seq(Changes) PROVE Elements(s) \subseteq Changes
  BY <1>3 DEF Elements
<1> QED BY <1>1, <1>2, <1>3

\* The bounds of the instance are respected whether or not a step fails.
LEMMA BoundFacts ==
  ASSUME TypeOK, Fault \/ UNCHANGED boundVars
  PROVE  faults' \in 0..MaxFaults /\ crashes' \in 0..MaxCrashes
BY NoticesAssumptions DEF TypeOK, Fault, boundVars

\* A goroutine moves to another step.
LEMMA EnterFacts ==
  ASSUME TypeOK, NEW n \in Changes, NEW s \in Stages, Enter(n, s)
  PROVE  /\ stage' \in [Changes -> Stages] /\ stage'[n] = s
         /\ \A k \in Changes : k # n => stage'[k] = stage[k]
BY DEF TypeOK, Enter

\* An APPEND, answered or not, leaves the other letters alone; it makes a second
\* one out of none only through a lost reply.
LEMMA LetterFacts ==
  ASSUME TypeOK, NEW n \in Changes, AppendLetter(n) \/ AppendFails(n)
  PROVE  /\ inbox' \in [Changes -> Nat] /\ inbox'[n] >= inbox[n]
         /\ \A k \in Changes : k # n => inbox'[k] = inbox[k]
         /\ inbox'[n] <= inbox[n] + 1 \/ n \in excused'
         /\ excused \subseteq excused' /\ excused' \subseteq Changes
         /\ AppendLetter(n) => inbox'[n] > 0
         /\ faults' \in 0..MaxFaults /\ crashes' \in 0..MaxCrashes
<1>1. CASE UNCHANGED <<inbox, excused>> /\ Fault
  BY <1>1, BoundFacts DEF TypeOK, AppendLetter
<1>2. CASE inbox' = [inbox EXCEPT ![n] = @ + 1] /\ UNCHANGED excused /\ (Fault \/ UNCHANGED boundVars)
  BY <1>2, BoundFacts DEF TypeOK
<1>3. CASE inbox' = [inbox EXCEPT ![n] = @ + 2] /\ excused' = excused \cup {n} /\ Fault
  BY <1>3, BoundFacts DEF TypeOK
<1> QED BY <1>1, <1>2, <1>3 DEF AppendLetter, AppendFails

\* The server's lists, table and letters keep their shapes through every step.
LEMMA NextTypeOK == TypeOK /\ [Next]_vars => TypeOK'
<1> SUFFICES ASSUME TypeOK, [Next]_vars PROVE TypeOK'
  OBVIOUS
<1> USE DEF TypeOK
<1>1. ASSUME NEW n \in Changes, Commit(n) PROVE TypeOK'
  BY <1>1, EnterFacts DEF Commit, startVars, boundVars, Stages
<1>2. ASSUME NEW n \in Changes, CommitFails(n) PROVE TypeOK'
  BY <1>2, EnterFacts, BoundFacts DEF CommitFails, startVars, Stages
<1>3. ASSUME NEW n \in Changes, Log(n) PROVE TypeOK'
  BY <1>3, EnterFacts DEF Log, Line, startVars, boundVars, Stages
<1>4. ASSUME NEW n \in Changes, LogFails(n) PROVE TypeOK'
  <2>1. log' \subseteq Changes /\ torn' \in BOOLEAN
    BY <1>4 DEF LogFails, Line
  <2> QED BY <2>1, <1>4, EnterFacts, BoundFacts DEF LogFails, startVars, Stages
<1>5. ASSUME NEW n \in Changes, ReleaseMove(n) PROVE TypeOK'
  <2>1. stage' \in [Changes -> Stages] /\ (Fault \/ UNCHANGED boundVars)
    BY <1>5, EnterFacts DEF ReleaseMove, Stages
  <2> QED BY <2>1, <1>5, BoundFacts DEF ReleaseMove, startVars, tableVars
<1>6. ASSUME NEW n \in Changes, AnnouncePend(n) PROVE TypeOK'
  <2>1. stage' \in [Changes -> Stages] /\ (Fault \/ UNCHANGED boundVars)
    BY <1>6, EnterFacts DEF AnnouncePend, Stages
  <2>2. pending' \in Seq(Changes) /\ disk' \in Seq(Changes)
    BY <1>6, ListFacts DEF AnnouncePend, Update, UpdateFails
  <2> QED BY <2>1, <2>2, <1>6, BoundFacts DEF AnnouncePend, startVars, tableVars
<1>7. ASSUME NEW n \in Changes, AnnounceAppend(n) PROVE TypeOK'
  <2>1. stage' \in [Changes -> Stages]
    BY <1>7, EnterFacts DEF AnnounceAppend, Stages
  <2> QED BY <2>1, <1>7, LetterFacts DEF AnnounceAppend, startVars, tableVars
<1>8. ASSUME NEW n \in Changes, AnnounceRemove(n) PROVE TypeOK'
  <2>1. stage' \in [Changes -> Stages] /\ (Fault \/ UNCHANGED boundVars)
    BY <1>8, EnterFacts DEF AnnounceRemove, Stages
  <2>2. pending' \in Seq(Changes) /\ disk' \in Seq(Changes)
    BY <1>8, ListFacts DEF AnnounceRemove, Update, UpdateFails
  <2> QED BY <2>1, <2>2, <1>8, BoundFacts DEF AnnounceRemove, startVars, tableVars
<1>9. CASE OtherUpdate
  BY <1>9 DEF OtherUpdate, startVars, boundVars, tableVars
<1>10. CASE Start
  <2>1. todo' \in Seq(Changes) /\ sent' \subseteq Changes /\ clean' \in BOOLEAN
    BY <1>10, EmptyFacts DEF Start, Pass, Delivered
  <2>2. Fault \/ UNCHANGED boundVars
    BY <1>10 DEF Start, Pass
  <2> QED BY <2>1, <2>2, <1>10, BoundFacts DEF Start, Pass, started, tableVars
<1>11. CASE Look
  <2>1. todo # <<>> /\ (Fault \/ UNCHANGED boundVars)
    BY <1>11 DEF Look, Working
  <2>2. pending' \in Seq(Changes) /\ disk' \in Seq(Changes)
    BY <2>1, <1>11, ListFacts, TodoFacts DEF Look, Update, UpdateFails
  <2>3. todo' \in Seq(Changes) /\ at' \in {"look", "append", "remove"}
    BY <2>1, <1>11, TodoFacts DEF Look, NextItem
  <2>4. excused' \subseteq Changes /\ clean' \in BOOLEAN
    BY <2>1, <1>11, TodoFacts DEF Look, Noted
  <2> QED BY <2>1, <2>2, <2>3, <2>4, <1>11, BoundFacts DEF Look, started, tableVars
<1>12. CASE StartAppend
  <2>1. todo # <<>>
    BY <1>12 DEF StartAppend, Working
  <2>2. /\ todo' \in Seq(Changes) /\ at' \in {"look", "append", "remove"}
        /\ clean' \in BOOLEAN
    BY <2>1, <1>12, TodoFacts DEF StartAppend, NextItem
  <2>3. AppendLetter(Head(todo)) \/ AppendFails(Head(todo))
    BY <1>12 DEF StartAppend
  <2>4. /\ inbox' \in [Changes -> Nat] /\ excused' \subseteq Changes
        /\ faults' \in 0..MaxFaults /\ crashes' \in 0..MaxCrashes
    BY <2>1, <2>3, TodoFacts, LetterFacts
  <2> QED BY <2>2, <2>4, <1>12 DEF StartAppend, started, tableVars
<1>13. CASE StartRemove
  <2>1. todo # <<>> /\ (Fault \/ UNCHANGED boundVars)
    BY <1>13 DEF StartRemove, Working
  <2>2. pending' \in Seq(Changes) /\ disk' \in Seq(Changes)
    BY <2>1, <1>13, ListFacts, TodoFacts DEF StartRemove, Update, UpdateFails
  <2>3. todo' \in Seq(Changes) /\ at' \in {"look", "append", "remove"}
    BY <2>1, <1>13, TodoFacts DEF StartRemove, NextItem
  <2>4. clean' \in BOOLEAN
    BY <1>13 DEF StartRemove
  <2> QED BY <2>1, <2>2, <2>3, <2>4, <1>13, BoundFacts DEF StartRemove, started, tableVars
<1>14. CASE FlushEnd
  <2>1. todo' \in Seq(Changes) /\ sent' \subseteq Changes /\ clean' \in BOOLEAN
    BY <1>14, EmptyFacts, DueFacts DEF FlushEnd, Pass, Delivered
  <2>2. Fault \/ UNCHANGED boundVars
    BY <1>14 DEF FlushEnd, Pass
  <2> QED BY <2>1, <2>2, <1>14, BoundFacts DEF FlushEnd, Pass, started, tableVars
<1>15. CASE ReconcileEnd
  BY <1>15 DEF ReconcileEnd, started, boundVars, tableVars
<1>16. CASE Crash
  <2>1. stage' \in [Changes -> Stages] /\ torn' \in BOOLEAN
    BY <1>16 DEF Crash, Stages
  <2>2. crashes' \in 0..MaxCrashes
    BY <1>16, NoticesAssumptions DEF Crash
  <2> QED BY <2>1, <2>2, <1>16, EmptyFacts DEF Crash
<1>17. CASE Age
  BY <1>17 DEF Age, startVars, boundVars
<1>18. CASE UNCHANGED vars
  BY <1>18 DEF vars, startVars, boundVars, tableVars
<1> QED BY <1>1, <1>2, <1>3, <1>4, <1>5, <1>6, <1>7, <1>8, <1>9, <1>10, <1>11, <1>12, <1>13,
           <1>14, <1>15, <1>16, <1>17, <1>18 DEF Next

\* What one step of a startup pass makes of the lists.
LEMMA PassLists ==
  ASSUME TypeOK, Look \/ StartAppend \/ StartRemove
  PROVE  /\ todo # <<>> /\ (todo' = todo \/ todo' = Tail(todo))
         /\ Elements(todo') \subseteq Elements(todo) /\ Twice(todo') \subseteq Twice(todo)
         /\ Elements(pending') \subseteq Elements(pending) \cup {Head(todo)}
         /\ Elements(disk') \subseteq Elements(disk) \cup Elements(pending) \cup {Head(todo)}
         /\ ~Look => /\ Elements(pending') \subseteq Elements(pending)
                     /\ Elements(disk') \subseteq Elements(disk) \cup Elements(pending)
<1>1. todo # <<>> /\ (todo' = todo \/ todo' = Tail(todo))
  BY DEF Look, StartAppend, StartRemove, Working, NextItem
<1>2. Elements(todo') \subseteq Elements(todo) /\ Twice(todo') \subseteq Twice(todo)
  BY <1>1, TodoFacts
<1>3. CASE Look
  <2>1. /\ Elements(pending') \subseteq Elements(pending) \cup {Head(todo)}
        /\ Elements(disk') \subseteq Elements(disk) \cup Elements(pending) \cup {Head(todo)}
    BY <1>1, <1>3, TodoFacts, ListFacts DEF Look, Update, UpdateFails
  <2> QED BY <1>1, <1>2, <1>3, <2>1
<1>4. CASE StartRemove
  <2>1. /\ Elements(pending') \subseteq Elements(pending)
        /\ Elements(disk') \subseteq Elements(disk) \cup Elements(pending)
    BY <1>1, <1>4, TodoFacts, ListFacts DEF StartRemove, Update, UpdateFails
  <2> QED BY <1>1, <1>2, <2>1
<1>5. CASE StartAppend
  BY <1>1, <1>2, <1>5 DEF StartAppend
<1> QED BY <1>3, <1>4, <1>5

\* Truth through every step.
LEMMA TruthKept == ASSUME NoticesInv, [Next]_vars PROVE Truth'
<1> USE DEF NoticesInv
<1>0. TypeOK'
  BY NextTypeOK
<1>1. ASSUME NEW n \in Changes, Commit(n) PROVE Truth'
  BY <1>1, EnterFacts DEF Commit, Stages, Truth, Underway, Delivered, startVars
<1>2. ASSUME NEW n \in Changes, CommitFails(n) PROVE Truth'
  BY <1>2, EnterFacts DEF CommitFails, Stages, Truth, Underway, Delivered, startVars
<1>3. ASSUME NEW n \in Changes, Log(n) PROVE Truth'
  BY <1>3, EnterFacts DEF Log, Line, Stages, Truth, Underway, Delivered, startVars
<1>4. ASSUME NEW n \in Changes, LogFails(n) PROVE Truth'
  BY <1>4, EnterFacts DEF LogFails, Line, Stages, Truth, Underway, Delivered, startVars
<1>5. ASSUME NEW n \in Changes, ReleaseMove(n) PROVE Truth'
  BY <1>5, EnterFacts DEF ReleaseMove, Stages, Truth, Underway, Delivered, startVars, tableVars
<1>6. ASSUME NEW n \in Changes, AnnouncePend(n) PROVE Truth'
  <2>1. Underway' \subseteq Underway /\ n \in Underway
    BY <1>6, EnterFacts DEF AnnouncePend, Stages, Underway
  <2>2. /\ Elements(pending') \subseteq Elements(pending) \cup {n}
        /\ Elements(disk') \subseteq Elements(disk) \cup Elements(pending) \cup {n}
    BY <1>6, ListFacts DEF AnnouncePend, Update, UpdateFails
  <2> QED BY <2>1, <2>2, <1>6 DEF AnnouncePend, Truth, Delivered, startVars, tableVars
<1>7. ASSUME NEW n \in Changes, AnnounceAppend(n) PROVE Truth'
  BY <1>7, EnterFacts, LetterFacts DEF AnnounceAppend, Stages, Truth, Underway, Delivered, startVars, tableVars
<1>8. ASSUME NEW n \in Changes, AnnounceRemove(n) PROVE Truth'
  <2>1. Underway' \subseteq Underway
    BY <1>8, EnterFacts DEF AnnounceRemove, Stages, Underway
  <2>2. /\ Elements(pending') \subseteq Elements(pending)
        /\ Elements(disk') \subseteq Elements(disk) \cup Elements(pending)
    BY <1>8, ListFacts DEF AnnounceRemove, Update, UpdateFails
  <2> QED BY <2>1, <2>2, <1>8 DEF AnnounceRemove, Truth, Delivered, startVars, tableVars
<1>9. CASE OtherUpdate
  BY <1>9 DEF OtherUpdate, Truth, Underway, Delivered, startVars, tableVars
<1>10. CASE Start
  BY <1>10, EmptyFacts DEF Start, Pass, started, Truth, Underway, Delivered, tableVars
<1>11. CASE Look
  BY <1>11, PassLists, TodoFacts DEF Look, started, Truth, Underway, Delivered, tableVars
<1>12. CASE StartAppend
  <2>1. todo # <<>> /\ Elements(todo') \subseteq Elements(todo)
    BY <1>12, PassLists
  <2>2. AppendLetter(Head(todo)) \/ AppendFails(Head(todo))
    BY <1>12 DEF StartAppend
  <2>3. Delivered' \subseteq Delivered \cup {Head(todo)}
    BY <2>1, <2>2, TodoFacts, LetterFacts DEF Delivered
  <2> QED BY <2>1, <2>3, <1>12, TodoFacts DEF StartAppend, started, Truth, Underway, tableVars
<1>13. CASE StartRemove
  <2>1. /\ Elements(todo') \subseteq Elements(todo)
        /\ Elements(pending') \subseteq Elements(pending)
        /\ Elements(disk') \subseteq Elements(disk) \cup Elements(pending)
    <3>1. ~Look
      BY <1>13 DEF Look, StartRemove
    <3> QED BY <1>13, <3>1, PassLists
  <2> QED BY <2>1, <1>13 DEF StartRemove, started, Truth, Underway, Delivered, tableVars
<1>14. CASE FlushEnd
  BY <1>14, EmptyFacts, DueFacts DEF FlushEnd, Pass, started, Truth, Underway, Delivered, tableVars
<1>15. CASE ReconcileEnd
  BY <1>15 DEF ReconcileEnd, started, tableVars, Truth, Underway, Delivered
<1>16. CASE Crash
  BY <1>16, EmptyFacts DEF Crash, Truth, Underway, Delivered
<1>17. CASE Age
  BY <1>17 DEF Age, startVars, Truth, Underway, Delivered
<1>18. CASE UNCHANGED vars
  BY <1>18 DEF vars, startVars, boundVars, tableVars, Truth, Underway, Delivered
<1> QED BY <1>1, <1>2, <1>3, <1>4, <1>5, <1>6, <1>7, <1>8, <1>9, <1>10, <1>11, <1>12, <1>13,
           <1>14, <1>15, <1>16, <1>17, <1>18 DEF Next

\* Phases through every step.
LEMMA PhasesKept == ASSUME NoticesInv, [Next]_vars PROVE Phases'
<1> USE DEF NoticesInv
<1>1. ASSUME NEW n \in Changes, Commit(n) PROVE Phases'
  BY <1>1, EnterFacts DEF Commit, Begins, Stages, Phases, startVars
<1>2. ASSUME NEW n \in Changes, CommitFails(n) PROVE Phases'
  BY <1>2, EnterFacts DEF CommitFails, Begins, Stages, Phases, startVars
<1>3. ASSUME NEW n \in Changes, Log(n) PROVE Phases'
  BY <1>3, EnterFacts DEF Log, Stages, Phases, startVars
<1>4. ASSUME NEW n \in Changes, LogFails(n) PROVE Phases'
  BY <1>4, EnterFacts DEF LogFails, Stages, Phases, startVars
<1>5. ASSUME NEW n \in Changes, ReleaseMove(n) PROVE Phases'
  BY <1>5, EnterFacts DEF ReleaseMove, Stages, Phases, startVars
<1>6. ASSUME NEW n \in Changes, AnnouncePend(n) PROVE Phases'
  BY <1>6, EnterFacts DEF AnnouncePend, Stages, Phases, startVars
<1>7. ASSUME NEW n \in Changes, AnnounceAppend(n) PROVE Phases'
  BY <1>7, EnterFacts DEF AnnounceAppend, Stages, Phases, startVars
<1>8. ASSUME NEW n \in Changes, AnnounceRemove(n) PROVE Phases'
  BY <1>8, EnterFacts DEF AnnounceRemove, Stages, Phases, startVars
<1>9. CASE OtherUpdate
  BY <1>9 DEF OtherUpdate, Phases, startVars
<1>10. CASE Start
  BY <1>10 DEF Start, Pass, started, Phases, Unlocked
<1>11. CASE Look
  BY <1>11 DEF Look, Working, NextItem, started, Phases
<1>12. CASE StartAppend
  BY <1>12 DEF StartAppend, Working, NextItem, started, Phases
<1>13. CASE StartRemove
  BY <1>13 DEF StartRemove, Working, NextItem, started, Phases
<1>14. CASE FlushEnd
  BY <1>14 DEF FlushEnd, Pass, started, Phases
<1>15. CASE ReconcileEnd
  BY <1>15 DEF ReconcileEnd, started, Phases
<1>16. CASE Crash
  BY <1>16 DEF Crash, Phases, TypeOK
<1>17. CASE Age
  BY <1>17 DEF Age, startVars, Phases
<1>18. CASE UNCHANGED vars
  BY <1>18 DEF vars, startVars, Phases
<1> QED BY <1>1, <1>2, <1>3, <1>4, <1>5, <1>6, <1>7, <1>8, <1>9, <1>10, <1>11, <1>12, <1>13,
           <1>14, <1>15, <1>16, <1>17, <1>18 DEF Next

\* Fresh through every step.
LEMMA FreshKept == ASSUME NoticesInv, [Next]_vars PROVE Fresh'
<1> USE DEF NoticesInv, Early
<1>1. ASSUME NEW n \in Changes, Commit(n) PROVE Fresh'
  BY <1>1, EnterFacts DEF Commit, Begins, Stages, Fresh, startVars
<1>2. ASSUME NEW n \in Changes, CommitFails(n) PROVE Fresh'
  BY <1>2, EnterFacts DEF CommitFails, Begins, Stages, Fresh, startVars
<1>3. ASSUME NEW n \in Changes, Log(n) PROVE Fresh'
  BY <1>3, EnterFacts DEF Log, Line, Stages, Fresh, startVars
<1>4. ASSUME NEW n \in Changes, LogFails(n) PROVE Fresh'
  BY <1>4, EnterFacts DEF LogFails, Line, Stages, Fresh, startVars
<1>5. ASSUME NEW n \in Changes, ReleaseMove(n) PROVE Fresh'
  BY <1>5, EnterFacts DEF ReleaseMove, Stages, Fresh, startVars, tableVars
<1>6. ASSUME NEW n \in Changes, AnnouncePend(n) PROVE Fresh'
  <2>1. /\ stage'[n] \in {"append", "done"}
        /\ \A k \in Changes : k # n => stage'[k] = stage[k]
    BY <1>6, EnterFacts DEF AnnouncePend, Stages
  <2>2. /\ Elements(pending') \subseteq Elements(pending) \cup {n}
        /\ Elements(disk') \subseteq Elements(disk) \cup Elements(pending) \cup {n}
    BY <1>6, ListFacts DEF AnnouncePend, Update, UpdateFails
  <2> QED BY <2>1, <2>2, <1>6 DEF AnnouncePend, Fresh, startVars, tableVars
<1>7. ASSUME NEW n \in Changes, AnnounceAppend(n) PROVE Fresh'
  <2>1. /\ stage'[n] \in {"remove", "done"}
        /\ \A k \in Changes : k # n => stage'[k] = stage[k]
    BY <1>7, EnterFacts DEF AnnounceAppend, Stages
  <2>2. \A k \in Changes : k # n => inbox'[k] = inbox[k]
    BY <1>7, LetterFacts DEF AnnounceAppend
  <2> QED BY <2>1, <2>2, <1>7 DEF AnnounceAppend, Fresh, startVars, tableVars
<1>8. ASSUME NEW n \in Changes, AnnounceRemove(n) PROVE Fresh'
  <2>1. /\ stage'[n] = "done"
        /\ \A k \in Changes : k # n => stage'[k] = stage[k]
    BY <1>8, EnterFacts DEF AnnounceRemove, Stages
  <2>2. /\ Elements(pending') \subseteq Elements(pending)
        /\ Elements(disk') \subseteq Elements(disk) \cup Elements(pending)
    BY <1>8, ListFacts DEF AnnounceRemove, Update, UpdateFails
  <2> QED BY <2>1, <2>2, <1>8 DEF AnnounceRemove, Fresh, startVars, tableVars
<1>9. CASE OtherUpdate
  BY <1>9 DEF OtherUpdate, Fresh, startVars, tableVars
<1>10. CASE Start
  BY <1>10, EmptyFacts DEF Start, Pass, started, tableVars, Fresh
<1>11. CASE Look
  <2>1. todo # <<>>
    BY <1>11 DEF Look, Working
  <2>2. /\ Elements(pending') \subseteq Elements(pending) \cup {Head(todo)}
        /\ Elements(disk') \subseteq Elements(disk) \cup Elements(pending) \cup {Head(todo)}
        /\ Elements(todo') \subseteq Elements(todo)
    BY <2>1, <1>11, PassLists
  <2> QED BY <2>1, <2>2, <1>11, TodoFacts DEF Look, started, tableVars, Fresh
<1>12. CASE StartAppend
  <2>1. todo # <<>>
    BY <1>12 DEF StartAppend, Working
  <2>2. AppendLetter(Head(todo)) \/ AppendFails(Head(todo))
    BY <1>12 DEF StartAppend
  <2>3. \A k \in Changes : k # Head(todo) => inbox'[k] = inbox[k]
    BY <2>1, <2>2, TodoFacts, LetterFacts
  <2>4. stage[Head(todo)] \in {"none", "done"} /\ stage[Head(todo)] \notin Early
    BY <2>1, <1>12, TodoFacts DEF StartAppend, Working, Phases, Fresh
  <2>5. Elements(todo') \subseteq Elements(todo)
    BY <2>1, <1>12, PassLists
  <2> QED BY <2>1, <2>3, <2>4, <2>5, <1>12, TodoFacts DEF StartAppend, started, tableVars, Fresh
<1>13. CASE StartRemove
  <2>1. ~Look
    BY <1>13 DEF Look, StartRemove
  <2> QED BY <2>1, <1>13, PassLists DEF StartRemove, started, tableVars, Fresh
<1>14. CASE FlushEnd
  BY <1>14, EmptyFacts, DueFacts DEF FlushEnd, Pass, started, tableVars, Fresh, Truth, Phases
<1>15. CASE ReconcileEnd
  BY <1>15 DEF ReconcileEnd, started, tableVars, Fresh
<1>16. CASE Crash
  BY <1>16, EmptyFacts DEF Crash, Fresh
<1>17. CASE Age
  BY <1>17 DEF Age, startVars, Fresh
<1>18. CASE UNCHANGED vars
  BY <1>18 DEF vars, startVars, Fresh, tableVars
<1> QED BY <1>1, <1>2, <1>3, <1>4, <1>5, <1>6, <1>7, <1>8, <1>9, <1>10, <1>11, <1>12, <1>13,
           <1>14, <1>15, <1>16, <1>17, <1>18 DEF Next

\* Single through every step.
LEMMA SingleKept == ASSUME NoticesInv, [Next]_vars PROVE Single'
<1> USE DEF NoticesInv
<1> DEFINE Same == UNCHANGED <<pending, disk, inbox, startVars, excused>>
<1>0. ASSUME Same PROVE Single'
  BY <1>0 DEF Single, SecondLetterExcused, startVars
<1>1. ASSUME NEW n \in Changes, Commit(n) \/ CommitFails(n) \/ Log(n) \/ LogFails(n) \/ ReleaseMove(n)
      PROVE  Single'
  BY <1>0, <1>1 DEF Commit, CommitFails, Log, LogFails, ReleaseMove
<1>6. ASSUME NEW n \in Changes, AnnouncePend(n) PROVE Single'
  <2>1. n \notin Elements(pending)
    BY <1>6 DEF AnnouncePend, Fresh, Early
  <2>2. /\ Twice(pending') \subseteq Twice(pending)
        /\ Twice(disk') \subseteq Twice(disk) \cup Twice(pending)
    BY <2>1, <1>6, ListFacts DEF AnnouncePend, Update, UpdateFails
  <2> QED BY <2>2, <1>6 DEF AnnouncePend, Single, SecondLetterExcused, startVars
<1>7. ASSUME NEW n \in Changes, AnnounceAppend(n) PROVE Single'
  <2>1. /\ \A k \in Changes : k # n => inbox'[k] = inbox[k]
        /\ inbox'[n] <= inbox[n] + 1 \/ n \in excused'
        /\ excused \subseteq excused' /\ inbox'[n] \in Nat
    BY <1>7, LetterFacts DEF AnnounceAppend
  <2>2. inbox[n] = 0
    BY <1>7 DEF AnnounceAppend, Fresh
  <2>3. mode \notin {"flush", "reconcile"}
    BY <1>7 DEF AnnounceAppend, Phases
  <2>4. todo = <<>> /\ at = "look"
    BY <2>3 DEF TypeOK, Phases
  <2>5. SecondLetterExcused'
    BY <2>1, <2>2 DEF Single, SecondLetterExcused
  <2> QED BY <2>1, <2>4, <2>5, <1>7, EmptyFacts DEF AnnounceAppend, Single, startVars
<1>8. ASSUME NEW n \in Changes, AnnounceRemove(n) PROVE Single'
  <2>1. /\ Twice(pending') \subseteq Twice(pending)
        /\ Twice(disk') \subseteq Twice(disk) \cup Twice(pending)
    BY <1>8, ListFacts DEF AnnounceRemove, Update, UpdateFails
  <2> QED BY <2>1, <1>8 DEF AnnounceRemove, Single, SecondLetterExcused, startVars
<1>9. CASE OtherUpdate
  BY <1>9 DEF OtherUpdate, Single, SecondLetterExcused, startVars
<1>10. CASE Start
  <2>1. /\ todo' = pending \/ todo' = <<>>
        /\ todo' # <<>> => sent' = Delivered
        /\ at' = "look"
    BY <1>10 DEF Start, Pass
  <2>2. \A n \in Elements(todo') \ sent' : inbox[n] = 0
    BY <2>1, EmptyFacts DEF TypeOK, Delivered
  <2> QED BY <2>1, <2>2, <1>10, EmptyFacts DEF Start, Single, SecondLetterExcused
<1>11. CASE Look
  <2>1. todo # <<>> /\ Head(todo) \in Changes /\ Head(todo) \in Elements(todo)
    BY <1>11, PassLists, TodoFacts
  <2>2. Twice(todo') \subseteq Twice(todo) /\ Elements(todo') \subseteq Elements(todo)
    BY <1>11, PassLists
  <2>3. excused \subseteq excused'
    BY <1>11 DEF Look, Noted
  <2>4. Twice(pending') \subseteq excused' /\ Twice(disk') \subseteq excused'
    <3>1. CASE UNCHANGED <<pending, disk>>
      BY <3>1, <2>3 DEF Single
    <3>2. CASE /\ Update(WithNotice(Head(todo))) \/ UpdateFails(WithNotice(Head(todo)))
               /\ Noted(Head(todo))
      <4>1. Twice(WithNotice(Head(todo))) \subseteq excused'
        BY <3>2, <2>1, <2>3, ListFacts DEF Noted, Single
      <4> QED BY <4>1, <3>2, <2>3 DEF Update, UpdateFails, Single
    <3> QED BY <3>1, <3>2, <1>11 DEF Look
  <2>5. CASE todo' = todo
    <3>1. at' = "append" => Head(todo) \notin sent
      BY <2>5, <1>11 DEF Look, NextItem
    <3>2. at = "look"
      BY <1>11 DEF Look
    <3> QED BY <2>2, <2>3, <2>4, <2>5, <3>1, <3>2, <1>11
            DEF Look, Single, SecondLetterExcused
  <2>6. CASE todo' = Tail(todo)
    <3>1. at = "look" /\ (at' = "look" \/ todo' = todo)
      BY <1>11 DEF Look, NextItem
    <3> QED BY <2>2, <2>3, <2>4, <2>5, <2>6, <3>1, <1>11
            DEF Look, Single, SecondLetterExcused
  <2> QED BY <2>5, <2>6, <1>11, PassLists
<1>12. CASE StartAppend
  <2>1. todo # <<>> /\ Head(todo) \in Changes /\ Head(todo) \in Elements(todo)
    BY <1>12, PassLists, TodoFacts
  <2> DEFINE h == Head(todo)
  <2>2. AppendLetter(h) \/ AppendFails(h)
    BY <1>12 DEF StartAppend
  <2>3. /\ \A k \in Changes : k # h => inbox'[k] = inbox[k]
        /\ inbox'[h] <= inbox[h] + 1 \/ h \in excused'
        /\ excused \subseteq excused' /\ inbox' \in [Changes -> Nat]
    BY <2>1, <2>2, LetterFacts
  <2>4. inbox[h] = 0 \/ h \in excused
    BY <2>1, <1>12 DEF StartAppend, Single
  <2>5. SecondLetterExcused'
    <3>1. inbox'[h] > 1 => h \in excused'
      <4>1. inbox[h] \in Nat /\ inbox'[h] \in Nat
        BY <2>1, <2>3 DEF TypeOK
      <4> QED BY <4>1, <2>3, <2>4
    <3>2. ASSUME NEW k \in Changes, k # h, inbox'[k] > 1 PROVE k \in excused'
      BY <2>3, <3>2 DEF Single, SecondLetterExcused
    <3> QED BY <3>1, <3>2 DEF SecondLetterExcused
  <2>6. Twice(todo') \subseteq Twice(todo) /\ Elements(todo') \subseteq Elements(todo)
    BY <1>12, PassLists
  <2>7. /\ Twice(pending') \cup Twice(disk') \cup Twice(todo') \subseteq excused'
        /\ at' # "append" /\ sent' = sent
    BY <2>3, <2>6, <1>12 DEF StartAppend, Single, NextItem
  <2>8. CASE todo' = todo /\ at' = "remove"
    <3>1. \A n \in Elements(todo') \ sent' :
             inbox'[n] = 0 \/ n \in excused' \/ (at' = "remove" /\ n = Head(todo'))
      BY <2>3, <2>7, <2>8, <1>12, EmptyFacts DEF Single, StartAppend, TypeOK
    <3> QED BY <2>5, <2>7, <3>1 DEF Single
  <2>9. CASE todo' = Tail(todo)
    <3>1. \A n \in Elements(todo') \ sent' : n = h \/ inbox'[n] = 0 \/ n \in excused'
      BY <2>3, <2>6, <2>7, <1>12, EmptyFacts DEF Single, StartAppend, TypeOK
    <3>2. h \in Elements(todo') => h \in excused'
      BY <2>1, <2>9, <2>3, TodoFacts DEF Single
    <3> QED BY <2>5, <2>7, <3>1, <3>2 DEF Single
  <2> QED BY <2>8, <2>9, <1>12 DEF StartAppend, NextItem
<1>13. CASE StartRemove
  <2>1. /\ todo # <<>> /\ Head(todo) \in Changes /\ todo' = Tail(todo) /\ at' = "look"
        /\ UNCHANGED <<sent, inbox, excused>>
    BY <1>13, PassLists, TodoFacts DEF StartRemove, NextItem
  <2>2. /\ Twice(pending') \subseteq Twice(pending)
        /\ Twice(disk') \subseteq Twice(disk) \cup Twice(pending)
    BY <2>1, <1>13, ListFacts DEF StartRemove, Update, UpdateFails
  <2>3. /\ Twice(todo') \subseteq Twice(todo) /\ Elements(todo') \subseteq Elements(todo)
        /\ Head(todo) \in Elements(todo') => Head(todo) \in excused
    BY <2>1, TodoFacts DEF Single
  <2> QED BY <2>1, <2>2, <2>3 DEF Single, SecondLetterExcused
<1>14. CASE FlushEnd
  <2>1. /\ todo' = Due \/ todo' = <<>>
        /\ todo' # <<>> => sent' = Delivered
        /\ at' = "look"
    BY <1>14 DEF FlushEnd, Pass
  <2>2. \A n \in Elements(todo') \ sent' : inbox[n] = 0
    BY <2>1, EmptyFacts, DueFacts DEF TypeOK, Delivered
  <2>3. Twice(todo') = {}
    BY <2>1, EmptyFacts, DueFacts
  <2> QED BY <2>1, <2>2, <2>3, <1>14 DEF FlushEnd, Single, SecondLetterExcused
<1>15. CASE ReconcileEnd
  BY <1>0, <1>15 DEF ReconcileEnd, Single, SecondLetterExcused
<1>16. CASE Crash
  BY <1>16, EmptyFacts DEF Crash, Single, SecondLetterExcused
<1>17. CASE Age
  BY <1>0, <1>17 DEF Age
<1>18. CASE UNCHANGED vars
  BY <1>0, <1>18 DEF vars
<1> QED BY <1>1, <1>6, <1>7, <1>8, <1>9, <1>10, <1>11, <1>12, <1>13,
           <1>14, <1>15, <1>16, <1>17, <1>18 DEF Next

\* Settling through every step.
LEMMA SettlingKept == ASSUME NoticesInv, [Next]_vars PROVE Settling'
<1> USE DEF NoticesInv
<1>1. ASSUME NEW n \in Changes, Commit(n) PROVE Settling'
  BY <1>1 DEF Commit, Begins, Settling, Delivered, startVars
<1>2. ASSUME NEW n \in Changes, CommitFails(n) PROVE Settling'
  BY <1>2 DEF CommitFails, Begins, Settling, Delivered, startVars
<1>3. ASSUME NEW n \in Changes, Log(n) \/ LogFails(n) PROVE Settling'
  <2>1. mode \notin {"flush", "reconcile"}
    BY <1>3 DEF Log, LogFails, Phases
  <2>2. at = "look"
    BY <2>1 DEF Phases, TypeOK
  <2> QED BY <2>1, <2>2, <1>3 DEF Log, LogFails, Settling, startVars
<1>5. ASSUME NEW n \in Changes,
             ReleaseMove(n) \/ AnnouncePend(n) \/ AnnounceAppend(n) \/ AnnounceRemove(n)
      PROVE Settling'
  <2>1. mode \notin {"flush", "reconcile"}
    BY <1>5 DEF ReleaseMove, AnnouncePend, AnnounceAppend, AnnounceRemove, Phases
  <2>2. at = "look"
    BY <2>1 DEF Phases, TypeOK
  <2> QED BY <2>1, <2>2, <1>5
          DEF ReleaseMove, AnnouncePend, AnnounceAppend, AnnounceRemove, Settling, startVars
<1>9. CASE OtherUpdate
  BY <1>9 DEF OtherUpdate, Settling, Delivered, startVars
<1>10. CASE Start
  BY <1>10, EmptyFacts DEF Start, Pass, Settling, Delivered
<1>11. CASE Look
  <2>1. /\ todo # <<>> /\ Head(todo) \in Changes /\ Working /\ at = "look"
        /\ Elements(todo) = {Head(todo)} \cup Elements(Tail(todo))
        /\ UNCHANGED <<tableVars, mode, sent, inbox>>
    BY <1>11, PassLists, TodoFacts DEF Look, started
  <2>2. CASE Head(todo) \in sent
    <3>1. /\ UNCHANGED <<clean, pending>> /\ Head(todo) \in Delivered
          /\ IF mode = "flush" THEN at' = "remove" /\ UNCHANGED todo ELSE NextItem
      BY <2>1, <2>2, <1>11 DEF Look, Settling, Working
    <3> QED BY <2>1, <3>1 DEF Settling, Delivered, Working, NextItem, tableVars
  <2>3. CASE mode = "flush" /\ at' = "append" /\ UNCHANGED <<todo, clean, pending>>
    BY <2>1, <2>3 DEF Settling, Delivered, tableVars
  <2>4. CASE mode = "reconcile" /\ Update(WithNotice(Head(todo))) /\ at' = "append" /\ UNCHANGED <<todo, clean>>
    <3>1. Elements(pending') = Elements(pending) \cup {Head(todo)}
      BY <2>1, <2>4, ListFacts DEF Update
    <3> QED BY <2>1, <2>4, <3>1 DEF Settling, Delivered, tableVars
  <2>5. CASE NextItem /\ clean' = FALSE
    BY <2>1, <2>5 DEF Settling, Delivered, NextItem, tableVars
  <2> QED BY <2>2, <2>3, <2>4, <2>5, <1>11 DEF Look
<1>12. CASE StartAppend
  <2>1. /\ todo # <<>> /\ Head(todo) \in Changes /\ Working /\ at = "append"
        /\ UNCHANGED <<tableVars, mode, sent, pending>>
    BY <1>12, PassLists, TodoFacts DEF StartAppend, started
  <2>2. AppendLetter(Head(todo)) \/ AppendFails(Head(todo))
    BY <1>12 DEF StartAppend
  <2>3. Delivered \subseteq Delivered' /\ (AppendLetter(Head(todo)) => Head(todo) \in Delivered')
    <3> DEFINE h == Head(todo)
    <3>1. /\ inbox[h] \in Nat /\ inbox'[h] \in Nat /\ inbox'[h] >= inbox[h]
          /\ \A k \in Changes : k # h => inbox'[k] = inbox[k]
          /\ AppendLetter(h) => inbox'[h] > 0
      BY <2>1, <2>2, LetterFacts DEF TypeOK
    <3> HIDE DEF h
    <3>2. \A k \in Changes : inbox[k] > 0 => inbox'[k] > 0
      BY <3>1
    <3> QED BY <2>1, <3>1, <3>2 DEF Delivered, h
  <2>4. CASE AppendLetter(Head(todo)) /\ at' = "remove" /\ UNCHANGED <<todo, clean>>
    BY <2>1, <2>3, <2>4 DEF Settling, tableVars
  <2>5. CASE NextItem /\ clean' = FALSE
    BY <2>1, <2>3, <2>5 DEF Settling, NextItem, tableVars
  <2> QED BY <2>4, <2>5, <1>12 DEF StartAppend
<1>13. CASE StartRemove
  <2>1. /\ todo # <<>> /\ Head(todo) \in Changes /\ Working /\ at = "remove"
        /\ Elements(todo) = {Head(todo)} \cup Elements(Tail(todo))
        /\ todo' = Tail(todo) /\ at' = "look"
        /\ UNCHANGED <<tableVars, mode, sent, inbox>>
    BY <1>13, PassLists, TodoFacts DEF StartRemove, NextItem, started
  <2>2. CASE Update(WithoutNotice(Head(todo))) /\ UNCHANGED clean
    <3>1. Elements(pending') = Elements(pending) \ {Head(todo)}
      BY <2>1, <2>2, ListFacts DEF Update
    <3> QED BY <2>1, <2>2, <3>1 DEF Settling, Delivered, tableVars
  <2>3. CASE clean' = FALSE
    BY <2>1, <2>3 DEF Settling, Delivered, tableVars
  <2> QED BY <2>2, <2>3, <1>13 DEF StartRemove
<1>14. CASE FlushEnd
  <2>1. clean => Elements(pending) = {}
    BY <1>14, EmptyFacts DEF FlushEnd, Settling
  <2>2. /\ mode' = "reconcile" /\ at' = "look"
        /\ \/ todo' = Due /\ sent' = Delivered /\ clean' = clean
           \/ sent' = {} /\ clean' = FALSE
        /\ UNCHANGED <<log, old, pending, inbox>>
    BY <1>14 DEF FlushEnd, Pass, started, tableVars
  <2> QED BY <2>1, <2>2, DueFacts DEF Settling, Delivered
<1>15. CASE ReconcileEnd
  BY <1>15 DEF ReconcileEnd, Settling, Delivered
<1>16. CASE Crash
  BY <1>16 DEF Crash, Settling
<1>17. CASE Age
  BY <1>17 DEF Age, startVars, Settling, Delivered
<1>18. CASE UNCHANGED vars
  BY <1>18 DEF vars, startVars, tableVars, Settling, Delivered
<1> QED BY <1>1, <1>2, <1>3, <1>5, <1>9, <1>10, <1>11, <1>12, <1>13,
           <1>14, <1>15, <1>16, <1>17, <1>18 DEF Next
-----------------------------------------------------------------------------
(* The theorems. *)

\* A server that never ran owes nothing.
LEMMA InitInv == Init => NoticesInv
<1> SUFFICES ASSUME Init PROVE NoticesInv
  OBVIOUS
<1> USE EmptyFacts DEF Init
<1>1. TypeOK
  <2>1. faults \in 0..MaxFaults /\ crashes \in 0..MaxCrashes
    BY NoticesAssumptions
  <2>2. stage \in [Changes -> Stages] /\ inbox \in [Changes -> Nat]
    BY DEF Stages
  <2> QED BY <2>1, <2>2 DEF TypeOK
<1>2. Truth /\ Phases /\ Fresh
  BY DEF Truth, Underway, Delivered, Phases, Fresh
<1>3. Single /\ Settling
  BY DEF Single, SecondLetterExcused, Settling
<1> QED BY <1>1, <1>2, <1>3 DEF NoticesInv

\* The invariant the three results below rest on holds throughout, whatever
\* fails and wherever the process dies.
THEOREM NoticesInductive == Spec => []NoticesInv
<1>1. NoticesInv /\ [Next]_vars => NoticesInv'
  BY NextTypeOK, TruthKept, PhasesKept, FreshKept, SingleKept, SettlingKept DEF NoticesInv
<1> QED BY <1>1, InitInv, PTL DEF Spec

\* Commit, log, pending_notices and INBOX: nothing is announced or owed as an
\* announcement that is not in ayllu.toml.
THEOREM NoticesAreTrue == Spec => []TrueNotice
<1>1. NoticesInv => TrueNotice
  BY DEF NoticesInv, Truth, TrueNotice
<1> QED BY <1>1, NoticesInductive, PTL

\* Announce, Flush and Reconcile: a second letter about one change takes an
\* entry recorded twice or a lost reply; crashes alone never make one.
THEOREM SecondLettersExcused == Spec => []SecondLetterExcused
<1>1. NoticesInv => SecondLetterExcused
  BY DEF NoticesInv, Single
<1> QED BY <1>1, NoticesInductive, PTL

\* Flush then Reconcile: a startup that met no error leaves nothing pending and
\* no change of the window without its letter.
THEOREM CleanStartOwesNothing == Spec => NothingOwed
<1> DEFINE Settled == mode = "reconcile" /\ mode' = "serve" /\ clean =>
                        /\ pending' = <<>>
                        /\ log \ old \subseteq Delivered
<1>1. NoticesInv /\ [Next]_vars => [Settled]_vars
  <2> SUFFICES ASSUME NoticesInv, [Next]_vars, mode = "reconcile", mode' = "serve", clean
               PROVE  pending' = <<>> /\ log \ old \subseteq Delivered
    OBVIOUS
  <2>1. ReconcileEnd
    <3>1. ASSUME NEW n \in Changes PROVE
             ~(\/ Commit(n) \/ CommitFails(n) \/ Log(n) \/ LogFails(n) \/ ReleaseMove(n)
               \/ AnnouncePend(n) \/ AnnounceAppend(n) \/ AnnounceRemove(n))
      BY DEF Commit, CommitFails, Log, LogFails, ReleaseMove, AnnouncePend, AnnounceAppend,
             AnnounceRemove, startVars
    <3>2. ~OtherUpdate /\ ~Start /\ ~FlushEnd /\ ~Crash /\ ~Age /\ ~UNCHANGED vars
      BY DEF OtherUpdate, Start, FlushEnd, Crash, Age, Pass, vars, startVars
    <3>3. ~Look /\ ~StartAppend /\ ~StartRemove
      BY DEF Look, StartAppend, StartRemove
    <3> QED BY <3>1, <3>2, <3>3 DEF Next
  <2>2. todo = <<>> /\ at = "look" /\ pending' = pending
    BY <2>1 DEF ReconcileEnd, NoticesInv, Phases
  <2>3. Elements(pending) = {} /\ log \ old \subseteq Delivered
    BY <2>2, EmptyFacts DEF NoticesInv, Settling
  <2> QED BY <2>2, <2>3, EmptyFacts DEF NoticesInv, TypeOK
<1> QED BY <1>1, NoticesInductive, PTL DEF Spec, NothingOwed
=============================================================================
