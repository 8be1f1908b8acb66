--------------------------- MODULE OutboundProofs ---------------------------
(***************************************************************************)
(* Outbound's type invariant; that no letter is lost while the letters     *)
(* partition is not formatted; that Outbound implements OutboxPromise; and *)
(* that one request at a time sends and answers a letter once.  For every  *)
(* number of contacts and letters, every ring size and every bag size, and *)
(* but for the last for every number of goroutines.                        *)
(***************************************************************************)
EXTENDS Outbound, FiniteSetTheorems, TLAPS

-----------------------------------------------------------------------------
(* The ack ring. *)

\* Record keeps a ring a ring of acks, and holds nothing that was neither in
\* it before nor just recorded: eviction only forgets.
LEMMA RecordFacts ==
  ASSUME NEW r \in Seq(Ack), NEW a \in Ack
  PROVE  /\ Record(r, a) \in Seq(Ack)
         /\ Recorded(Record(r, a)) \subseteq Recorded(r) \cup {a}
<1> DEFINE longer == Append(r, a)
<1>1. longer \in Seq(Ack) /\ Len(longer) = Len(r) + 1 /\ Len(r) \in Nat
  OBVIOUS
<1>2. \A i \in 1..Len(longer) : longer[i] \in Recorded(r) \cup {a}
  BY DEF Recorded
<1>3. CASE Len(longer) > RingSize
  <2> DEFINE m == Len(longer) - RingSize + 1
  <2>1. m \in 1..Len(longer) + 1 /\ RingSize \in Nat /\ RingSize # 0
    BY <1>1, <1>3, OutboundAssumptions
  <2>2. Record(r, a) = SubSeq(longer, m, Len(longer))
    BY <1>3 DEF Record
  <2>3. /\ SubSeq(longer, m, Len(longer)) \in Seq(Ack)
        /\ Len(SubSeq(longer, m, Len(longer))) = Len(longer) - m + 1
        /\ \A i \in 1..(Len(longer) - m + 1) :
             SubSeq(longer, m, Len(longer))[i] = longer[m + i - 1]
    BY <1>1, <2>1
  <2>4. \A i \in 1..(Len(longer) - m + 1) : m + i - 1 \in 1..Len(longer)
    BY <1>1, <2>1
  <2> DEFINE kept == SubSeq(longer, m, Len(longer))
  <2>5. DOMAIN kept = 1..(Len(longer) - m + 1)
    BY <2>3
  <2> HIDE DEF longer, m, kept
  <2>6. \A i \in DOMAIN kept : kept[i] \in Recorded(r) \cup {a}
    BY <1>2, <2>3, <2>4, <2>5 DEF kept
  <2> QED
    BY <2>2, <2>3, <2>6 DEF Recorded, kept
<1>4. CASE ~(Len(longer) > RingSize)
  BY <1>1, <1>2, <1>4 DEF Record, Recorded
<1> QED
  BY <1>3, <1>4

\* What a lookup returns is in the ring, under the id asked for.
LEMMA LookupFacts ==
  ASSUME NEW r \in Seq(Ack), NEW id
  PROVE  /\ Lookup(r, id) \subseteq Recorded(r)
         /\ \A a \in Lookup(r, id) : a.id = id
         /\ Recorded(r) \subseteq Ack
BY DEF Lookup, Recorded
-----------------------------------------------------------------------------
(* Types. *)

\* Init is well typed.
LEMMA InitTypeOK == Init => TypeOK
BY OutboundAssumptions DEF Init, TypeOK, AckStatus, Letters

\* What the helpers on entries return.
LEMMA EntryFacts ==
  ASSUME NEW S \in SUBSET Entry, NEW id, NEW st \in Rejects
  PROVE  /\ Without(S, id) \subseteq S
         /\ Reject(S, id, st) \in SUBSET Entry
BY DEF Without, Reject, Entry

\* A count that is bumped stays a count.
LEMMA BumpFacts ==
  ASSUME NEW f \in [Letters -> Nat], NEW n \in Letters, NEW g,
         g \in {f, [f EXCEPT ![n] = @ + 1]}
  PROVE  g \in [Letters -> Nat]
OBVIOUS

\* Every step keeps the types, a format included.
LEMMA NextTypeOK == TypeOK /\ [FormatNext]_vars => TypeOK'
<1> SUFFICES ASSUME TypeOK, [FormatNext]_vars PROVE TypeOK'
  OBVIOUS
<1> USE OutboundAssumptions
<1>1. ASSUME NEW k \in Kinds, Add(k) \/ AddEntryFails(k) PROVE TypeOK'
  <2>1. NewEntry(k) \in Entry /\ letters + 1 \in Letters
    BY <1>1 DEF Add, AddEntryFails, MayAdd, NewEntry, Entry, Letters, TypeOK
  <2>2. Without(files, NewEntry(k).id) \cup {NewEntry(k)} \in SUBSET Entry
    BY <2>1 DEF Without, TypeOK
  <2>3. files' \in SUBSET Entry /\ entries' \in SUBSET Entry
    BY <1>1, <2>1, <2>2 DEF Add, AddEntryFails, TypeOK
  <2>4. letters' \in 0..MaxLetters /\ composed' \in SUBSET Letters
    <3>1. letters' \in {letters, letters + 1}
      BY <1>1 DEF Add, AddEntryFails
    <3>2. composed' \in {composed, composed \cup {letters + 1}}
      BY <1>1 DEF Add, AddEntryFails
    <3> QED
      BY <2>1, <3>1, <3>2 DEF Letters, TypeOK
  <2>5. counter' \in Nat /\ highWater' \in Nat
    BY <1>1 DEF Add, AddEntryFails, TypeOK
  <2> QED
    BY <1>1, <2>3, <2>4, <2>5 DEF Add, AddEntryFails, TypeOK, serverVars
<1>2. CASE AddCounterFails
  BY <1>2 DEF AddCounterFails, TypeOK, serverVars, historyVars
<1>3. ASSUME NEW h \in Handlers, SendRequest(h) PROVE TypeOK'
  BY <1>3 DEF SendRequest, Sendable, TypeOK, historyVars
<1>4. CASE GiveUp
  BY <1>4 DEF GiveUp, TypeOK, serverVars, historyVars
<1>5. ASSUME NEW a \in inAcks, Resolve(a) \/ ResolveFails(a) PROVE TypeOK'
  <2>1. a \in Ack /\ (a.status # "sent" => a.status \in Rejects)
    BY DEF TypeOK, Ack, AckStatus
  <2>2. Without(files, a.id) \subseteq files /\ Without(entries, a.id) \subseteq entries
    BY DEF Without
  <2>3. a.status # "sent" => Reject(entries, a.id, a.status) \in SUBSET Entry
    BY <2>1, EntryFacts DEF TypeOK
  <2>4. files' \in SUBSET Entry /\ entries' \in SUBSET Entry
    BY <1>5, <2>2, <2>3 DEF Resolve, ResolveFails, TypeOK
  <2> QED
    BY <1>5, <2>4 DEF Resolve, ResolveFails, TypeOK, serverVars, historyVars
<1>6. ASSUME NEW e \in entries, Discard(e) PROVE TypeOK'
  <2>1. files' \in SUBSET Entry /\ entries' \in SUBSET Entry
    BY <1>6 DEF Discard, Without, TypeOK
  <2> QED
    BY <1>6, <2>1 DEF Discard, TypeOK, Entry, serverVars
<1>7. CASE PowerCut
  BY <1>7 DEF PowerCut, TypeOK, serverVars, historyVars
<1>8. CASE Format
  BY <1>8 DEF Format, TypeOK, LettersOf, Entry, serverVars
<1>9. ASSUME NEW h \in Handlers,
             Refuse(h) \/ Begin(h) \/ Reply(h) \/ ReplyFails(h)
      PROVE  TypeOK'
  <2>1. CASE Refuse(h)
    BY <2>1 DEF Refuse, End, TypeOK, historyVars
  <2>2. CASE Begin(h)
    BY <2>2 DEF Begin, TypeOK, deviceVars, historyVars
  <2>3. CASE Reply(h)
    BY <2>3 DEF Reply, End, TypeOK
  <2>4. CASE ReplyFails(h)
    BY <2>4 DEF ReplyFails, End, TypeOK, historyVars
  <2> QED
    BY <1>9, <2>1, <2>2, <2>3, <2>4
<1>10. ASSUME NEW h \in Handlers, NEW x \in todo[h], Replay(h, x) PROVE TypeOK'
  <2>1. acks' \in [Handlers -> SUBSET Ack]
    BY <1>10, LookupFacts DEF Replay, TypeOK
  <2> QED
    BY <1>10, <2>1 DEF Replay, TypeOK, deviceVars, historyVars
<1>11. ASSUME NEW h \in Handlers, NEW x \in todo[h],
              RejectItem(h, x) \/ SendOk(h, x) \/ SendUndeliverable(h, x)
       PROVE  TypeOK'
  <2>1. verdict' \in [Handlers -> AckStatus]
    BY <1>11 DEF RejectItem, SendOk, SendUndeliverable, Decide, Refusal, TypeOK,
                 AckStatus, Rejects
  <2>2. sends' \in [Letters -> Nat]
    <3>1. sends' \in {sends, [sends EXCEPT ![x.letter] = @ + 1]}
      BY <1>11 DEF RejectItem, SendOk, SendUndeliverable
    <3>2. x.letter \in Letters
      BY DEF TypeOK, Entry
    <3>3. sends \in [Letters -> Nat]
      BY DEF TypeOK
    <3> QED
      BY <3>1, <3>2, <3>3, BumpFacts
  <2>3. \E st : Decide(h, st)
    BY <1>11 DEF RejectItem, SendOk, SendUndeliverable
  <2> QED
    BY <2>1, <2>2, <2>3 DEF Decide, TypeOK, deviceVars
<1>12. ASSUME NEW h \in Handlers, NEW x \in todo[h], SendFails(h, x) PROVE TypeOK'
  <2>1. x.letter \in Letters
    BY DEF TypeOK, Entry
  <2>2. sends' \in [Letters -> Nat] /\ excuses' \in [Letters -> Nat]
    <3>1. /\ sends' \in {sends, [sends EXCEPT ![x.letter] = @ + 1]}
          /\ excuses' \in {excuses, [excuses EXCEPT ![x.letter] = @ + 1]}
      BY <1>12 DEF SendFails
    <3>2. sends \in [Letters -> Nat] /\ excuses \in [Letters -> Nat]
      BY DEF TypeOK
    <3>3. sends' \in [Letters -> Nat]
      BY <2>1, <3>1, <3>2, BumpFacts
    <3> QED
      BY <2>1, <3>1, <3>2, <3>3, BumpFacts
  <2>3. /\ pc' \in [Handlers -> {"idle", "begin", "items", "record"}]
        /\ todo' \in [Handlers -> SUBSET Entry]
        /\ snap' \in [Handlers -> Seq(Ack)]
        /\ acks' \in [Handlers -> SUBSET Ack]
        /\ awaits' \in SUBSET Handlers
    <3>1. CASE End(h)
      BY <3>1 DEF End, TypeOK
    <3>2. CASE /\ todo' = [todo EXCEPT ![h] = @ \ {x}]
               /\ UNCHANGED <<pc, awaits, snap, acks>>
      BY <3>2 DEF TypeOK
    <3> QED
      BY <1>12, <3>1, <3>2 DEF SendFails
  <2> QED
    BY <1>12, <2>2, <2>3 DEF SendFails, TypeOK
<1>13. ASSUME NEW h \in Handlers, NEW x \in todo[h],
              RecordAck(h, x) \/ RecordAckFails(h, x)
       PROVE  TypeOK'
  <2> DEFINE a == [id |-> x.id, status |-> verdict[h]]
  <2>1. a \in Ack /\ x \in Entry
    BY DEF TypeOK, Entry, Ack
  <2>2. Record(ring, a) \in Seq(Ack) /\ Record(snap[h], a) \in Seq(Ack)
    BY <2>1, RecordFacts DEF TypeOK
  <2>3. CASE RecordAck(h, x)
    <3>1. /\ ring' = Record(ring, a)
          /\ disk' = ring'
          /\ snap' = [snap EXCEPT ![h] = Record(snap[h], a)]
          /\ acks' = [acks EXCEPT ![h] = acks[h] \cup {a}]
      BY <2>3 DEF RecordAck
    <3> HIDE DEF a
    <3>2. /\ ring' \in Seq(Ack) /\ disk' \in Seq(Ack)
          /\ snap' \in [Handlers -> Seq(Ack)]
          /\ acks' \in [Handlers -> SUBSET Ack]
      BY <2>1, <2>2, <3>1 DEF TypeOK
    <3> QED
      BY <2>3, <3>2 DEF RecordAck, TypeOK, AckStatus, deviceVars, historyVars
  <2>4. CASE RecordAckFails(h, x)
    <3>1. disk' \in {disk, Record(ring, a)}
      BY <2>4 DEF RecordAckFails
    <3> HIDE DEF a
    <3>2. disk' \in Seq(Ack)
      BY <2>2, <3>1 DEF TypeOK
    <3>3. excuses' \in [Letters -> Nat]
      <4>1. excuses' \in {excuses, [excuses EXCEPT ![x.letter] = @ + 1]}
        BY <2>4 DEF RecordAckFails
      <4>2. x.letter \in Letters
        BY <2>1 DEF Entry
      <4>3. excuses \in [Letters -> Nat]
        BY DEF TypeOK
      <4> QED
        BY <4>1, <4>2, <4>3, BumpFacts
    <3> QED
      BY <2>4, <3>2, <3>3 DEF RecordAckFails, TypeOK, AckStatus, deviceVars
  <2> QED
    BY <1>13, <2>3, <2>4
<1>14. CASE Crash
  <2>1. \A P \in SUBSET Handlers : Cardinality(P) \in Nat
    BY FS_Subset, FS_CardinalityType
  <2> DEFINE Caught(n) == {h \in Handlers : /\ verdict[h] = "sent"
                                            /\ \E x \in todo[h] :
                                                 /\ x.letter = n
                                                 /\ Recording(h, x)}
  <2>2. excuses' = [n \in Letters |-> excuses[n] + Cardinality(Caught(n))]
    BY <1>14 DEF Crash
  <2>3. \A n \in Letters : excuses[n] \in Nat /\ Cardinality(Caught(n)) \in Nat
    BY <2>1 DEF TypeOK
  <2> HIDE DEF Caught
  <2>4. excuses' \in [Letters -> Nat]
    BY <2>2, <2>3
  <2>5. /\ ring' = disk
        /\ pc' = [h \in Handlers |-> "idle"]
        /\ todo' = [h \in Handlers |-> {}]
        /\ snap' = [h \in Handlers |-> <<>>]
        /\ acks' = [h \in Handlers |-> {}]
        /\ verdict' = [h \in Handlers |-> "sent"]
        /\ UNCHANGED <<deviceVars, disk, active, letters, composed, takenBack,
                       wiped, sends, told>>
    BY <1>14 DEF Crash
  <2> QED
    BY <2>4, <2>5 DEF TypeOK, AckStatus, deviceVars
<1>15. ASSUME NEW c \in Contacts, ToggleContact(c) PROVE TypeOK'
  BY <1>15 DEF ToggleContact, TypeOK, deviceVars, serverVars, historyVars
<1>16. CASE UNCHANGED vars
  BY <1>16 DEF vars, TypeOK, deviceVars, serverVars, historyVars
<1> QED
  BY <1>1, <1>2, <1>3, <1>4, <1>5, <1>6, <1>7, <1>8, <1>9, <1>10, <1>11, <1>12,
     <1>13, <1>14, <1>15, <1>16 DEF FormatNext, Next

\* Every state the device and the server reach is well typed.
THEOREM TypeCorrect == Spec => []TypeOK
<1>1. [Next]_vars => [FormatNext]_vars
  BY DEF FormatNext
<1> QED
  BY <1>1, InitTypeOK, NextTypeOK, PTL DEF Spec

\* So is every state of a device whose partition is formatted now and then.
THEOREM FormatTypeCorrect == FormatSpec => []TypeOK
BY InitTypeOK, NextTypeOK, PTL DEF FormatSpec
-----------------------------------------------------------------------------
(* No letter is lost. *)

\* The state of the induction: Safe is NothingLostInv without NothingLost, which
\* each action is shown to keep from it.
Safe == IdsFresh /\ IdsAgree /\ SentMeansTaken

\* A step that invents no letter and no ack keeps Safe.
LEMMA QuietStep ==
  ASSUME TypeOK, TypeOK', Safe,
         \A e \in Copies' : \E f \in Copies : e.id = f.id /\ e.letter = f.letter,
         Answers' \subseteq Answers,
         highWater <= highWater', highWater' <= counter',
         \A n \in Letters : sends[n] <= sends'[n]
  PROVE  Safe'
<1>1. /\ Copies \subseteq Entry /\ Copies' \subseteq Entry
      /\ Answers \subseteq Ack /\ Answers' \subseteq Ack
  BY DEF TypeOK, Copies, Answers, Recorded
<1>2. highWater \in Nat /\ highWater' \in Nat /\ counter' \in Nat
  BY DEF TypeOK
<1>3. IdsFresh'
  BY <1>1, <1>2 DEF Safe, IdsFresh, Entry, Ack
<1>4. IdsAgree'
  BY DEF Safe, IdsAgree
<1>5. SentMeansTaken'
  <2> SUFFICES ASSUME NEW a \in Answers', NEW e \in Copies', a.id = e.id,
                      a.status = "sent"
               PROVE  sends'[e.letter] > 0
    BY DEF SentMeansTaken
  <2>1. PICK f \in Copies : e.id = f.id /\ e.letter = f.letter
    OBVIOUS
  <2>2. sends[e.letter] > 0
    BY <2>1 DEF Safe, SentMeansTaken
  <2>3. e.letter \in Letters
    BY <1>1 DEF Entry
  <2> QED
    BY <2>2, <2>3 DEF TypeOK
<1> QED
  BY <1>3, <1>4, <1>5 DEF Safe

\* A step that starts no recording keeps VerdictTrue.
LEMMA QuietVerdict ==
  ASSUME TypeOK, TypeOK', VerdictTrue,
         \A h \in Handlers : pc'[h] = "record" =>
           pc[h] = "record" /\ todo'[h] = todo[h] /\ verdict'[h] = verdict[h],
         \A n \in Letters : sends[n] <= sends'[n]
  PROVE  VerdictTrue'
<1> SUFFICES ASSUME NEW h \in Handlers, NEW x \in todo'[h], Recording(h, x)',
                    verdict'[h] = "sent"
             PROVE  sends'[x.letter] > 0
  BY DEF VerdictTrue
<1>1. Recording(h, x) /\ verdict[h] = "sent" /\ x \in todo[h]
  BY DEF Recording, Oldest
<1>2. sends[x.letter] > 0
  BY <1>1 DEF VerdictTrue
<1>3. x.letter \in Letters
  BY DEF TypeOK, Entry
<1> QED
  BY <1>2, <1>3 DEF TypeOK

\* A step that accepts no letter and removes none from flash keeps NothingLost.
LEMMA QuietBag ==
  ASSUME TypeOK, TypeOK', NothingLost,
         composed' \subseteq composed,
         LettersOf(files) \subseteq LettersOf(files'),
         takenBack \subseteq takenBack', wiped \subseteq wiped',
         \A n \in Letters : sends[n] <= sends'[n]
  PROVE  NothingLost'
<1> SUFFICES ASSUME NEW n \in composed',
                    n \notin LettersOf(files'), n \notin takenBack', n \notin wiped'
             PROVE  sends'[n] > 0
  BY DEF NothingLost
<1>1. sends[n] > 0
  BY DEF NothingLost
<1>2. n \in Letters
  BY DEF TypeOK
<1> QED
  BY <1>1, <1>2 DEF TypeOK

\* The device's flash and RAM after Resolve, ResolveFails, Discard and PowerCut
\* hold letters it held before, and the letter that leaves flash is a's.
LEMMA BagFacts ==
  ASSUME TypeOK, NEW id, NEW st
  PROVE  /\ \A e \in Without(files, id) : e \in files
         /\ \A e \in Without(entries, id) : e \in entries
         /\ \A e \in Reject(entries, id, st) :
              \E f \in entries : e.id = f.id /\ e.letter = f.letter
         /\ \A f \in entries : \E e \in Reject(entries, id, st) :
              e.id = f.id /\ e.letter = f.letter
         /\ LettersOf(files) \subseteq
              LettersOf(Without(files, id)) \cup LettersOf({e \in files : e.id = id})
<1>1. \A e \in entries : /\ [e EXCEPT !.status = st].id = e.id
                         /\ [e EXCEPT !.status = st].letter = e.letter
  BY DEF TypeOK, Entry
<1> QED
  BY <1>1 DEF Without, Reject, LettersOf

\* A counted send only grows the count.
LEMMA BumpGrows ==
  ASSUME NEW f \in [Letters -> Nat], NEW n \in Letters, NEW g,
         g \in {f, [f EXCEPT ![n] = @ + 1]}
  PROVE  \A m \in Letters : f[m] <= g[m]
OBVIOUS

\* Add, or an Add that reported failure: the new id is above every id in use.
LEMMA AddKeeps ==
  ASSUME TypeOK, TypeOK', NothingLostInv, NEW k \in Kinds,
         Add(k) \/ AddEntryFails(k)
  PROVE  NothingLostInv'
<1> DEFINE e == NewEntry(k)
<1>1. /\ e.id = highWater + 1 /\ e.letter = letters + 1
      /\ highWater \in Nat
  BY DEF NewEntry, TypeOK
<1>2. /\ highWater' = highWater + 1 /\ counter' = highWater + 1
      /\ files' \in {files, Without(files, e.id) \cup {e}}
      /\ entries' \in {entries, entries \cup {e}}
      /\ composed' \in {composed, composed \cup {letters + 1}}
      /\ composed' # composed => e \in files'
      /\ UNCHANGED <<inAcks, serverVars, takenBack, wiped, sends, told>>
  BY DEF Add, AddEntryFails
<1>3. /\ Copies \subseteq Entry /\ Answers \subseteq Ack
  BY DEF TypeOK, Copies, Answers, Recorded
<1>4. /\ \A f \in Copies : f.id # e.id
      /\ \A a \in Answers : a.id # e.id
  BY <1>1, <1>3 DEF NothingLostInv, IdsFresh, Entry, Ack
<1>5. Without(files, e.id) = files
  BY <1>4 DEF Without, Copies
<1>6. Answers' = Answers
  BY <1>2 DEF Answers, serverVars
<1>7. Copies' \subseteq Copies \cup {e}
  BY <1>2, <1>5 DEF Copies, serverVars
<1> HIDE DEF e
<1>8. IdsFresh'
  BY <1>1, <1>2, <1>3, <1>6, <1>7 DEF NothingLostInv, IdsFresh, Entry, Ack
<1>9. IdsAgree'
  BY <1>4, <1>7 DEF NothingLostInv, IdsAgree
<1>10. SentMeansTaken'
  BY <1>2, <1>4, <1>6, <1>7 DEF NothingLostInv, SentMeansTaken
<1>11. VerdictTrue'
  BY <1>2 DEF NothingLostInv, VerdictTrue, Recording, Oldest, serverVars
<1>12. NothingLost'
  <2>1. files \subseteq files'
    BY <1>2, <1>5
  <2>2. composed' \subseteq composed \cup LettersOf(files')
    BY <1>1, <1>2 DEF LettersOf
  <2>3. LettersOf(files) \subseteq LettersOf(files')
    BY <2>1 DEF LettersOf
  <2> QED
    BY <1>2, <2>2, <2>3 DEF NothingLostInv, NothingLost
<1> QED
  BY <1>8, <1>9, <1>10, <1>11, <1>12 DEF NothingLostInv

\* Applying an ack, or failing to: what leaves flash is a letter the relay took.
LEMMA ResolveKeeps ==
  ASSUME TypeOK, TypeOK', NothingLostInv, NEW a \in inAcks,
         Resolve(a) \/ ResolveFails(a)
  PROVE  NothingLostInv'
<1>1. /\ inAcks' \subseteq inAcks
      /\ UNCHANGED <<counter, highWater, serverVars, historyVars>>
  BY DEF Resolve, ResolveFails
<1>2. \/ entries' \subseteq entries
      \/ entries' = Reject(entries, a.id, a.status)
  BY BagFacts DEF Resolve, ResolveFails
<1>3. \A e \in entries' : \E f \in entries : e.id = f.id /\ e.letter = f.letter
  BY <1>2, BagFacts
<1>4. files' \subseteq files \cup entries'
  BY DEF Resolve, ResolveFails, Without
<1>5. \A e \in Copies' : \E f \in Copies : e.id = f.id /\ e.letter = f.letter
  BY <1>1, <1>3, <1>4 DEF Copies, serverVars
<1>6. Answers' \subseteq Answers
  BY <1>1 DEF Answers, serverVars, historyVars
<1>7. \A n \in Letters : sends[n] <= sends'[n]
  BY <1>1 DEF historyVars, TypeOK
<1>8. Safe'
  <2>1. highWater <= highWater' /\ highWater' <= counter'
    BY <1>1 DEF NothingLostInv, IdsFresh, TypeOK
  <2> QED
    BY <1>5, <1>6, <1>7, <2>1, QuietStep DEF NothingLostInv, Safe
<1>9. VerdictTrue'
  BY <1>1, <1>7, QuietVerdict DEF NothingLostInv, serverVars
<1>10. \A f \in files : f.letter \in LettersOf(files') \/ sends[f.letter] > 0
  <2> SUFFICES ASSUME NEW f \in files, f.letter \notin LettersOf(files')
               PROVE  sends[f.letter] > 0
    OBVIOUS
  <2>1. f \notin files'
    BY DEF LettersOf
  <2>2. /\ f.id = a.id /\ \E e \in entries : e.id = a.id
    BY <2>1 DEF Resolve, ResolveFails, Without
  <2>3. CASE a.status = "sent"
    BY <2>2, <2>3 DEF NothingLostInv, SentMeansTaken, Copies, Answers
  <2>4. CASE a.status # "sent"
    <3>1. /\ entries' = Reject(entries, a.id, a.status)
          /\ files' = Without(files, a.id) \cup {e \in entries' : e.id = a.id}
      BY <2>1, <2>2, <2>4 DEF Resolve, ResolveFails
    <3>2. PICK g \in entries : g.id = a.id
      BY <2>2
    <3>3. PICK e \in entries' : e.id = g.id /\ e.letter = g.letter
      BY <3>1, BagFacts
    <3>4. e \in files'
      BY <3>1, <3>2, <3>3
    <3>5. g.letter = f.letter
      BY <2>2, <3>2 DEF NothingLostInv, IdsAgree, Copies
    <3> QED
      BY <3>3, <3>4, <3>5 DEF LettersOf
  <2> QED
    BY <2>3, <2>4
<1>11. NothingLost'
  BY <1>1, <1>10 DEF NothingLostInv, NothingLost, LettersOf, historyVars
<1> QED
  BY <1>8, <1>9, <1>11 DEF NothingLostInv, Safe

\* The other steps of the device that touch the bag.
LEMMA DeviceKeeps ==
  ASSUME TypeOK, TypeOK', NothingLostInv,
         \/ \E e \in entries : Discard(e)
         \/ PowerCut
         \/ AddCounterFails
  PROVE  NothingLostInv'
<1>1. /\ files' \subseteq files /\ entries' \subseteq entries \cup files
      /\ inAcks' \subseteq inAcks
      /\ UNCHANGED <<serverVars, composed, wiped, sends, told>>
  BY DEF Discard, PowerCut, AddCounterFails, Without, historyVars
<1>2. highWater <= highWater' /\ highWater' <= counter'
  BY DEF Discard, PowerCut, AddCounterFails, NothingLostInv, IdsFresh, TypeOK
<1>3. \A n \in Letters : sends[n] <= sends'[n]
  BY <1>1 DEF TypeOK
<1>4. \A e \in Copies' : e \in Copies
  BY <1>1 DEF Copies, serverVars
<1>5. Answers' \subseteq Answers
  BY <1>1 DEF Answers, serverVars
<1>6. Safe'
  BY <1>2, <1>3, <1>4, <1>5, QuietStep DEF NothingLostInv, Safe
<1>7. VerdictTrue'
  BY <1>1, <1>3, QuietVerdict DEF NothingLostInv, serverVars
<1>8. NothingLost'
  <2>1. ASSUME NEW e \in entries, Discard(e) PROVE NothingLost'
    <3>1. \A f \in files : f \in files' \/ f.letter = e.letter
      BY <2>1 DEF Discard, Without, NothingLostInv, IdsAgree, Copies
    <3>2. takenBack' = takenBack \cup {e.letter}
      BY <2>1 DEF Discard
    <3> QED
      BY <1>1, <3>1, <3>2 DEF NothingLostInv, NothingLost, LettersOf
  <2>2. CASE PowerCut \/ AddCounterFails
    BY <1>1, <2>2 DEF PowerCut, AddCounterFails, NothingLostInv, NothingLost,
                      historyVars
  <2> QED
    BY <2>1, <2>2
<1> QED
  BY <1>6, <1>7, <1>8 DEF NothingLostInv, Safe

\* Steps between which no letter, no ack and no recording is new.
LEMMA ExchangeKeeps ==
  ASSUME TypeOK, TypeOK', NothingLostInv,
         \/ GiveUp
         \/ \E h \in Handlers : \/ SendRequest(h) \/ Refuse(h) \/ Begin(h)
                                \/ Reply(h) \/ ReplyFails(h)
         \/ \E h \in Handlers : \E x \in todo[h] : Replay(h, x)
         \/ Crash
         \/ \E c \in Contacts : ToggleContact(c)
  PROVE  NothingLostInv'
<1>1. UNCHANGED <<files, entries, counter, highWater, composed, takenBack, wiped,
                  sends>>
  BY DEF GiveUp, SendRequest, Refuse, Begin, Reply, ReplyFails, Replay, Crash,
         ToggleContact, deviceVars, historyVars
<1>2. /\ inAcks' \in {inAcks} \cup {acks[h] : h \in Handlers}
      /\ told' \in {told} \cup {told \cup acks[h] : h \in Handlers}
      /\ ring' \in {ring, disk} /\ disk' \in {ring, disk}
  BY DEF GiveUp, SendRequest, Refuse, Begin, Reply, ReplyFails, Replay, Crash,
         ToggleContact, deviceVars, serverVars, historyVars
<1> DEFINE Quiet(g) ==
      /\ snap'[g] \in {snap[g], ring, <<>>}
      /\ \A a \in acks'[g] : a \in acks[g] \cup Recorded(snap[g])
      /\ \A e \in todo'[g] : e \in todo[g] \cup entries
      /\ pc'[g] = "record" =>
           pc[g] = "record" /\ todo'[g] = todo[g] /\ verdict'[g] = verdict[g]
<1>3. \A g \in Handlers : Quiet(g)
  <2>1. CASE GiveUp \/ \E c \in Contacts : ToggleContact(c)
    BY <2>1 DEF GiveUp, ToggleContact, serverVars
  <2>2. ASSUME NEW h \in Handlers, SendRequest(h) PROVE \A g \in Handlers : Quiet(g)
    BY <2>2 DEF SendRequest, Sendable, TypeOK
  <2>3. ASSUME NEW h \in Handlers, Begin(h) PROVE \A g \in Handlers : Quiet(g)
    BY <2>3 DEF Begin, TypeOK
  <2>4. ASSUME NEW h \in Handlers, End(h), UNCHANGED verdict
        PROVE  \A g \in Handlers : Quiet(g)
    BY <2>4 DEF End, TypeOK
  <2>5. ASSUME NEW h \in Handlers, Refuse(h) \/ Reply(h) \/ ReplyFails(h)
        PROVE  \A g \in Handlers : Quiet(g)
    BY <2>4, <2>5 DEF Refuse, Reply, ReplyFails
  <2>6. ASSUME NEW h \in Handlers, NEW x \in todo[h], Replay(h, x)
        PROVE  \A g \in Handlers : Quiet(g)
    <3>1. Lookup(snap[h], x.id) \subseteq Recorded(snap[h])
      BY LookupFacts DEF TypeOK
    <3> QED
      BY <2>6, <3>1 DEF Replay, Item, TypeOK
  <2>7. CASE Crash
    BY <2>7 DEF Crash, TypeOK
  <2> QED
    BY <2>1, <2>2, <2>3, <2>5, <2>6, <2>7
<1>7. \A n \in Letters : sends[n] <= sends'[n]
  BY <1>1 DEF TypeOK
<1>8. \A e \in Copies' : e \in Copies
  BY <1>1, <1>3 DEF Copies
<1>9. Answers' \subseteq Answers
  <2>1. Recorded(<<>>) = {}
    BY DEF Recorded
  <2> QED
    BY <1>2, <1>3, <2>1 DEF Answers
<1>10. Safe'
  <2>1. highWater <= highWater' /\ highWater' <= counter'
    BY <1>1 DEF NothingLostInv, IdsFresh, TypeOK
  <2> QED
    BY <1>7, <1>8, <1>9, <2>1, QuietStep DEF NothingLostInv, Safe
<1>11. VerdictTrue'
  BY <1>3, <1>7, QuietVerdict DEF NothingLostInv
<1>12. NothingLost'
  BY <1>1 DEF NothingLostInv, NothingLost
<1> QED
  BY <1>10, <1>11, <1>12 DEF NothingLostInv, Safe

\* sendOne: "sent" is decided only together with the relay's acceptance.
LEMMA SendKeeps ==
  ASSUME TypeOK, TypeOK', NothingLostInv, NEW h \in Handlers, NEW x \in todo[h],
         \/ RejectItem(h, x) \/ SendOk(h, x) \/ SendUndeliverable(h, x)
         \/ SendFails(h, x)
  PROVE  NothingLostInv'
<1>1. UNCHANGED <<files, entries, counter, highWater, inAcks, ring, disk, composed,
                  takenBack, wiped, told>>
  BY DEF RejectItem, SendOk, SendUndeliverable, SendFails, Decide, deviceVars
<1>2. sends' \in {sends, [sends EXCEPT ![x.letter] = @ + 1]}
  BY DEF RejectItem, SendOk, SendUndeliverable, SendFails
<1>3. x \in Entry /\ x.letter \in Letters /\ sends \in [Letters -> Nat]
  BY DEF TypeOK, Entry
<1>4. \A n \in Letters : sends[n] <= sends'[n]
  BY <1>2, <1>3, BumpGrows
<1> DEFINE Quiet(g) ==
      /\ snap'[g] \in {snap[g], <<>>}
      /\ acks'[g] \subseteq acks[g]
      /\ todo'[g] \subseteq todo[g]
      /\ pc'[g] = "record" => todo'[g] = todo[g]
      /\ pc'[g] = "record" /\ ~(pc[g] = "record" /\ verdict'[g] = verdict[g]) => g = h
<1>5. \A g \in Handlers : Quiet(g)
  <2>1. ASSUME NEW st, Decide(h, st) PROVE \A g \in Handlers : Quiet(g)
    BY <2>1 DEF Decide, TypeOK
  <2>2. CASE SendFails(h, x)
    <3>1. CASE End(h) /\ UNCHANGED verdict
      BY <3>1 DEF End, TypeOK
    <3>2. CASE /\ todo' = [todo EXCEPT ![h] = @ \ {x}]
               /\ UNCHANGED <<pc, awaits, snap, acks>>
               /\ UNCHANGED verdict /\ pc[h] = "items"
      BY <3>2 DEF TypeOK
    <3> QED
      BY <2>2, <3>1, <3>2 DEF SendFails, ToRelay, Item
  <2> QED
    BY <2>1, <2>2 DEF RejectItem, SendOk, SendUndeliverable
<1>6. Safe'
  <2>1. \A e \in Copies' : e \in Copies
    BY <1>1, <1>5 DEF Copies
  <2>2. Recorded(<<>>) = {}
    BY DEF Recorded
  <2>3. Answers' \subseteq Answers
    BY <1>1, <1>5, <2>2 DEF Answers
  <2>4. highWater <= highWater' /\ highWater' <= counter'
    BY <1>1 DEF NothingLostInv, IdsFresh, TypeOK
  <2> QED
    BY <1>4, <2>1, <2>3, <2>4, QuietStep DEF NothingLostInv, Safe
<1>7. VerdictTrue'
  <2> SUFFICES ASSUME NEW g \in Handlers, NEW y \in todo'[g], Recording(g, y)',
                      verdict'[g] = "sent"
               PROVE  sends'[y.letter] > 0
    BY DEF VerdictTrue
  <2>1. pc'[g] = "record" /\ todo'[g] = todo[g] /\ Oldest(y, todo[g])
    BY <1>5 DEF Recording, Oldest
  <2>2. y.letter \in Letters
    BY DEF TypeOK, Entry
  <2>3. CASE pc[g] = "record" /\ verdict'[g] = verdict[g]
    <3>1. sends[y.letter] > 0
      BY <2>1, <2>3 DEF NothingLostInv, VerdictTrue, Recording, Oldest
    <3>2. sends[y.letter] \in Nat /\ sends'[y.letter] \in Nat
      BY <2>2 DEF TypeOK
    <3>3. sends[y.letter] <= sends'[y.letter]
      BY <1>4, <2>2
    <3> QED
      BY <3>1, <3>2, <3>3
  <2>4. CASE ~(pc[g] = "record" /\ verdict'[g] = verdict[g])
    <3>1. g = h
      BY <1>5, <2>1, <2>4
    <3>2. Oldest(x, todo[h])
      BY DEF RejectItem, SendOk, SendUndeliverable, SendFails, ToRelay, Item
    <3>3. x.id = y.id
      <4>1. x.id <= y.id /\ y.id <= x.id
        BY <2>1, <3>1, <3>2 DEF Oldest
      <4>2. x.id \in Nat /\ y.id \in Nat
        <5>1. y \in Entry
          BY DEF TypeOK
        <5> QED
          BY <1>3, <5>1 DEF Entry
      <4> QED
        BY <4>1, <4>2
    <3>4. x.letter = y.letter
      BY <2>1, <3>1, <3>3 DEF Oldest, NothingLostInv, IdsAgree, Copies
    <3>5. SendOk(h, x)
      <4>1. ~SendFails(h, x)
        BY <2>1, <2>4, <3>1 DEF SendFails, End, ToRelay, Item, TypeOK
      <4>2. \A st : Decide(h, st) => verdict'[h] = st
        BY DEF Decide, TypeOK
      <4>3. Refusal(x) # "sent" /\ "rejected_undeliverable" # "sent"
        BY DEF Refusal
      <4> QED
        BY <3>1, <4>1, <4>2, <4>3 DEF RejectItem, SendUndeliverable
    <3>6. sends'[x.letter] = sends[x.letter] + 1
      BY <1>3, <3>5 DEF SendOk
    <3> QED
      BY <1>3, <3>4, <3>6
  <2> QED
    BY <2>3, <2>4
<1>8. NothingLost'
  BY <1>1, <1>4, QuietBag DEF NothingLostInv
<1> QED
  BY <1>6, <1>7, <1>8 DEF NothingLostInv, Safe

\* recordAck: the one step that makes a new ack, and VerdictTrue makes it true.
LEMMA RecordKeeps ==
  ASSUME TypeOK, TypeOK', NothingLostInv, NEW h \in Handlers, NEW x \in todo[h],
         RecordAck(h, x) \/ RecordAckFails(h, x)
  PROVE  NothingLostInv'
<1> DEFINE a == [id |-> x.id, status |-> verdict[h]]
<1>1. x \in Entry /\ a \in Ack /\ a.id = x.id /\ a.status = verdict[h]
  BY DEF TypeOK, Entry, Ack
<1>2. /\ Recorded(Record(ring, a)) \subseteq Recorded(ring) \cup {a}
      /\ Recorded(Record(snap[h], a)) \subseteq Recorded(snap[h]) \cup {a}
  BY <1>1, RecordFacts DEF TypeOK
<1>3. /\ ring' \in {ring, Record(ring, a)}
      /\ disk' \in {disk, Record(ring, a)}
      /\ snap' \in {snap, [snap EXCEPT ![h] = Record(@, a)]}
      /\ acks' \in {acks, [acks EXCEPT ![h] = @ \cup {a}]}
      /\ todo' = [todo EXCEPT ![h] = @ \ {x}]
      /\ pc' = [pc EXCEPT ![h] = "items"]
      /\ verdict' = [verdict EXCEPT ![h] = "sent"]
      /\ UNCHANGED <<deviceVars, composed, takenBack, wiped, sends, told>>
  BY DEF RecordAck, RecordAckFails, historyVars
<1>4. pc[h] = "record" /\ Oldest(x, todo[h])
  BY DEF RecordAck, RecordAckFails, Recording
<1> HIDE DEF a
<1>5. \A g \in Handlers : /\ Recorded(snap'[g]) \subseteq Recorded(snap[g]) \cup {a}
                          /\ acks'[g] \subseteq acks[g] \cup {a}
                          /\ todo'[g] \subseteq todo[g]
                          /\ g # h => todo'[g] = todo[g]
  BY <1>2, <1>3 DEF TypeOK
<1>6. Answers' \subseteq Answers \cup {a}
  BY <1>2, <1>3, <1>5 DEF Answers, deviceVars
<1>7. Copies' \subseteq Copies /\ x \in Copies
  BY <1>3, <1>5 DEF Copies, deviceVars
<1>8. IdsFresh'
  BY <1>1, <1>3, <1>6, <1>7 DEF NothingLostInv, IdsFresh, deviceVars
<1>9. IdsAgree'
  BY <1>7 DEF NothingLostInv, IdsAgree
<1>10. SentMeansTaken'
  <2>1. \A e \in Copies : e.id = a.id /\ a.status = "sent" => sends[e.letter] > 0
    <3> SUFFICES ASSUME NEW e \in Copies, e.id = a.id, a.status = "sent"
                 PROVE  sends[e.letter] > 0
      OBVIOUS
    <3>1. e.letter = x.letter
      BY <1>1, <1>7 DEF NothingLostInv, IdsAgree
    <3>2. sends[x.letter] > 0
      BY <1>1, <1>4 DEF NothingLostInv, VerdictTrue, Recording
    <3> QED
      BY <3>1, <3>2
  <2> QED
    BY <1>3, <1>6, <1>7, <2>1 DEF NothingLostInv, SentMeansTaken
<1>11. VerdictTrue'
  <2>1. \A n \in Letters : sends[n] <= sends'[n]
    BY <1>3 DEF TypeOK
  <2>2. \A g \in Handlers : pc'[g] = "record" =>
          pc[g] = "record" /\ todo'[g] = todo[g] /\ verdict'[g] = verdict[g]
    BY <1>3 DEF TypeOK
  <2> QED
    BY <2>1, <2>2, QuietVerdict DEF NothingLostInv
<1>12. NothingLost'
  BY <1>3 DEF NothingLostInv, NothingLost, deviceVars
<1> QED
  BY <1>8, <1>9, <1>10, <1>11, <1>12 DEF NothingLostInv

\* Nothing exists yet, so nothing is lost and no ack can be wrong.
LEMMA InitKeeps == Init => NothingLostInv
<1> SUFFICES ASSUME Init PROVE NothingLostInv
  OBVIOUS
<1>1. Copies = {}
  BY DEF Init, Copies
<1>2. Recorded(<<>>) = {}
  BY DEF Recorded
<1>3. Answers = {}
  BY <1>2 DEF Init, Answers
<1>4. VerdictTrue
  BY DEF Init, VerdictTrue
<1> QED
  BY <1>1, <1>3, <1>4
     DEF Init, NothingLostInv, IdsFresh, IdsAgree, SentMeansTaken, NothingLost

\* A step that only a guardian takes, or none at all.
LEMMA IdleKeeps ==
  ASSUME NothingLostInv, UNCHANGED <<deviceVars, serverVars, historyVars>>
  PROVE  NothingLostInv'
BY DEF NothingLostInv, IdsFresh, IdsAgree, SentMeansTaken, VerdictTrue, NothingLost,
       Copies, Answers, Recording, Oldest, LettersOf, Recorded,
       deviceVars, serverVars, historyVars

\* Every step of the device and of the server keeps the invariant.
LEMMA StepKeeps ==
  ASSUME TypeOK, TypeOK', NothingLostInv, [Next]_vars
  PROVE  NothingLostInv'
<1>1. CASE \E k \in Kinds : Add(k) \/ AddEntryFails(k)
  BY <1>1, AddKeeps
<1>2. CASE \E a \in inAcks : Resolve(a) \/ ResolveFails(a)
  BY <1>2, ResolveKeeps
<1>3. CASE AddCounterFails \/ PowerCut \/ \E e \in entries : Discard(e)
  BY <1>3, DeviceKeeps
<1>4. CASE \/ GiveUp \/ Crash
           \/ \E h \in Handlers : \/ SendRequest(h) \/ Refuse(h) \/ Begin(h)
                                  \/ Reply(h) \/ ReplyFails(h)
           \/ \E h \in Handlers : \E x \in todo[h] : Replay(h, x)
  BY <1>4, ExchangeKeeps
<1>5. CASE \E h \in Handlers : \E x \in todo[h] :
             \/ RejectItem(h, x) \/ SendOk(h, x) \/ SendUndeliverable(h, x)
             \/ SendFails(h, x)
  BY <1>5, SendKeeps
<1>6. CASE \E h \in Handlers : \E x \in todo[h] :
             RecordAck(h, x) \/ RecordAckFails(h, x)
  BY <1>6, RecordKeeps
<1>7. CASE \/ \E c \in Contacts : ToggleContact(c)
           \/ UNCHANGED vars
  <2>1. UNCHANGED <<deviceVars, serverVars, historyVars>>
    BY <1>7 DEF ToggleContact, vars
  <2> QED
    BY <2>1, IdleKeeps
<1> QED
  BY <1>1, <1>2, <1>3, <1>4, <1>5, <1>6, <1>7 DEF Next

\* On a device whose letters partition is never formatted, the strengthened
\* invariant holds in every state of every behaviour, whatever crashes, lost
\* answers, failed writes and concurrent handlers of processOutbound it has.
THEOREM NothingLostInductive == Spec => []NothingLostInv
<1>1. TypeOK /\ TypeOK' /\ NothingLostInv /\ [Next]_vars => NothingLostInv'
  BY StepKeeps
<1> QED
  BY <1>1, InitKeeps, TypeCorrect, PTL DEF Spec

\* A letter the outbox accepted is on flash, with the relay or back with the
\* child, for ever.
THEOREM NoLetterLost == Spec => []NothingLost
<1>1. NothingLostInv => NothingLost
  BY DEF NothingLostInv
<1> QED
  BY <1>1, NothingLostInductive, PTL

\* No "sent" that exists anywhere is false of a letter it could still be
\* applied to.
THEOREM AcksAreTrue == Spec => []SentMeansTaken
<1>1. NothingLostInv => SentMeansTaken
  BY DEF NothingLostInv
<1> QED
  BY <1>1, NothingLostInductive, PTL
-----------------------------------------------------------------------------
(* Outbound keeps the promise of OutboxPromise. *)

\* Flash and RAM each hold one entry per local id.
OneEach ==
  /\ \A e, f \in files : e.id = f.id => e = f
  /\ \A e, f \in entries : e.id = f.id => e = f

\* A letter has been written, and has one local id wherever it is.
Numbered ==
  /\ \A e \in Copies : e.letter <= letters
  /\ \A e, f \in Copies : e.letter = f.letter => e.id = f.id

\* The entry can be given up without losing its letter.
Backed(e) == (\E f \in files : f.id = e.id) \/ sends[e.letter] > 0

\* The ids an ack may still reach the device for.
Expected ==
  {a.id : a \in inAcks}
    \cup UNION {{a.id : a \in acks[h]} \cup {x.id : x \in todo[h]} : h \in awaits}

\* Only a rejected entry that no ack is expected for may have lost its file
\* before the relay took the letter: one whose discarding reported failure.
EntriesBacked ==
  \A e \in entries : e.status = "queued" \/ e.id \in Expected => Backed(e)

PromiseInv == OneEach /\ Numbered /\ EntriesBacked

\* What both rejecting an entry and leaving it out do to the others.
LEMMA RejectFacts ==
  ASSUME TypeOK, OneEach, NEW id, NEW st
  PROVE  /\ \A e \in Reject(entries, id, st) : e.id # id => e \in entries
         /\ \A e \in entries : e.id # id => e \in Reject(entries, id, st)
         /\ \A e \in Reject(entries, id, st) : e.id = id => e.status = st
         /\ \A e \in Reject(entries, id, st) :
              \E f \in entries : e.id = f.id /\ e.letter = f.letter
         /\ \A f \in entries : \E e \in Reject(entries, id, st) :
              e.id = f.id /\ e.letter = f.letter
         /\ \A e, f \in Reject(entries, id, st) : e.id = f.id => e = f
<1>1. \A e \in entries : /\ [e EXCEPT !.status = st].id = e.id
                         /\ [e EXCEPT !.status = st].letter = e.letter
                         /\ [e EXCEPT !.status = st].status = st
  BY DEF TypeOK, Entry
<1> DEFINE after(e) == IF e.id = id THEN [e EXCEPT !.status = st] ELSE e
<1>2. Reject(entries, id, st) = {after(e) : e \in entries}
  BY DEF Reject
<1>3. \A e \in entries : /\ after(e).id = e.id /\ after(e).letter = e.letter
                         /\ e.id = id => after(e).status = st
                         /\ e.id # id => after(e) = e
  BY <1>1
<1> HIDE DEF after
<1>4. \A e, f \in Reject(entries, id, st) : e.id = f.id => e = f
  BY <1>2, <1>3 DEF OneEach
<1>5. \A e \in entries : after(e) \in Reject(entries, id, st)
  BY <1>2
<1>6. \A e \in Reject(entries, id, st) : \E f \in entries : e = after(f)
  BY <1>2
<1> QED
  BY <1>3, <1>4, <1>5, <1>6

\* A step of the server, or one that leaves the bag alone: no copy is new, no
\* ack is expected that was not, and the relay takes nothing back.
LEMMA ServerPromise ==
  ASSUME TypeOK, TypeOK', PromiseInv, UNCHANGED <<files, entries, letters>>,
         Copies' \subseteq Copies, Expected' \subseteq Expected,
         \A n \in Letters : sends[n] <= sends'[n]
  PROVE  PromiseInv'
<1>1. OneEach' /\ Numbered'
  BY DEF PromiseInv, OneEach, Numbered
<1>2. ASSUME NEW e \in entries, Backed(e) PROVE Backed(e)'
  <2>1. e.letter \in Letters
    BY DEF TypeOK, Entry
  <2>2. sends[e.letter] <= sends'[e.letter]
    BY <2>1
  <2>3. sends[e.letter] \in Nat /\ sends'[e.letter] \in Nat
    BY <2>1 DEF TypeOK
  <2> QED
    BY <1>2, <2>2, <2>3 DEF Backed
<1>3. EntriesBacked'
  BY <1>2 DEF PromiseInv, EntriesBacked
<1> QED
  BY <1>1, <1>3 DEF PromiseInv

\* The goroutines and the transport add to no request and answer nothing that
\* was not asked.
LEMMA ExchangePromise ==
  ASSUME TypeOK, TypeOK', PromiseInv,
         \/ GiveUp \/ Crash
         \/ \E c \in Contacts : ToggleContact(c)
         \/ \E h \in Handlers : Refuse(h) \/ Begin(h) \/ Reply(h) \/ ReplyFails(h)
         \/ \E h \in Handlers : \E x \in todo[h] :
              \/ Replay(h, x) \/ RejectItem(h, x) \/ SendOk(h, x)
              \/ SendUndeliverable(h, x) \/ SendFails(h, x)
              \/ RecordAck(h, x) \/ RecordAckFails(h, x)
  PROVE  PromiseInv'
<1>1. UNCHANGED <<files, entries, letters>> /\ awaits' \subseteq awaits
  <2>1. CASE GiveUp \/ Crash \/ \E c \in Contacts : ToggleContact(c)
    BY <2>1 DEF GiveUp, Crash, ToggleContact, deviceVars, historyVars
  <2>2. CASE \E h \in Handlers : Refuse(h) \/ Begin(h) \/ Reply(h) \/ ReplyFails(h)
    BY <2>2 DEF Refuse, Begin, Reply, ReplyFails, End, deviceVars, historyVars
  <2>3. CASE \E h \in Handlers : \E x \in todo[h] : Replay(h, x) \/ SendFails(h, x)
    BY <2>3 DEF Replay, SendFails, End, deviceVars, historyVars
  <2>4. CASE \E h \in Handlers : \E x \in todo[h] :
               RejectItem(h, x) \/ SendOk(h, x) \/ SendUndeliverable(h, x)
    BY <2>4 DEF RejectItem, SendOk, SendUndeliverable, Decide, deviceVars
  <2>5. CASE \E h \in Handlers : \E x \in todo[h] :
               RecordAck(h, x) \/ RecordAckFails(h, x)
    BY <2>5 DEF RecordAck, RecordAckFails, deviceVars, historyVars
  <2> QED
    BY <2>1, <2>2, <2>3, <2>4, <2>5
<1>2. inAcks' = inAcks \/ \E h \in awaits : inAcks' = acks[h]
  <2>1. CASE GiveUp \/ Crash \/ \E c \in Contacts : ToggleContact(c)
    BY <2>1 DEF GiveUp, Crash, ToggleContact, deviceVars
  <2>2. CASE \E h \in Handlers : Refuse(h) \/ Begin(h) \/ Reply(h) \/ ReplyFails(h)
    BY <2>2 DEF Refuse, Begin, Reply, ReplyFails, deviceVars
  <2>3. CASE \E h \in Handlers : \E x \in todo[h] : Replay(h, x) \/ SendFails(h, x)
    BY <2>3 DEF Replay, SendFails, deviceVars
  <2>4. CASE \E h \in Handlers : \E x \in todo[h] :
               RejectItem(h, x) \/ SendOk(h, x) \/ SendUndeliverable(h, x)
    BY <2>4 DEF RejectItem, SendOk, SendUndeliverable, Decide, deviceVars
  <2>5. CASE \E h \in Handlers : \E x \in todo[h] :
               RecordAck(h, x) \/ RecordAckFails(h, x)
    BY <2>5 DEF RecordAck, RecordAckFails, deviceVars
  <2> QED
    BY <2>1, <2>2, <2>3, <2>4, <2>5
<1>3. \A n \in Letters : sends[n] <= sends'[n]
  <2>1. sends \in [Letters -> Nat]
    BY DEF TypeOK
  <2>2. \/ sends' = sends
        \/ \E h \in Handlers : \E x \in todo[h] :
             sends' = [sends EXCEPT ![x.letter] = @ + 1]
    <3>1. CASE \/ GiveUp \/ Crash \/ \E c \in Contacts : ToggleContact(c)
               \/ \E h \in Handlers : Refuse(h) \/ Begin(h) \/ Reply(h) \/ ReplyFails(h)
      BY <3>1 DEF GiveUp, Crash, ToggleContact, Refuse, Begin, Reply, ReplyFails,
                  historyVars
    <3>2. CASE \E h \in Handlers : \E x \in todo[h] :
                 \/ Replay(h, x) \/ RejectItem(h, x) \/ SendOk(h, x)
                 \/ SendUndeliverable(h, x) \/ SendFails(h, x)
                 \/ RecordAck(h, x) \/ RecordAckFails(h, x)
      BY <3>2 DEF Replay, RejectItem, SendOk, SendUndeliverable, SendFails, RecordAck,
                  RecordAckFails, historyVars
    <3> QED
      BY <3>1, <3>2
  <2>3. \A h \in Handlers : \A x \in todo[h] : x.letter \in Letters
    BY DEF TypeOK, Entry
  <2>4. CASE sends' = sends
    BY <2>1, <2>4
  <2> QED
    BY <2>1, <2>2, <2>3, <2>4, BumpGrows
<1> DEFINE Asked(g) ==
      /\ todo'[g] \subseteq todo[g]
      /\ \A a \in acks'[g] : a \in acks[g] \/ \E x \in todo[g] : a.id = x.id
<1>4. \A g \in Handlers : Asked(g)
  <2>1. CASE UNCHANGED <<todo, acks>>
    BY <2>1
  <2>2. ASSUME NEW h \in Handlers, End(h) PROVE \A g \in Handlers : Asked(g)
    BY <2>2 DEF End, TypeOK
  <2>3. CASE Crash
    BY <2>3 DEF Crash
  <2>4. ASSUME NEW h \in Handlers, NEW x \in todo[h], NEW S,
               todo' = [todo EXCEPT ![h] = @ \ {x}],
               acks' \in {acks, [acks EXCEPT ![h] = @ \cup S]},
               \A a \in S : a.id = x.id
        PROVE  \A g \in Handlers : Asked(g)
    BY <2>4 DEF TypeOK
  <2>5. ASSUME NEW h \in Handlers, NEW x \in todo[h], Replay(h, x)
        PROVE  \A g \in Handlers : Asked(g)
    <3>1. \A a \in Lookup(snap[h], x.id) : a.id = x.id
      BY LookupFacts DEF TypeOK
    <3> QED
      BY <2>4, <2>5, <3>1 DEF Replay
  <2>6. ASSUME NEW h \in Handlers, NEW x \in todo[h],
               RecordAck(h, x) \/ RecordAckFails(h, x)
        PROVE  \A g \in Handlers : Asked(g)
    <3> DEFINE a == [id |-> x.id, status |-> verdict[h]]
    <3>1. /\ todo' = [todo EXCEPT ![h] = @ \ {x}]
          /\ acks' \in {acks, [acks EXCEPT ![h] = @ \cup {a}]}
      BY <2>6 DEF RecordAck, RecordAckFails
    <3>2. a.id = x.id
      OBVIOUS
    <3> HIDE DEF a
    <3> QED
      BY <3>1, <3>2 DEF TypeOK
  <2>7. ASSUME NEW h \in Handlers, NEW x \in todo[h], SendFails(h, x)
        PROVE  \A g \in Handlers : Asked(g)
    <3>1. CASE todo' = [todo EXCEPT ![h] = @ \ {x}] /\ UNCHANGED acks
      BY <2>4, <3>1
    <3> QED
      BY <2>2, <2>7, <3>1 DEF SendFails
  <2> QED
    BY <2>1, <2>2, <2>3, <2>5, <2>6, <2>7
       DEF GiveUp, ToggleContact, Refuse, Begin, Reply, ReplyFails, RejectItem, SendOk,
           SendUndeliverable, Decide, serverVars
<1> HIDE DEF Asked
<1>5. Copies' \subseteq Copies
  BY <1>1, <1>4 DEF Copies, Asked
<1>6. Expected' \subseteq Expected
  <2> SUFFICES ASSUME NEW i \in Expected' PROVE i \in Expected
    OBVIOUS
  <2>1. awaits \subseteq Handlers
    BY DEF TypeOK
  <2>2. ASSUME NEW a \in inAcks', i = a.id PROVE i \in Expected
    BY <1>2, <2>2 DEF Expected
  <2>3. ASSUME NEW g \in awaits', NEW a \in acks'[g], i = a.id PROVE i \in Expected
    BY <1>1, <1>4, <2>1, <2>3 DEF Expected, Asked
  <2>4. ASSUME NEW g \in awaits', NEW x \in todo'[g], i = x.id PROVE i \in Expected
    BY <1>1, <1>4, <2>1, <2>4 DEF Expected, Asked
  <2> QED
    BY <2>2, <2>3, <2>4 DEF Expected
<1> QED
  BY <1>1, <1>3, <1>5, <1>6, ServerPromise

\* BuildRequest asks for what is queued, and what is queued is backed.
LEMMA RequestPromise ==
  ASSUME TypeOK, TypeOK', PromiseInv, NEW h \in Handlers, SendRequest(h)
  PROVE  PromiseInv'
<1>1. /\ UNCHANGED <<files, entries, letters, sends>> /\ awaits' = {h} /\ inAcks' = {}
      /\ todo'[h] = Sendable /\ acks'[h] = {}
      /\ \A g \in Handlers : todo'[g] \subseteq todo[g] \cup entries
  BY DEF SendRequest, DeviceIdle, Sendable, TypeOK, historyVars
<1>2. Copies' \subseteq Copies
  BY <1>1 DEF Copies
<1>3. OneEach' /\ Numbered'
  BY <1>1, <1>2 DEF PromiseInv, OneEach, Numbered
<1>4. Expected' = {x.id : x \in Sendable}
  BY <1>1 DEF Expected
<1>5. EntriesBacked'
  <2> SUFFICES ASSUME NEW e \in entries, e.status = "queued" \/ e.id \in Expected'
               PROVE  Backed(e)'
    BY <1>1 DEF EntriesBacked
  <2>1. e.status = "queued"
    BY <1>4 DEF Sendable, PromiseInv, OneEach
  <2>2. Backed(e)
    BY <2>1 DEF PromiseInv, EntriesBacked
  <2> QED
    BY <1>1, <2>2 DEF Backed
<1> QED
  BY <1>3, <1>5 DEF PromiseInv

\* The facts of a new entry that Add and AddEntryFails share.
LEMMA AddFacts ==
  ASSUME TypeOK, NothingLostInv, PromiseInv, NEW k \in Kinds,
         Add(k) \/ AddEntryFails(k)
  PROVE  LET e == NewEntry(k)
         IN  /\ e.id = highWater + 1 /\ e.letter = letters + 1 /\ e.status = "queued"
             /\ \A f \in Copies : f.id # e.id /\ f.letter # e.letter
             /\ \/ files' = files /\ entries' = entries /\ letters' = letters
                \/ /\ files' = files \cup {e}
                   /\ entries' \in {entries, entries \cup {e}}
                   /\ letters' = letters + 1
             /\ UNCHANGED <<awaits, inAcks, serverVars, sends>>
<1> DEFINE e == NewEntry(k)
<1>1. /\ e.id = highWater + 1 /\ e.letter = letters + 1 /\ e.status = "queued"
      /\ highWater \in Nat /\ letters \in Nat
  BY OutboundAssumptions DEF NewEntry, TypeOK
<1>2. Copies \subseteq Entry
  BY DEF TypeOK, Copies
<1>3. \A f \in Copies : f.id # e.id /\ f.letter # e.letter
  <2> TAKE f \in Copies
  <2>1. f.id \in Nat /\ f.letter \in Nat /\ f.id <= highWater /\ f.letter <= letters
    BY <1>2 DEF Entry, Letters, NothingLostInv, IdsFresh, PromiseInv, Numbered
  <2> QED
    BY <1>1, <2>1
<1>4. Without(files, e.id) = files
  BY <1>3 DEF Without, Copies
<1> HIDE DEF e
<1>5. /\ \/ files' = files /\ entries' = entries /\ letters' = letters
         \/ /\ files' = Without(files, e.id) \cup {e}
            /\ entries' \in {entries, entries \cup {e}}
            /\ letters' = letters + 1
      /\ UNCHANGED <<awaits, inAcks, serverVars, sends>>
  BY DEF Add, AddEntryFails, e
<1> QED
  BY <1>1, <1>3, <1>4, <1>5 DEF e

\* A new letter has a number and an id of its own.
LEMMA AddPromise ==
  ASSUME TypeOK, TypeOK', NothingLostInv, PromiseInv, NEW k \in Kinds,
         Add(k) \/ AddEntryFails(k)
  PROVE  PromiseInv'
<1> DEFINE e == NewEntry(k)
<1> HIDE DEF e
<1>1. /\ e.id = highWater + 1 /\ e.letter = letters + 1 /\ e.status = "queued"
      /\ \A f \in Copies : f.id # e.id /\ f.letter # e.letter
      /\ \/ files' = files /\ entries' = entries /\ letters' = letters
         \/ /\ files' = files \cup {e}
            /\ entries' \in {entries, entries \cup {e}}
            /\ letters' = letters + 1
      /\ UNCHANGED <<awaits, inAcks, serverVars, sends>>
  BY AddFacts DEF e
<1>2. Copies' = Copies \/ (Copies' = Copies \cup {e} /\ letters' = letters + 1)
  BY <1>1 DEF Copies, serverVars
<1>3. files \subseteq Copies /\ entries \subseteq Copies
  BY DEF Copies
<1>4. OneEach'
  BY <1>1, <1>3 DEF PromiseInv, OneEach
<1>5. Numbered'
  <2>1. /\ letters \in Nat /\ letters' \in Nat
        /\ \A f \in Copies : f.letter \in Nat /\ f.letter <= letters
    <3>1. Copies \subseteq Entry
      BY DEF TypeOK, Copies
    <3> QED
      BY <3>1, OutboundAssumptions DEF TypeOK, PromiseInv, Numbered, Entry, Letters
  <2>2. \A f \in Copies' : f.letter <= letters'
    BY <1>1, <1>2, <2>1
  <2>3. \A f, g \in Copies' : f.letter = g.letter => f.id = g.id
    BY <1>1, <1>2 DEF PromiseInv, Numbered
  <2> QED
    BY <2>2, <2>3 DEF Numbered
<1>6. EntriesBacked'
  <2> SUFFICES ASSUME NEW f \in entries', f.status = "queued" \/ f.id \in Expected'
               PROVE  Backed(f)'
    BY DEF EntriesBacked
  <2>1. Expected' = Expected
    BY <1>1 DEF Expected, serverVars
  <2>2. CASE f \in entries
    <3>1. Backed(f)
      BY <2>1, <2>2 DEF PromiseInv, EntriesBacked
    <3> QED
      BY <1>1, <3>1 DEF Backed
  <2>3. CASE f \notin entries
    BY <1>1, <2>3 DEF Backed
  <2> QED
    BY <2>2, <2>3
<1> QED
  BY <1>4, <1>5, <1>6 DEF PromiseInv

\* Nothing but the entry called id changes, on flash or in RAM.
OnlyTouches(id) ==
  /\ \A e \in files : e.id # id => e \in files'
  /\ \A e \in files' : e.id # id => e \in files
  /\ \A e \in entries : e.id # id => e \in entries'
  /\ \A e \in entries' : e.id # id => e \in entries

\* Applying an ack that finds its entry g: a sent one takes the file away, or
\* fails to; a rejection marks the entry, and its file unless the write failed.
LEMMA ResolveFacts ==
  ASSUME TypeOK, NothingLostInv, PromiseInv, NEW a \in inAcks,
         Resolve(a) \/ ResolveFails(a), NEW g \in entries, g.id = a.id
  PROVE  /\ OnlyTouches(a.id)
         /\ Backed(g)
         /\ \A e \in files' \cup entries' : e.id = a.id => e.letter = g.letter
         /\ \/ /\ sends[g.letter] > 0
               /\ entries' \subseteq entries
               /\ \/ \A e \in files' : e.id # a.id
                  \/ files' = files /\ entries' = entries
            \/ /\ \E r \in entries' : r.id = a.id
               /\ \A r \in entries' : r.id = a.id => r.status # "queued"
               /\ \/ files' = files
                  \/ /\ \E r \in files' : r.id = a.id
                     /\ \A r \in files' : r.id = a.id => r \in entries'
<1>1. \A f \in files \cup entries : f.id = a.id => f.letter = g.letter
  BY DEF NothingLostInv, IdsAgree, Copies
<1>2. Backed(g)
  BY DEF PromiseInv, EntriesBacked, Expected
<1>3. CASE a.status = "sent"
  <2>1. /\ files' \in {files, Without(files, a.id)}
        /\ entries' \in {entries, Without(entries, a.id)}
        /\ files' = Without(files, a.id) \/ (files' = files /\ entries' = entries)
    <3>1. CASE Resolve(a)
      BY <1>3, <3>1 DEF Resolve
    <3>2. CASE ResolveFails(a)
      BY <1>3, <3>2 DEF ResolveFails
    <3> QED
      BY <3>1, <3>2
  <2>2. OnlyTouches(a.id)
    BY <2>1 DEF OnlyTouches, Without
  <2>3. files' \subseteq files /\ entries' \subseteq entries
    BY <2>1 DEF Without
  <2>4. sends[g.letter] > 0
    BY <1>3 DEF NothingLostInv, SentMeansTaken, Copies, Answers
  <2>5. (\A e \in files' : e.id # a.id) \/ (files' = files /\ entries' = entries)
    BY <2>1 DEF Without
  <2> QED
    BY <1>1, <1>2, <2>2, <2>3, <2>4, <2>5
<1>4. CASE a.status # "sent"
  <2>1. /\ entries' = Reject(entries, a.id, a.status)
        /\ files' \in {files, Without(files, a.id) \cup {e \in entries' : e.id = a.id}}
    BY <1>4 DEF Resolve, ResolveFails
  <2>2. a.status # "queued"
    BY DEF TypeOK, Ack, AckStatus, Rejects
  <2>3. OneEach
    BY DEF PromiseInv
  <2>4. /\ \A e \in entries' : e.id # a.id => e \in entries
        /\ \A e \in entries : e.id # a.id => e \in entries'
        /\ \A e \in entries' : e.id = a.id => e.status = a.status
        /\ \A e \in entries' : \E f \in entries : e.id = f.id /\ e.letter = f.letter
        /\ \E e \in entries' : e.id = g.id
    BY <2>1, <2>3, RejectFacts
  <2>5. OnlyTouches(a.id)
    BY <2>1, <2>4 DEF OnlyTouches, Without
  <2>6. \A e \in files' \cup entries' : e.id = a.id => e.letter = g.letter
    BY <1>1, <2>1, <2>4 DEF Without
  <2>7. \/ files' = files
        \/ /\ \E r \in files' : r.id = a.id
           /\ \A r \in files' : r.id = a.id => r \in entries'
    BY <2>1, <2>4 DEF Without
  <2> QED
    BY <1>2, <2>2, <2>4, <2>5, <2>6, <2>7
<1> QED
  BY <1>3, <1>4

\* The steps that touch one entry, or copy flash to RAM, keep the invariant.
LEMMA BagPromise ==
  ASSUME TypeOK, TypeOK', NothingLostInv, PromiseInv,
         \/ \E a \in inAcks : Resolve(a) \/ ResolveFails(a)
         \/ \E e \in entries : Discard(e)
         \/ PowerCut \/ AddCounterFails
  PROVE  PromiseInv'
<1>1. /\ UNCHANGED <<serverVars, letters, sends>> /\ awaits' \subseteq awaits
      /\ inAcks' \subseteq inAcks
  BY DEF Resolve, ResolveFails, Discard, PowerCut, AddCounterFails, historyVars
<1>2. Expected' \subseteq Expected
  BY <1>1 DEF Expected, serverVars
<1>3. OneEach'
  <2>1. ASSUME NEW a \in inAcks, Resolve(a) \/ ResolveFails(a) PROVE OneEach'
    <3>1. \A e, f \in entries' : e.id = f.id => e = f
      <4>1. entries' \subseteq entries \/ entries' = Reject(entries, a.id, a.status)
        BY <2>1 DEF Resolve, ResolveFails, Without
      <4> QED
        BY <4>1, RejectFacts DEF PromiseInv, OneEach
    <3>2. \/ files' \subseteq files
          \/ files' = Without(files, a.id) \cup {e \in entries' : e.id = a.id}
      BY <2>1 DEF Resolve, ResolveFails, Without
    <3> QED
      BY <3>1, <3>2 DEF PromiseInv, OneEach, Without
  <2>2. CASE \/ \E e \in entries : Discard(e)
             \/ PowerCut \/ AddCounterFails
    <3>1. files' \subseteq files /\ (entries' \subseteq entries \/ entries' = files)
      BY <2>2 DEF Discard, PowerCut, AddCounterFails, Without
    <3>2. entries' = files => \A e, f \in entries' : e.id = f.id => e = f
      BY DEF PromiseInv, OneEach
    <3> QED
      BY <3>1, <3>2 DEF PromiseInv, OneEach
  <2> QED
    BY <2>1, <2>2
<1>4. \A e \in Copies' : \E f \in Copies : e.id = f.id /\ e.letter = f.letter
  <2>1. ASSUME NEW a \in inAcks, Resolve(a) \/ ResolveFails(a),
               NEW e \in files' \cup entries'
        PROVE  \E f \in Copies : e.id = f.id /\ e.letter = f.letter
    <3>1. CASE \A g \in entries : g.id # a.id
      <4>1. files' \cup entries' \subseteq files \cup entries
        BY <2>1, <3>1 DEF Resolve, ResolveFails
      <4> QED
        BY <4>1 DEF Copies
    <3>2. ASSUME NEW g \in entries, g.id = a.id
          PROVE  \E f \in Copies : e.id = f.id /\ e.letter = f.letter
      <4>1. /\ OnlyTouches(a.id)
            /\ \A f \in files' \cup entries' : f.id = a.id => f.letter = g.letter
        BY <2>1, <3>2, ResolveFacts
      <4> QED
        BY <3>2, <4>1 DEF OnlyTouches, Copies
    <3> QED
      BY <3>1, <3>2
  <2>2. CASE \/ \E e \in entries : Discard(e)
             \/ PowerCut \/ AddCounterFails
    <3>1. files' \subseteq files /\ entries' \subseteq entries \cup files
      BY <2>2 DEF Discard, PowerCut, AddCounterFails, Without
    <3> QED
      BY <1>1, <3>1 DEF Copies, serverVars
  <2>3. \A e \in Copies' : e \in files' \cup entries' \/ e \in Copies
    BY <1>1 DEF Copies, serverVars
  <2> QED
    BY <2>1, <2>2, <2>3
<1>5. Numbered'
  BY <1>1, <1>4 DEF PromiseInv, Numbered
<1>6. EntriesBacked'
  <2> SUFFICES ASSUME NEW e \in entries', e.status = "queued" \/ e.id \in Expected'
               PROVE  Backed(e)'
    BY DEF EntriesBacked
  <2>1. ASSUME NEW a \in inAcks, Resolve(a) \/ ResolveFails(a) PROVE Backed(e)'
    <3>1. CASE \A g \in entries : g.id # a.id
      <4>1. files' = files /\ entries' = entries
        BY <2>1, <3>1 DEF Resolve, ResolveFails
      <4>2. Backed(e)
        BY <1>2, <4>1 DEF PromiseInv, EntriesBacked
      <4> QED
        BY <1>1, <4>1, <4>2 DEF Backed
    <3>2. ASSUME NEW g \in entries, g.id = a.id PROVE Backed(e)'
      <4>1. /\ OnlyTouches(a.id)
            /\ Backed(g)
            /\ \A f \in files' \cup entries' : f.id = a.id => f.letter = g.letter
            /\ \/ sends[g.letter] > 0
               \/ \/ files' = files
                  \/ \E r \in files' : r.id = a.id
        BY <2>1, <3>2, ResolveFacts
      <4>2. CASE e.id = a.id
        BY <1>1, <3>2, <4>1, <4>2 DEF Backed
      <4>3. CASE e.id # a.id
        <5>1. e \in entries
          BY <4>1, <4>3 DEF OnlyTouches
        <5>2. Backed(e)
          BY <1>2, <5>1 DEF PromiseInv, EntriesBacked
        <5> QED
          BY <1>1, <4>1, <4>3, <5>2 DEF Backed, OnlyTouches
      <4> QED
        BY <4>2, <4>3
    <3> QED
      BY <3>1, <3>2
  <2>2. ASSUME NEW g \in entries, Discard(g) PROVE Backed(e)'
    <3>1. /\ entries' \subseteq entries /\ awaits' = {} /\ inAcks' = {}
          /\ g.status # "queued" /\ files' \in {files, Without(files, g.id)}
      BY <2>2 DEF Discard, DeviceIdle, Without
    <3>2. Expected' = {}
      BY <3>1 DEF Expected
    <3>3. e.status = "queued" /\ e.id # g.id
      BY <3>1, <3>2 DEF PromiseInv, OneEach
    <3>4. Backed(e)
      BY <3>1, <3>3 DEF PromiseInv, EntriesBacked
    <3> QED
      BY <1>1, <3>1, <3>3, <3>4 DEF Backed, Without
  <2>3. CASE PowerCut
    BY <2>3 DEF PowerCut, Backed
  <2>4. CASE AddCounterFails
    <3>1. files' = files /\ entries' = entries
      BY <2>4 DEF AddCounterFails
    <3>2. Backed(e)
      BY <1>2, <3>1 DEF PromiseInv, EntriesBacked
    <3> QED
      BY <1>1, <3>1, <3>2 DEF Backed
  <2> QED
    BY <2>1, <2>2, <2>3, <2>4
<1> QED
  BY <1>3, <1>5, <1>6 DEF PromiseInv

\* Every step keeps what the refinement rests on.
LEMMA StepPromise ==
  ASSUME TypeOK, TypeOK', NothingLostInv, PromiseInv, [Next]_vars
  PROVE  PromiseInv'
<1>1. CASE \E k \in Kinds : Add(k) \/ AddEntryFails(k)
  BY <1>1, AddPromise
<1>2. CASE \/ \E a \in inAcks : Resolve(a) \/ ResolveFails(a)
           \/ \E e \in entries : Discard(e)
           \/ PowerCut \/ AddCounterFails
  BY <1>2, BagPromise
<1>3. CASE \E h \in Handlers : SendRequest(h)
  BY <1>3, RequestPromise
<1>4. CASE \/ GiveUp \/ Crash
           \/ \E c \in Contacts : ToggleContact(c)
           \/ \E h \in Handlers : Refuse(h) \/ Begin(h) \/ Reply(h) \/ ReplyFails(h)
           \/ \E h \in Handlers : \E x \in todo[h] :
                \/ Replay(h, x) \/ RejectItem(h, x) \/ SendOk(h, x)
                \/ SendUndeliverable(h, x) \/ SendFails(h, x)
                \/ RecordAck(h, x) \/ RecordAckFails(h, x)
  BY <1>4, ExchangePromise
<1>5. CASE UNCHANGED vars
  BY <1>5 DEF PromiseInv, OneEach, Numbered, EntriesBacked, Backed, Expected, Copies,
              vars, deviceVars, serverVars, historyVars
<1> QED
  BY <1>1, <1>2, <1>3, <1>4, <1>5 DEF Next

\* Flash and RAM agree with the letters written, in every state.
THEOREM PromiseInductive == Spec => []PromiseInv
<1>1. Init => PromiseInv
  BY DEF Init, PromiseInv, OneEach, Numbered, EntriesBacked, Copies
<1>2. /\ TypeOK /\ TypeOK' /\ NothingLostInv /\ PromiseInv /\ [Next]_vars
      => PromiseInv'
  BY StepPromise
<1> QED
  BY <1>1, <1>2, TypeCorrect, NothingLostInductive, PTL DEF Spec

\* A step that touches one letter changes the promise of that letter only.
LEMMA OthersStay ==
  ASSUME NEW n,
         \A e \in files : e.letter # n => e \in files',
         \A e \in files' : e.letter # n => e \in files,
         \A e \in entries : e.letter # n => e \in entries',
         \A e \in entries' : e.letter # n => e \in entries
  PROVE  \A m : m # n => /\ m \in InBag' <=> m \in InBag
                         /\ m \in CameBack' <=> m \in CameBack
<1> SUFFICES ASSUME NEW m, m # n
             PROVE  /\ m \in InBag' <=> m \in InBag
                    /\ m \in CameBack' <=> m \in CameBack
  OBVIOUS
<1>1. m \in InBag' <=> m \in InBag
  BY DEF InBag, LettersOf
<1>2. m \in LettersOf(files)' <=> m \in LettersOf(files)
  BY DEF LettersOf
<1>3. m \in LettersOf(Forgotten)' <=> m \in LettersOf(Forgotten)
  BY DEF LettersOf, Forgotten
<1> QED
  BY <1>1, <1>2, <1>3 DEF CameBack

\* What can become of one letter's promise, spelled out as steps of the promise.
LEMMA OneLetterSteps ==
  ASSUME TypeOK, TypeOK', NEW n \in 1..letters,
         UNCHANGED <<letters, sends>>,
         \A m : m # n => /\ m \in InBag' <=> m \in InBag
                         /\ m \in CameBack' <=> m \in CameBack,
         \/ sends[n] > 0 /\ n \notin InBag' /\ n \notin CameBack'
         \/ n \in CameBack /\ n \notin InBag' /\ n \notin CameBack'
         \/ n \in CameBack' /\ (n \in InBag \cup CameBack \/ sends[n] > 0)
         \/ /\ n \in InBag' \ CameBack' <=> n \in InBag \ CameBack
            /\ n \in CameBack' <=> n \in CameBack
  PROVE  [Promise!Next]_(Promise!vars)
<1> DEFINE held == InBag \ CameBack
<1> DEFINE taken == {m \in Letters : sends[m] > 0}
<1>1. /\ taken' = taken /\ letters' = letters
      /\ \A m : m # n => /\ m \in held' <=> m \in held
                         /\ m \in CameBack' <=> m \in CameBack
  OBVIOUS
<1>2. n \in Letters
  BY OutboundAssumptions DEF TypeOK, Letters
<1>3. CASE sends[n] > 0 /\ n \notin InBag' /\ n \notin CameBack'
  <2>1. held' = held \ {n} /\ CameBack' = CameBack \ {n} /\ n \in taken
    BY <1>1, <1>2, <1>3
  <2> QED
    BY <1>1, <2>1 DEF Promise!Next, Promise!Retire, Promise!vars
<1>4. CASE n \in CameBack /\ n \notin InBag' /\ n \notin CameBack'
  <2>1. held' = held /\ CameBack' = CameBack \ {n}
    BY <1>1, <1>4
  <2> QED
    BY <1>1, <1>4, <2>1 DEF Promise!Next, Promise!TakeBack, Promise!vars
<1>5. CASE n \in CameBack' /\ (n \in InBag \cup CameBack \/ sends[n] > 0)
  <2>1. held' = held \ {n} /\ CameBack' = CameBack \cup {n}
    BY <1>1, <1>5
  <2>2. CASE n \in held \cup taken
    BY <1>1, <2>1, <2>2 DEF Promise!Next, Promise!Return, Promise!vars
  <2>3. CASE n \notin held \cup taken
    <3>1. n \in CameBack
      BY <1>2, <1>5, <2>3
    <3>2. held' = held /\ CameBack' = CameBack
      BY <2>1, <2>3, <3>1
    <3> QED
      BY <1>1, <3>2 DEF Promise!vars
  <2> QED
    BY <2>2, <2>3
<1>6. CASE /\ n \in InBag' \ CameBack' <=> n \in InBag \ CameBack
           /\ n \in CameBack' <=> n \in CameBack
  <2>1. held' = held /\ CameBack' = CameBack
    BY <1>1, <1>6
  <2> QED
    BY <1>1, <2>1 DEF Promise!vars
<1> QED
  BY <1>3, <1>4, <1>5, <1>6

\* A step that touches the one entry called g.id touches one letter.
LEMMA TouchesOneLetter ==
  ASSUME TypeOK, NothingLostInv, PromiseInv, NEW g \in entries,
         OnlyTouches(g.id),
         \A e \in files' \cup entries' : e.id = g.id => e.letter = g.letter
  PROVE  /\ g.letter \in 1..letters
         /\ \A m : m # g.letter => /\ m \in InBag' <=> m \in InBag
                                   /\ m \in CameBack' <=> m \in CameBack
<1> DEFINE n == g.letter
<1>1. n \in 1..letters
  <2>1. g \in Copies /\ g \in Entry
    BY DEF Copies, TypeOK
  <2>2. n \in Nat /\ n >= 1 /\ n <= letters
    BY <2>1 DEF Entry, Letters, PromiseInv, Numbered
  <2> QED
    BY <2>2 DEF TypeOK
<1>2. \A e \in files \cup entries : e.id = g.id => e.letter = n
  BY DEF NothingLostInv, IdsAgree, Copies
<1> HIDE DEF n
<1>3. /\ \A e \in files : e.letter # n => e \in files'
      /\ \A e \in files' : e.letter # n => e \in files
      /\ \A e \in entries : e.letter # n => e \in entries'
      /\ \A e \in entries' : e.letter # n => e \in entries
  BY <1>2 DEF OnlyTouches, n
<1>4. \A m : m # n => /\ m \in InBag' <=> m \in InBag
                      /\ m \in CameBack' <=> m \in CameBack
  BY <1>3, OthersStay
<1> QED
  BY <1>1, <1>4 DEF n

\* Flash has no entry called g.id exactly when it has no copy of g's letter.
LEMMA NoFileNoLetter ==
  ASSUME TypeOK, NothingLostInv, PromiseInv, NEW g \in entries
  PROVE  (\E e \in files : e.id = g.id) <=> g.letter \in LettersOf(files)
BY DEF NothingLostInv, IdsAgree, PromiseInv, Numbered, Copies, LettersOf

\* An ack retires its letter, brings it back, or changes nothing promised.
LEMMA ResolveRefines ==
  ASSUME TypeOK, TypeOK', NothingLostInv, NothingLostInv', PromiseInv, PromiseInv',
         NEW a \in inAcks, Resolve(a) \/ ResolveFails(a)
  PROVE  [Promise!Next]_(Promise!vars)
<1>1. UNCHANGED <<letters, sends>>
  BY DEF Resolve, ResolveFails, historyVars
<1>2. CASE \A g \in entries : g.id # a.id
  <2>1. files' = files /\ entries' = entries
    BY <1>2 DEF Resolve, ResolveFails
  <2>2. InBag' = InBag /\ CameBack' = CameBack
    BY <2>1 DEF InBag, CameBack, Forgotten, LettersOf
  <2> QED
    BY <1>1, <2>2 DEF Promise!vars
<1>3. ASSUME NEW g \in entries, g.id = a.id PROVE [Promise!Next]_(Promise!vars)
  <2> DEFINE n == g.letter
  <2>1. /\ OnlyTouches(a.id)
        /\ Backed(g)
        /\ \A e \in files' \cup entries' : e.id = a.id => e.letter = n
        /\ \/ /\ sends[n] > 0
              /\ entries' \subseteq entries
              /\ \/ \A e \in files' : e.id # a.id
                 \/ files' = files /\ entries' = entries
           \/ /\ \E r \in entries' : r.id = a.id
              /\ \A r \in entries' : r.id = a.id => r.status # "queued"
              /\ \/ files' = files
                 \/ /\ \E r \in files' : r.id = a.id
                    /\ \A r \in files' : r.id = a.id => r \in entries'
    BY <1>3, ResolveFacts
  <2>2. /\ n \in 1..letters
        /\ \A m : m # n => /\ m \in InBag' <=> m \in InBag
                           /\ m \in CameBack' <=> m \in CameBack
    BY <1>3, <2>1, TouchesOneLetter
  <2>3. (\E e \in files : e.id = a.id) <=> n \in LettersOf(files)
    BY <1>3, NoFileNoLetter
  <2>4. \A e \in Copies \cup Copies' : e.id = a.id <=> e.letter = n
    <3>1. g \in Copies
      BY DEF Copies
    <3>2. \A e \in Copies : e.id = a.id <=> e.letter = n
      BY <1>3, <3>1 DEF NothingLostInv, IdsAgree, PromiseInv, Numbered
    <3>3. \A e \in files' \cup entries' : e.id = a.id <=> e.letter = n
      BY <2>1, <3>2 DEF OnlyTouches, Copies
    <3>4. \A e \in Copies' : e \in Copies \/ e \in files' \cup entries'
      BY DEF Copies, Resolve, ResolveFails, serverVars
    <3> QED
      BY <3>2, <3>3, <3>4
  <2>5. files' \cup entries' \subseteq Copies'
    BY DEF Copies
  <2> HIDE DEF n
  <2>6. CASE sends[n] > 0 /\ \A e \in files' : e.id # a.id
    <3>1. n \notin LettersOf(files')
      BY <2>4, <2>5, <2>6 DEF LettersOf
    <3>2. n \notin InBag' /\ n \notin CameBack'
      BY <3>1 DEF InBag, CameBack, LettersOf
    <3> QED
      BY <1>1, <2>2, <2>6, <3>2, OneLetterSteps
  <2>7. CASE files' = files /\ entries' = entries
    <3>1. InBag' = InBag /\ CameBack' = CameBack
      BY <2>7 DEF InBag, CameBack, Forgotten, LettersOf
    <3> QED
      BY <1>1, <2>2, <3>1, OneLetterSteps
  <2>8. CASE /\ \E r \in entries' : r.id = a.id
             /\ \A r \in entries' : r.id = a.id => r.status # "queued"
             /\ \/ files' = files
                \/ /\ \E r \in files' : r.id = a.id
                   /\ \A r \in files' : r.id = a.id => r \in entries'
    <3>1. n \in LettersOf(Forgotten)'
      BY <2>4, <2>5, <2>8 DEF Forgotten, LettersOf
    <3>2. CASE n \in LettersOf(files)'
      <4>1. n \in CameBack'
        BY <3>1, <3>2 DEF CameBack
      <4>2. n \in LettersOf(files) \/ sends[n] > 0
        BY <1>3, <2>1, <2>3 DEF Backed, n
      <4>3. n \in LettersOf(files) => n \in InBag \cup CameBack
        BY DEF CameBack
      <4> QED
        BY <1>1, <2>2, <4>1, <4>2, <4>3, OneLetterSteps
    <3>3. CASE n \notin LettersOf(files)'
      <4>1. files' = files
        BY <2>4, <2>5, <2>8, <3>3 DEF LettersOf
      <4>2. n \notin LettersOf(files)
        BY <3>3, <4>1 DEF LettersOf
      <4>3. n \notin InBag \cup InBag' \cup CameBack \cup CameBack'
        BY <3>3, <4>2 DEF InBag, CameBack, LettersOf
      <4> QED
        BY <1>1, <2>2, <4>3, OneLetterSteps
    <3> QED
      BY <3>2, <3>3
  <2> QED
    BY <2>1, <2>6, <2>7, <2>8 DEF n
<1> QED
  BY <1>2, <1>3

\* Reopening a letter takes it back, also when the removal was not confirmed.
LEMMA DiscardRefines ==
  ASSUME TypeOK, TypeOK', NothingLostInv, PromiseInv, NEW g \in entries, Discard(g)
  PROVE  [Promise!Next]_(Promise!vars)
<1> DEFINE n == g.letter
<1>1. /\ UNCHANGED <<letters, sends>>
      /\ files' \in {files, Without(files, g.id)}
      /\ entries' \in {entries, Without(entries, g.id)}
      /\ files' = files => entries' = entries \/ Without(files, g.id) = files
      /\ g.status # "queued"
  BY DEF Discard
<1>2. OnlyTouches(g.id) /\ files' \subseteq files /\ entries' \subseteq entries
  BY <1>1 DEF OnlyTouches, Without
<1>3. \A e \in files \cup entries : e.id = g.id => e.letter = n
  BY DEF NothingLostInv, IdsAgree, Copies
<1>4. /\ n \in 1..letters
      /\ \A m : m # n => /\ m \in InBag' <=> m \in InBag
                         /\ m \in CameBack' <=> m \in CameBack
  BY <1>2, <1>3, TouchesOneLetter
<1>5. n \in LettersOf(Forgotten)
  BY <1>1 DEF Forgotten, LettersOf
<1>6. (\E e \in files : e.id = g.id) <=> n \in LettersOf(files)
  BY NoFileNoLetter
<1> HIDE DEF n
<1>7. CASE n \in LettersOf(files) /\ files' # files
  <2>1. n \in CameBack
    BY <1>5, <1>7 DEF CameBack
  <2>2. n \notin LettersOf(files)'
    <3>1. \A e \in files : e.letter = n => e.id = g.id
      BY DEF PromiseInv, Numbered, Copies, n
    <3> QED
      BY <1>1, <1>7, <3>1 DEF Without, LettersOf
  <2>3. n \notin InBag' /\ n \notin CameBack'
    BY <2>2 DEF InBag, CameBack, LettersOf
  <2> QED
    BY <1>1, <1>4, <2>1, <2>3, OneLetterSteps
<1>8. CASE n \notin LettersOf(files)
  <2>1. n \notin LettersOf(files)'
    BY <1>2, <1>8 DEF LettersOf
  <2>2. n \notin InBag \cup InBag' \cup CameBack \cup CameBack'
    BY <1>8, <2>1 DEF InBag, CameBack, LettersOf
  <2> QED
    BY <1>1, <1>4, <2>2, OneLetterSteps
<1>9. CASE n \in LettersOf(files) /\ files' = files
  <2>1. entries' = entries
    BY <1>1, <1>6, <1>9 DEF Without
  <2>2. InBag' = InBag /\ CameBack' = CameBack
    BY <1>9, <2>1 DEF InBag, CameBack, Forgotten, LettersOf
  <2> QED
    BY <1>1, <1>4, <2>2, OneLetterSteps
<1> QED
  BY <1>7, <1>8, <1>9

\* A new letter on flash is a letter in the bag, whatever Add reported.
LEMMA AddRefines ==
  ASSUME TypeOK, TypeOK', NothingLostInv, PromiseInv, NEW k \in Kinds,
         Add(k) \/ AddEntryFails(k)
  PROVE  [Promise!Next]_(Promise!vars)
<1> DEFINE e == NewEntry(k)
<1> DEFINE n == letters + 1
<1> HIDE DEF e
<1>1. /\ e.letter = n /\ e.status = "queued"
      /\ \A f \in Copies : f.letter # n
      /\ \/ files' = files /\ entries' = entries /\ letters' = letters
         \/ /\ files' = files \cup {e}
            /\ entries' \in {entries, entries \cup {e}}
            /\ letters' = n
      /\ UNCHANGED sends
  BY AddFacts DEF e
<1> HIDE DEF n
<1>2. CASE files' = files /\ entries' = entries /\ letters' = letters
  <2>1. InBag' = InBag /\ CameBack' = CameBack
    BY <1>2 DEF InBag, CameBack, Forgotten, LettersOf
  <2> QED
    BY <1>1, <1>2, <2>1 DEF Promise!vars
<1>3. CASE /\ files' = files \cup {e}
           /\ entries' \in {entries, entries \cup {e}}
           /\ letters' = n
  <2>1. \A m : m # n => /\ m \in InBag' <=> m \in InBag
                        /\ m \in CameBack' <=> m \in CameBack
    <3>1. /\ \A f \in files : f.letter # n => f \in files'
          /\ \A f \in files' : f.letter # n => f \in files
          /\ \A f \in entries : f.letter # n => f \in entries'
          /\ \A f \in entries' : f.letter # n => f \in entries
      BY <1>1, <1>3
    <3> QED
      BY <3>1, OthersStay
  <2>2. n \notin InBag /\ n \notin CameBack
    BY <1>1 DEF InBag, CameBack, LettersOf, Copies
  <2>3. n \in InBag'
    BY <1>1, <1>3 DEF InBag, LettersOf
  <2>4. n \notin LettersOf(Forgotten)'
    BY <1>1, <1>3 DEF Forgotten, LettersOf, Copies
  <2>5. n \notin CameBack'
    BY <2>3, <2>4 DEF CameBack
  <2>6. /\ (InBag \ CameBack)' = (InBag \ CameBack) \cup {n}
        /\ CameBack' = CameBack
    BY <2>1, <2>2, <2>3, <2>5
  <2>7. Promise!Write
    BY <1>1, <1>3, <2>6 DEF Promise!Write, n
  <2> QED
    BY <2>7 DEF Promise!Next
<1> QED
  BY <1>1, <1>2, <1>3

\* A boot reads flash again, and forgets rejections that never got there.
LEMMA PowerCutRefines ==
  ASSUME TypeOK, NothingLostInv, PromiseInv, PowerCut
  PROVE  [Promise!Next]_(Promise!vars)
<1>1. files' = files /\ entries' = files /\ UNCHANGED <<letters, sends>>
  BY DEF PowerCut, historyVars
<1>2. InBag' = InBag
  BY <1>1 DEF InBag, LettersOf
<1>3. \A e, f \in files : e.letter = f.letter => e = f
  BY DEF PromiseInv, Numbered, OneEach, Copies
<1>4. \A n : n \in CameBack' <=> n \in LettersOf(files) /\ n \notin InBag
  <2>1. \A n \in LettersOf(Forgotten)' : n \notin InBag
    BY <1>1, <1>3 DEF Forgotten, InBag, LettersOf
  <2>2. LettersOf(files)' = LettersOf(files)
    BY <1>1 DEF LettersOf
  <2> QED
    BY <1>2, <2>1, <2>2 DEF CameBack
<1> DEFINE S == CameBack \ CameBack'
<1>5. \A n \in S : n \in InBag
  BY <1>4 DEF CameBack
<1>6. CameBack' \subseteq CameBack
  BY <1>4 DEF CameBack
<1>7. \A n \in InBag : n \notin CameBack'
  BY <1>4
<1>8. /\ (InBag \ CameBack)' = (InBag \ CameBack) \cup S
      /\ CameBack' = CameBack \ S /\ S \in SUBSET CameBack
  BY <1>2, <1>5, <1>6, <1>7
<1> HIDE DEF S
<1>9. Promise!Forget(S)
  BY <1>1, <1>8 DEF Promise!Forget
<1> QED
  BY <1>8, <1>9 DEF Promise!Next

\* The relay takes a letter: one that was written.
LEMMA RelayRefines ==
  ASSUME TypeOK, TypeOK', PromiseInv, NEW h \in Handlers, NEW x \in todo[h],
         UNCHANGED <<files, entries, letters>>,
         sends' \in {sends, [sends EXCEPT ![x.letter] = @ + 1]}
  PROVE  [Promise!Next]_(Promise!vars)
<1> DEFINE n == x.letter
<1>1. InBag' = InBag /\ CameBack' = CameBack
  BY DEF InBag, CameBack, Forgotten, LettersOf
<1>2. n \in Letters /\ n \in 1..letters
  <2>1. x \in Entry /\ x \in Copies
    BY DEF TypeOK, Copies
  <2>2. n \in Letters /\ n <= letters
    BY <2>1 DEF Entry, PromiseInv, Numbered
  <2> QED
    BY <2>2 DEF Letters, TypeOK
<1>3. CASE sends' = sends
  BY <1>1, <1>3 DEF Promise!vars
<1>4. CASE sends' = [sends EXCEPT ![n] = @ + 1]
  <2>1. {m \in Letters : sends[m] > 0}' = {m \in Letters : sends[m] > 0} \cup {n}
    BY <1>2, <1>4 DEF TypeOK
  <2>2. Promise!Deliver(n)
    BY <1>1, <2>1 DEF Promise!Deliver
  <2> QED
    BY <1>2, <2>2 DEF Promise!Next
<1> QED
  BY <1>3, <1>4

\* Every step of the device and of the server is a step of the promise or
\* changes nothing that is promised.
LEMMA StepRefines ==
  ASSUME TypeOK, TypeOK', NothingLostInv, NothingLostInv', PromiseInv, PromiseInv',
         [Next]_vars
  PROVE  [Promise!Next]_(Promise!vars)
<1>1. CASE \E k \in Kinds : Add(k) \/ AddEntryFails(k)
  BY <1>1, AddRefines
<1>2. CASE \E a \in inAcks : Resolve(a) \/ ResolveFails(a)
  BY <1>2, ResolveRefines
<1>3. CASE \E e \in entries : Discard(e)
  BY <1>3, DiscardRefines
<1>4. CASE PowerCut
  BY <1>4, PowerCutRefines
<1>5. ASSUME NEW h \in Handlers, NEW x \in todo[h],
             SendOk(h, x) \/ SendFails(h, x)
      PROVE  [Promise!Next]_(Promise!vars)
  <2>1. /\ UNCHANGED <<files, entries, letters>>
        /\ sends' \in {sends, [sends EXCEPT ![x.letter] = @ + 1]}
    BY <1>5 DEF SendOk, SendFails, Decide, deviceVars
  <2> QED
    BY <2>1, RelayRefines
<1>6. ASSUME UNCHANGED <<files, entries, letters, sends>>
      PROVE  [Promise!Next]_(Promise!vars)
  <2>1. InBag' = InBag /\ CameBack' = CameBack
    BY <1>6 DEF InBag, CameBack, Forgotten, LettersOf
  <2> QED
    BY <1>6, <2>1 DEF Promise!vars
<1>7. CASE \/ GiveUp \/ Crash \/ AddCounterFails
           \/ \E c \in Contacts : ToggleContact(c)
           \/ \E h \in Handlers : \/ SendRequest(h) \/ Refuse(h) \/ Begin(h)
                                  \/ Reply(h) \/ ReplyFails(h)
           \/ UNCHANGED vars
  <2>1. UNCHANGED <<files, entries, letters, sends>>
    BY <1>7 DEF GiveUp, Crash, AddCounterFails, ToggleContact, SendRequest, Refuse,
                Begin, Reply, ReplyFails, vars, deviceVars, historyVars
  <2> QED
    BY <1>6, <2>1
<1>8. CASE \E h \in Handlers : \E x \in todo[h] :
             \/ Replay(h, x) \/ RejectItem(h, x) \/ SendUndeliverable(h, x)
             \/ RecordAck(h, x) \/ RecordAckFails(h, x)
  <2>1. UNCHANGED <<files, entries, letters, sends>>
    BY <1>8 DEF Replay, RejectItem, SendUndeliverable, Decide, RecordAck,
                RecordAckFails, deviceVars, historyVars
  <2> QED
    BY <1>6, <2>1
<1> QED
  BY <1>1, <1>2, <1>3, <1>4, <1>5, <1>7, <1>8 DEF Next

\* The device and the server keep the promise made to the child: a letter put
\* in the bag stays there until the relay has it or it comes back, through every
\* fault, crash and repeated or concurrent request of a partition's life.
THEOREM PromiseKept == Spec => KeepsThePromise
<1>1. Init => Promise!Init
  BY DEF Init, Promise!Init, InBag, CameBack, LettersOf
<1>2. /\ TypeOK /\ TypeOK' /\ NothingLostInv /\ NothingLostInv'
      /\ PromiseInv /\ PromiseInv' /\ [Next]_vars
      => [Promise!Next]_(Promise!vars)
  BY StepRefines
<1> QED
  BY <1>1, <1>2, TypeCorrect, NothingLostInductive, PromiseInductive, PTL
     DEF Spec, KeepsThePromise, Promise!Spec
-----------------------------------------------------------------------------
(* One request at a time: a letter is sent once, and answered one way. *)

\* No two requests overlap: the goroutine of the one before has ended.
Serial == \A g, h \in Handlers : g = h

\* The ring has room for every local id there has been: nothing was evicted.
Remembers == highWater <= RingSize

DistinctIds(r) == \A i, j \in DOMAIN r : r[i].id = r[j].id => i = j

\* The published ring holds one entry per id and whatever an answer said, the disk
\* at least as much; the handler's copy is the ring, and the letter it is about to
\* record is not in it.
RingWork ==
  /\ DistinctIds(ring) /\ DistinctIds(disk)
  /\ Recorded(ring) \subseteq Recorded(disk)
  /\ told \subseteq Recorded(ring)
  /\ \A h \in Handlers :
       /\ pc[h] \in {"items", "record"} => snap[h] = ring
       /\ acks[h] \subseteq Recorded(ring)
       /\ \A x \in todo[h] : Recording(h, x) => ~HasAck(ring, x.id)

\* The server knows, or is about to write down, that the letter called id is sent.
Accounted(id) ==
  \/ HasAck(ring, id)
  \/ \E h \in Handlers : \E x \in todo[h] :
       Recording(h, x) /\ x.id = id /\ verdict[h] = "sent"

\* A letter taken once more than was excused is accounted for by every id a copy
\* of it could be sent under.
SentOnce ==
  \A n \in Letters :
    /\ sends[n] <= 1 + excuses[n]
    /\ sends[n] > excuses[n] =>
         /\ n <= letters
         /\ \A e \in Copies : e.letter = n => Accounted(e.id)

OnceInv == Remembers => RingWork /\ SentOnce

\* A ring of distinct ids is no longer than the largest of them.
LEMMA DistinctLength ==
  ASSUME NEW r \in Seq(Ack), NEW n \in Nat, DistinctIds(r),
         \A a \in Recorded(r) : a.id <= n
  PROVE  Len(r) <= n
<1> DEFINE f == [i \in 1..Len(r) |-> r[i].id]
<1>1. \A i \in 1..Len(r) : r[i] \in Ack /\ r[i] \in Recorded(r)
  BY DEF Recorded
<1>2. \A i \in 1..Len(r) : r[i].id \in 1..n
  BY <1>1 DEF Ack
<1>3. \A i, j \in 1..Len(r) : f[i] = f[j] => i = j
  BY DEF DistinctIds
<1>4. f \in Injection(1..Len(r), 1..n)
  BY <1>2, <1>3 DEF Injection, IsInjective
<1>5. IsFiniteSet(1..n) /\ Cardinality(1..n) <= n
  BY FS_Interval
<1>6. Cardinality(1..Len(r)) = Len(r)
  <2>1. Len(r) \in Nat
    OBVIOUS
  <2> QED BY <2>1, FS_Interval
<1>7. Cardinality(1..Len(r)) <= Cardinality(1..n)
  BY <1>4, <1>5, FS_Injection
<1>8. Cardinality(1..n) \in Nat
  BY <1>5, FS_CardinalityType
<1> QED BY <1>5, <1>6, <1>7, <1>8

\* Recording an id the ring has not seen evicts nothing while the ring is long
\* enough for every id.
LEMMA RecordGrows ==
  ASSUME NEW r \in Seq(Ack), NEW a \in Ack, NEW n \in Nat, n <= RingSize,
         DistinctIds(r), ~HasAck(r, a.id),
         a.id <= n, \A b \in Recorded(r) : b.id <= n
  PROVE  /\ DistinctIds(Record(r, a))
         /\ Recorded(Record(r, a)) = Recorded(r) \cup {a}
<1> DEFINE longer == Append(r, a)
<1>1. /\ longer \in Seq(Ack) /\ Len(longer) = Len(r) + 1 /\ Len(r) \in Nat
      /\ DOMAIN longer = 1..(Len(r) + 1)
      /\ \A i \in 1..Len(r) : longer[i] = r[i]
      /\ longer[Len(r) + 1] = a
  OBVIOUS
<1>2. \A i \in 1..Len(r) : r[i].id # a.id
  BY DEF HasAck
<1> HIDE DEF longer
<1>3. DistinctIds(longer)
  BY <1>1, <1>2 DEF DistinctIds
<1>4. Recorded(longer) = Recorded(r) \cup {a}
  <2>1. \A i \in DOMAIN longer : longer[i] \in Recorded(r) \cup {a}
    BY <1>1 DEF Recorded
  <2>2. \A b \in Recorded(r) : b \in Recorded(longer)
    BY <1>1 DEF Recorded
  <2>3. a \in Recorded(longer)
    BY <1>1 DEF Recorded
  <2> QED BY <2>1, <2>2, <2>3 DEF Recorded
<1>5. Len(longer) <= n
  <2>1. \A b \in Recorded(longer) : b.id <= n
    BY <1>4
  <2> QED BY <1>1, <1>3, <2>1, DistinctLength
<1>6. Record(r, a) = longer
  BY <1>1, <1>5, OutboundAssumptions DEF Record, longer
<1> QED BY <1>3, <1>4, <1>6

\* The oldest item of a request has one id.
LEMMA OldestOne ==
  ASSUME TypeOK, NEW h \in Handlers, NEW x, Oldest(x, todo[h]),
         NEW y, Oldest(y, todo[h])
  PROVE  x.id = y.id
<1>1. x \in Entry /\ y \in Entry
  BY DEF TypeOK, Oldest
<1>2. x.id <= y.id /\ y.id <= x.id
  BY DEF Oldest
<1> QED BY <1>1, <1>2 DEF Entry

\* The device's steps leave the server alone.
LEMMA DeviceRing ==
  ASSUME RingWork, UNCHANGED <<serverVars, told>>
  PROVE  RingWork'
BY DEF RingWork, DistinctIds, Recorded, Recording, Oldest, HasAck, serverVars

\* A goroutine that is not about to record, and stays so, keeps the ring, or
\* leaves with nothing.
LEMMA GoroutineRing ==
  ASSUME TypeOK, TypeOK', RingWork, NEW h \in Handlers,
         ring' = ring, disk' \in {disk, ring},
         told' \in {told, told \cup acks[h]},
         \A g \in Handlers : g # h => /\ pc'[g] = pc[g] /\ todo'[g] = todo[g]
                                      /\ snap'[g] = snap[g] /\ acks'[g] = acks[g],
         pc'[h] # "record",
         pc'[h] = "items" => snap'[h] = ring,
         acks'[h] \subseteq Recorded(ring)
  PROVE  RingWork'
<1>1. told' \subseteq Recorded(ring) /\ DistinctIds(ring') /\ DistinctIds(disk')
  BY DEF RingWork
<1>2. Recorded(ring') \subseteq Recorded(disk')
  BY DEF RingWork
<1>3. ASSUME NEW g \in Handlers
      PROVE  /\ pc'[g] \in {"items", "record"} => snap'[g] = ring'
             /\ acks'[g] \subseteq Recorded(ring')
             /\ \A x \in todo'[g] : Recording(g, x)' => ~HasAck(ring', x.id)
  <2>1. CASE g = h
    BY <2>1 DEF Recording
  <2>2. CASE g # h
    BY <2>2 DEF RingWork, Recording, Oldest
  <2> QED BY <2>1, <2>2
<1> QED BY <1>1, <1>2, <1>3 DEF RingWork

\* The steps of a goroutine before and after its letters.
LEMMA ExchangeRing ==
  ASSUME TypeOK, TypeOK', RingWork, NEW h \in Handlers,
         \/ SendRequest(h) \/ Refuse(h) \/ Begin(h) \/ Reply(h) \/ ReplyFails(h)
         \/ \E x \in todo[h] : Replay(h, x) \/ SendFails(h, x)
  PROVE  RingWork'
<1> DEFINE Others == \A g \in Handlers : g # h =>
                       /\ pc'[g] = pc[g] /\ todo'[g] = todo[g]
                       /\ snap'[g] = snap[g] /\ acks'[g] = acks[g]
<1>1. ASSUME End(h) PROVE /\ Others /\ pc'[h] = "idle" /\ acks'[h] = {}
  BY <1>1 DEF End, TypeOK
<1>2. CASE SendRequest(h)
  <2>1. Others /\ pc'[h] = "begin" /\ acks'[h] = {}
    BY <1>2 DEF SendRequest, TypeOK
  <2>2. UNCHANGED <<ring, disk, told>>
    BY <1>2 DEF SendRequest, historyVars
  <2> QED BY <2>1, <2>2, GoroutineRing
<1>3. CASE Begin(h)
  <2>1. Others /\ pc'[h] = "items" /\ snap'[h] = ring /\ acks'[h] = acks[h]
    BY <1>3 DEF Begin, TypeOK
  <2>2. UNCHANGED <<ring, disk, told>>
    BY <1>3 DEF Begin, historyVars
  <2>3. acks'[h] \subseteq Recorded(ring)
    BY <2>1 DEF RingWork
  <2> QED BY <2>1, <2>2, <2>3, GoroutineRing
<1>4. CASE Refuse(h) \/ Reply(h) \/ ReplyFails(h)
  <2>1. /\ End(h) /\ ring' = ring /\ disk' \in {disk, ring}
        /\ told' \in {told, told \cup acks[h]}
    BY <1>4 DEF Refuse, Reply, ReplyFails, historyVars
  <2> QED BY <1>1, <2>1, GoroutineRing
<1>5. ASSUME NEW x \in todo[h], Replay(h, x) PROVE RingWork'
  <2>1. /\ Others /\ pc'[h] = "items" /\ snap'[h] = snap[h] /\ pc[h] = "items"
        /\ acks'[h] = acks[h] \cup Lookup(snap[h], x.id)
    BY <1>5 DEF Replay, Item, TypeOK
  <2>2. UNCHANGED <<ring, disk, told>>
    BY <1>5 DEF Replay, historyVars
  <2>3. snap[h] = ring /\ acks[h] \subseteq Recorded(ring)
    BY <2>1 DEF RingWork
  <2>4. Lookup(snap[h], x.id) \subseteq Recorded(ring)
    BY <2>3, LookupFacts DEF TypeOK
  <2> QED BY <2>1, <2>2, <2>3, <2>4, GoroutineRing
<1>6. ASSUME NEW x \in todo[h], SendFails(h, x) PROVE RingWork'
  <2>1. UNCHANGED <<ring, disk, told>> /\ pc[h] = "items"
    BY <1>6 DEF SendFails, ToRelay, Item
  <2>2. CASE End(h)
    BY <1>1, <2>1, <2>2, GoroutineRing
  <2>3. CASE ~End(h)
    <3>1. /\ Others /\ pc'[h] = "items" /\ snap'[h] = snap[h] /\ acks'[h] = acks[h]
      BY <1>6, <2>1, <2>3 DEF SendFails, TypeOK
    <3>2. snap[h] = ring /\ acks[h] \subseteq Recorded(ring)
      BY <2>1 DEF RingWork
    <3> QED BY <2>1, <3>1, <3>2, GoroutineRing
  <2> QED BY <2>2, <2>3
<1> QED BY <1>2, <1>3, <1>4, <1>5, <1>6

\* A letter is decided on only if the ring has no answer for it.
LEMMA DecideRing ==
  ASSUME TypeOK, TypeOK', RingWork, NEW h \in Handlers, NEW x \in todo[h],
         RejectItem(h, x) \/ SendOk(h, x) \/ SendUndeliverable(h, x)
  PROVE  RingWork'
<1>1. /\ pc[h] = "items" /\ Oldest(x, todo[h]) /\ ~HasAck(snap[h], x.id)
  BY DEF RejectItem, SendOk, SendUndeliverable, ToRelay, Item
<1>2. \E st : Decide(h, st)
  BY DEF RejectItem, SendOk, SendUndeliverable
<1>3. /\ UNCHANGED <<ring, disk, todo, snap, acks, told>>
      /\ pc' = [pc EXCEPT ![h] = "record"]
  BY <1>2 DEF Decide
<1>4. snap[h] = ring
  BY <1>1 DEF RingWork
<1>5. ASSUME NEW g \in Handlers
      PROVE  /\ pc'[g] \in {"items", "record"} => snap'[g] = ring'
             /\ acks'[g] \subseteq Recorded(ring')
             /\ \A y \in todo'[g] : Recording(g, y)' => ~HasAck(ring', y.id)
  <2>1. CASE g = h
    <3>1. \A y \in todo[h] : Oldest(y, todo[h]) => ~HasAck(ring, y.id)
      BY <1>1, <1>4, OldestOne
    <3> QED BY <1>3, <1>4, <2>1, <3>1 DEF RingWork, Recording, Oldest
  <2>2. CASE g # h
    <3>1. pc'[g] = pc[g]
      BY <1>3, <2>2 DEF TypeOK
    <3> QED BY <1>3, <3>1 DEF RingWork, Recording, Oldest
  <2> QED BY <2>1, <2>2
<1> QED BY <1>3, <1>5 DEF RingWork

\* What recording does to the ring and to its file, while nothing is evicted.
LEMMA RecordFresh ==
  ASSUME TypeOK, NothingLostInv, Remembers, RingWork,
         NEW h \in Handlers, NEW x \in todo[h], Recording(h, x)
  PROVE  LET a == [id |-> x.id, status |-> verdict[h]]
         IN  /\ a \in Ack
             /\ DistinctIds(Record(ring, a))
             /\ Recorded(Record(ring, a)) = Recorded(ring) \cup {a}
<1> DEFINE a == [id |-> x.id, status |-> verdict[h]]
<1>1. a \in Ack /\ a.id = x.id
  BY DEF TypeOK, Entry, Ack
<1>2. x.id <= highWater /\ \A b \in Recorded(ring) : b.id <= highWater
  BY DEF NothingLostInv, IdsFresh, Copies, Answers
<1>3. ~HasAck(ring, x.id)
  BY DEF RingWork
<1> HIDE DEF a
<1>4. highWater \in Nat /\ ring \in Seq(Ack) /\ DistinctIds(ring)
  BY DEF TypeOK, RingWork
<1>5. /\ DistinctIds(Record(ring, a))
      /\ Recorded(Record(ring, a)) = Recorded(ring) \cup {a}
  BY <1>1, <1>2, <1>3, <1>4, RecordGrows DEF Remembers
<1> QED BY <1>1, <1>5 DEF a

\* recordAck adds the one answer, in the ring, its file and the goroutine's copy.
LEMMA RecordRing ==
  ASSUME TypeOK, TypeOK', NothingLostInv, Serial, Remembers, RingWork,
         NEW h \in Handlers, NEW x \in todo[h],
         RecordAck(h, x) \/ RecordAckFails(h, x)
  PROVE  RingWork'
<1> DEFINE a == [id |-> x.id, status |-> verdict[h]]
<1>1. Recording(h, x) /\ pc[h] = "record"
  BY DEF RecordAck, RecordAckFails, Recording
<1>2. /\ a \in Ack
      /\ DistinctIds(Record(ring, a))
      /\ Recorded(Record(ring, a)) = Recorded(ring) \cup {a}
  BY <1>1, RecordFresh
<1>3. /\ pc' = [pc EXCEPT ![h] = "items"] /\ told' = told
      /\ \/ /\ ring' = Record(ring, a) /\ disk' = Record(ring, a)
            /\ snap' = [snap EXCEPT ![h] = Record(snap[h], a)]
            /\ acks' = [acks EXCEPT ![h] = acks[h] \cup {a}]
         \/ /\ ring' = ring /\ disk' \in {disk, Record(ring, a)}
            /\ snap' = snap /\ acks' = acks
  BY DEF RecordAck, RecordAckFails, historyVars
<1> HIDE DEF a
<1>4. snap[h] = ring /\ acks[h] \subseteq Recorded(ring)
  BY <1>1 DEF RingWork
<1>5. \A g \in Handlers : g = h
  BY DEF Serial
<1>6. pc'[h] = "items"
  BY <1>3 DEF TypeOK
<1>7. snap'[h] = ring' /\ acks'[h] \subseteq Recorded(ring')
  BY <1>2, <1>3, <1>4 DEF TypeOK
<1>8. /\ DistinctIds(ring') /\ DistinctIds(disk')
      /\ Recorded(ring') \subseteq Recorded(disk')
      /\ told' \subseteq Recorded(ring')
  BY <1>2, <1>3 DEF RingWork
<1>9. \A y \in todo'[h] : ~Recording(h, y)'
  BY <1>6 DEF Recording
<1> QED BY <1>5, <1>7, <1>8, <1>9 DEF RingWork

\* A restart reads a ring that has all the old one had.
LEMMA CrashRing ==
  ASSUME TypeOK, TypeOK', RingWork, Crash
  PROVE  RingWork'
<1>1. /\ ring' = disk /\ disk' = disk /\ told' = told
      /\ \A g \in Handlers : pc'[g] = "idle" /\ acks'[g] = {}
  BY DEF Crash
<1> QED BY <1>1 DEF RingWork, Recording

\* A step that sends nothing unexcused, and under which a letter accounted for
\* stays so, keeps SentOnce; a letter written by it is not sent yet.
LEMMA QuietOnce ==
  ASSUME TypeOK, TypeOK', SentOnce, letters <= letters',
         \A n \in Letters : /\ sends[n] <= 1 + excuses[n] => sends'[n] <= 1 + excuses'[n]
                            /\ sends'[n] > excuses'[n] => sends[n] > excuses[n],
         \A e \in Copies' :
           \/ e.letter > letters
           \/ sends'[e.letter] > excuses'[e.letter] =>
                \E f \in Copies : /\ e.letter = f.letter
                                  /\ Accounted(f.id) => Accounted(e.id)'
  PROVE  SentOnce'
<1> SUFFICES ASSUME NEW n \in Letters
             PROVE  /\ sends'[n] <= 1 + excuses'[n]
                    /\ sends'[n] > excuses'[n] =>
                         /\ n <= letters'
                         /\ \A e \in Copies' : e.letter = n => Accounted(e.id)'
  BY DEF SentOnce
<1>1. letters \in Nat /\ letters' \in Nat /\ n \in Nat
  BY OutboundAssumptions DEF TypeOK, Letters
<1>2. sends'[n] <= 1 + excuses'[n]
  BY DEF SentOnce
<1>3. ASSUME sends'[n] > excuses'[n]
      PROVE  n <= letters /\ \A f \in Copies : f.letter = n => Accounted(f.id)
  <2>1. sends[n] > excuses[n]
    BY <1>3
  <2> QED BY <2>1 DEF SentOnce
<1>4. ASSUME sends'[n] > excuses'[n], NEW e \in Copies', e.letter = n
      PROVE  Accounted(e.id)'
  <2>1. ~(e.letter > letters)
    BY <1>1, <1>3, <1>4
  <2>2. PICK f \in Copies : e.letter = f.letter /\ (Accounted(f.id) => Accounted(e.id)')
    BY <1>4, <2>1
  <2> QED BY <1>3, <1>4, <2>2
<1>5. n <= letters => n <= letters'
  BY <1>1
<1> QED BY <1>2, <1>3, <1>4, <1>5

\* The device's steps copy letters, or write a new one.
LEMMA DeviceOnce ==
  ASSUME TypeOK, TypeOK', NothingLostInv, PromiseInv, SentOnce,
         \/ \E k \in Kinds : Add(k) \/ AddEntryFails(k)
         \/ \E a \in inAcks : Resolve(a) \/ ResolveFails(a)
         \/ \E e \in entries : Discard(e)
         \/ AddCounterFails \/ PowerCut \/ GiveUp
         \/ \E c \in Contacts : ToggleContact(c)
         \/ UNCHANGED vars
  PROVE  SentOnce'
<1>1. UNCHANGED <<serverVars, sends, excuses>>
  BY DEF Add, AddEntryFails, Resolve, ResolveFails, Discard, AddCounterFails, PowerCut,
         GiveUp, ToggleContact, vars, historyVars
<1>2. \A id : Accounted(id) => Accounted(id)'
  BY <1>1 DEF Accounted, HasAck, Recording, Oldest, serverVars
<1>3. letters <= letters'
  <2>1. letters \in Nat /\ letters' \in {letters, letters + 1}
    BY OutboundAssumptions
       DEF Add, AddEntryFails, Resolve, ResolveFails, Discard, AddCounterFails, PowerCut,
           GiveUp, ToggleContact, vars, historyVars, TypeOK
  <2> QED BY <2>1
<1>4. \A e \in Copies' : \/ e.letter > letters
                         \/ \E f \in Copies : e.letter = f.letter /\ e.id = f.id
  <2>1. ASSUME NEW k \in Kinds, Add(k) \/ AddEntryFails(k),
               NEW e \in Copies', e \notin Copies
        PROVE  e.letter > letters
    <3>1. e = NewEntry(k)
      BY <1>1, <2>1 DEF Add, AddEntryFails, Without, Copies, serverVars
    <3>2. letters \in Nat
      BY OutboundAssumptions DEF TypeOK
    <3> QED BY <3>1, <3>2 DEF NewEntry
  <2>2. ASSUME NEW a \in inAcks, Resolve(a) \/ ResolveFails(a)
        PROVE  \A e \in Copies' : \E f \in Copies : e.letter = f.letter /\ e.id = f.id
    <3>1. entries' \subseteq entries \/ entries' = Reject(entries, a.id, a.status)
      BY <2>2 DEF Resolve, ResolveFails, Without
    <3>2. \A e \in entries' : \E f \in entries : e.id = f.id /\ e.letter = f.letter
      BY <3>1, BagFacts
    <3>3. files' \subseteq files \cup entries'
      BY <2>2 DEF Resolve, ResolveFails, Without
    <3> QED BY <1>1, <3>2, <3>3 DEF Copies, serverVars
  <2>3. CASE \/ \E e \in entries : Discard(e)
             \/ AddCounterFails \/ PowerCut \/ GiveUp
             \/ \E c \in Contacts : ToggleContact(c)
             \/ UNCHANGED vars
    <3>1. files' \subseteq files /\ entries' \subseteq entries \cup files
      BY <2>3 DEF Discard, AddCounterFails, PowerCut, GiveUp, ToggleContact, vars,
                  deviceVars, Without
    <3> QED BY <1>1, <3>1 DEF Copies, serverVars
  <2> QED BY <2>1, <2>2, <2>3
<1> QED BY <1>1, <1>2, <1>3, <1>4, QuietOnce

\* The steps of a goroutine that is not recording: what the others are about to
\* record they still are.
LEMMA GoroutineOnce ==
  ASSUME TypeOK, TypeOK', SentOnce, NEW h \in Handlers, pc[h] # "record",
         ring' = ring, UNCHANGED letters, Copies' \subseteq Copies,
         \A g \in Handlers : g # h => /\ pc'[g] = pc[g] /\ todo'[g] = todo[g]
                                      /\ verdict'[g] = verdict[g],
         \A n \in Letters : /\ sends[n] <= 1 + excuses[n] => sends'[n] <= 1 + excuses'[n]
                            /\ sends'[n] > excuses'[n] => sends[n] > excuses[n]
  PROVE  SentOnce'
<1>1. \A id : Accounted(id) => Accounted(id)'
  <2> SUFFICES ASSUME NEW id, Accounted(id) PROVE Accounted(id)'
    OBVIOUS
  <2>1. CASE HasAck(ring, id)
    BY <2>1 DEF Accounted
  <2>2. ASSUME NEW g \in Handlers, NEW x \in todo[g], Recording(g, x), x.id = id,
               verdict[g] = "sent"
        PROVE  Accounted(id)'
    <3>1. g # h
      BY <2>2 DEF Recording
    <3>2. x \in todo'[g] /\ Recording(g, x)' /\ verdict'[g] = "sent"
      BY <2>2, <3>1 DEF Recording, Oldest
    <3> QED BY <2>2, <3>2 DEF Accounted
  <2> QED BY <2>1, <2>2 DEF Accounted
<1>2. letters <= letters'
  BY OutboundAssumptions DEF TypeOK
<1> QED BY <1>1, <1>2, QuietOnce

\* A send that fails is excused, if the relay took the letter; the other steps of
\* a goroutine that has decided nothing send nothing.
LEMMA ExchangeOnce ==
  ASSUME TypeOK, TypeOK', SentOnce, NEW h \in Handlers,
         \/ SendRequest(h) \/ Refuse(h) \/ Begin(h) \/ Reply(h) \/ ReplyFails(h)
         \/ \E x \in todo[h] : \/ Replay(h, x) \/ SendFails(h, x)
                               \/ RejectItem(h, x) \/ SendUndeliverable(h, x)
  PROVE  SentOnce'
<1> DEFINE Others == \A g \in Handlers : g # h =>
                       /\ pc'[g] = pc[g] /\ todo'[g] = todo[g]
                       /\ verdict'[g] = verdict[g]
           Excused == \A n \in Letters :
                        /\ sends[n] <= 1 + excuses[n] => sends'[n] <= 1 + excuses'[n]
                        /\ sends'[n] > excuses'[n] => sends[n] > excuses[n]
           Idle == /\ pc[h] # "record" /\ ring' = ring
                   /\ UNCHANGED <<files, entries, letters>>
           Asked == \A g \in Handlers : todo'[g] \subseteq todo[g] \cup entries
<1>1. ASSUME Idle, Asked PROVE Copies' \subseteq Copies
  BY <1>1 DEF Copies
<1>2. ASSUME End(h), verdict' = verdict PROVE Others /\ Asked
  BY <1>2 DEF End, TypeOK
<1>3. ASSUME sends' = sends, excuses' = excuses PROVE Excused
  BY <1>3
<1>4. CASE SendRequest(h)
  <2>1. Idle /\ sends' = sends /\ excuses' = excuses
    BY <1>4 DEF SendRequest, historyVars
  <2>2. Others /\ Asked
    BY <1>4 DEF SendRequest, Sendable, TypeOK
  <2>3. Excused /\ Copies' \subseteq Copies
    BY <1>1, <1>3, <2>1, <2>2
  <2> QED BY <2>1, <2>2, <2>3, GoroutineOnce
<1>5. CASE Refuse(h) \/ Reply(h) \/ ReplyFails(h)
  <2>1. Idle /\ sends' = sends /\ excuses' = excuses /\ End(h) /\ verdict' = verdict
    BY <1>5 DEF Refuse, Reply, ReplyFails, historyVars
  <2>2. Excused /\ Copies' \subseteq Copies /\ Others
    BY <1>1, <1>2, <1>3, <2>1
  <2> QED BY <2>1, <2>2, GoroutineOnce
<1>6. CASE Begin(h)
  <2>1. Idle /\ sends' = sends /\ excuses' = excuses
    BY <1>6 DEF Begin, deviceVars, historyVars
  <2>2. Others /\ Asked
    BY <1>6 DEF Begin, TypeOK
  <2>3. Excused /\ Copies' \subseteq Copies
    BY <1>1, <1>3, <2>1, <2>2
  <2> QED BY <2>1, <2>2, <2>3, GoroutineOnce
<1>7. ASSUME NEW x \in todo[h], Replay(h, x) PROVE SentOnce'
  <2>1. Idle /\ sends' = sends /\ excuses' = excuses
    BY <1>7 DEF Replay, Item, deviceVars, historyVars
  <2>2. Others /\ Asked
    BY <1>7 DEF Replay, TypeOK
  <2>3. Excused /\ Copies' \subseteq Copies
    BY <1>1, <1>3, <2>1, <2>2
  <2> QED BY <2>1, <2>2, <2>3, GoroutineOnce
<1>8. ASSUME NEW x \in todo[h], NEW st, Decide(h, st), Item(h, x), sends' = sends
      PROVE  SentOnce'
  <2>1. Idle /\ excuses' = excuses
    BY <1>8 DEF Decide, Item, deviceVars
  <2>2. Others /\ Asked
    BY <1>8 DEF Decide, TypeOK
  <2>3. Excused /\ Copies' \subseteq Copies
    BY <1>1, <1>3, <1>8, <2>1, <2>2
  <2> QED BY <2>1, <2>2, <2>3, GoroutineOnce
<1>9. ASSUME NEW x \in todo[h], SendFails(h, x) PROVE SentOnce'
  <2>1. Idle /\ verdict' = verdict
    BY <1>9 DEF SendFails, ToRelay, Item
  <2>2. Others /\ Asked
    <3>1. CASE End(h)
      BY <1>2, <2>1, <3>1
    <3>2. CASE todo' = [todo EXCEPT ![h] = @ \ {x}] /\ UNCHANGED <<pc, awaits, snap, acks>>
      BY <2>1, <3>2 DEF TypeOK
    <3> QED BY <1>9, <3>1, <3>2 DEF SendFails
  <2>3. Excused
    <3>1. \/ sends' = sends /\ excuses' = excuses
          \/ /\ sends' = [sends EXCEPT ![x.letter] = @ + 1]
             /\ excuses' = [excuses EXCEPT ![x.letter] = @ + 1]
      BY <1>9 DEF SendFails
    <3>2. sends \in [Letters -> Nat] /\ excuses \in [Letters -> Nat]
      BY DEF TypeOK
    <3> QED BY <3>1, <3>2
  <2>4. Copies' \subseteq Copies
    BY <1>1, <2>1, <2>2
  <2> QED BY <2>1, <2>2, <2>3, <2>4, GoroutineOnce
<1>10. CASE \E x \in todo[h] : RejectItem(h, x) \/ SendUndeliverable(h, x)
  BY <1>8, <1>10 DEF RejectItem, SendUndeliverable, ToRelay
<1> QED BY <1>4, <1>5, <1>6, <1>7, <1>9, <1>10

\* The relay takes a letter: it was not accounted for, and from now on every copy
\* of it is about to be.
LEMMA SendOnce ==
  ASSUME TypeOK, TypeOK', PromiseInv, Serial, RingWork, SentOnce,
         NEW h \in Handlers, NEW x \in todo[h], SendOk(h, x)
  PROVE  SentOnce'
<1>1. /\ pc[h] = "items" /\ Oldest(x, todo[h]) /\ ~HasAck(snap[h], x.id)
      /\ sends' = [sends EXCEPT ![x.letter] = @ + 1]
      /\ Decide(h, "sent")
  BY DEF SendOk, ToRelay, Item
<1>2. /\ pc'[h] = "record" /\ verdict'[h] = "sent" /\ todo' = todo /\ ring' = ring
      /\ excuses' = excuses /\ letters' = letters
      /\ UNCHANGED <<files, entries>>
  BY <1>1 DEF Decide, TypeOK, deviceVars
<1>3. Copies' = Copies /\ x \in Copies
  BY <1>2 DEF Copies
<1>4. x.letter \in Letters /\ sends \in [Letters -> Nat] /\ excuses \in [Letters -> Nat]
  BY DEF TypeOK, Entry
<1>5. ~Accounted(x.id)
  <2>1. ~HasAck(ring, x.id)
    BY <1>1 DEF RingWork
  <2> QED BY <1>1, <2>1 DEF Accounted, Recording, Serial
<1>6. ~(sends[x.letter] > excuses[x.letter])
  BY <1>3, <1>4, <1>5 DEF SentOnce
<1>7. Accounted(x.id)'
  <2>1. Recording(h, x)'
    BY <1>1, <1>2 DEF Recording, Oldest
  <2> QED BY <1>2, <2>1 DEF Accounted
<1>8. \A id : HasAck(ring, id) => Accounted(id)'
  BY <1>2 DEF Accounted, HasAck
<1>9. \A id : Accounted(id) => HasAck(ring, id)
  BY <1>1 DEF Accounted, Recording, Serial
<1> SUFFICES ASSUME NEW n \in Letters
             PROVE  /\ sends'[n] <= 1 + excuses'[n]
                    /\ sends'[n] > excuses'[n] =>
                         /\ n <= letters'
                         /\ \A e \in Copies' : e.letter = n => Accounted(e.id)'
  BY DEF SentOnce
<1>10. CASE n = x.letter
  <2>1. sends'[n] <= 1 + excuses'[n]
    BY <1>1, <1>2, <1>4, <1>6, <1>10
  <2>2. n <= letters'
    BY <1>2, <1>3, <1>10 DEF PromiseInv, Numbered
  <2>3. \A e \in Copies' : e.letter = n => e.id = x.id
    BY <1>3, <1>10 DEF PromiseInv, Numbered
  <2> QED BY <1>7, <2>1, <2>2, <2>3
<1>11. CASE n # x.letter
  <2>1. sends'[n] = sends[n] /\ excuses'[n] = excuses[n]
    BY <1>1, <1>2, <1>4, <1>11
  <2>2. /\ sends[n] <= 1 + excuses[n]
        /\ sends[n] > excuses[n] =>
             /\ n <= letters
             /\ \A e \in Copies : e.letter = n => Accounted(e.id)
    BY DEF SentOnce
  <2> QED BY <1>2, <1>3, <1>8, <1>9, <2>1, <2>2
<1> QED BY <1>10, <1>11

\* recordAck makes the account durable; one that fails excuses the next send.
LEMMA RecordOnce ==
  ASSUME TypeOK, TypeOK', NothingLostInv, Serial, Remembers, RingWork, SentOnce,
         NEW h \in Handlers, NEW x \in todo[h],
         RecordAck(h, x) \/ RecordAckFails(h, x)
  PROVE  SentOnce'
<1> DEFINE a == [id |-> x.id, status |-> verdict[h]]
<1>1. Recording(h, x) /\ pc[h] = "record" /\ Oldest(x, todo[h])
  BY DEF RecordAck, RecordAckFails, Recording
<1>2. a.id = x.id /\ Recorded(Record(ring, a)) = Recorded(ring) \cup {a}
  BY <1>1, RecordFresh
<1>3. /\ todo' = [todo EXCEPT ![h] = @ \ {x}]
      /\ UNCHANGED <<files, entries, sends, letters>>
      /\ \/ ring' = Record(ring, a) /\ excuses' = excuses
         \/ /\ ring' = ring
            /\ IF verdict[h] = "sent"
               THEN excuses' = [excuses EXCEPT ![x.letter] = @ + 1]
               ELSE excuses' = excuses
  BY DEF RecordAck, RecordAckFails, deviceVars, historyVars
<1> HIDE DEF a
<1>4. Copies' \subseteq Copies /\ x \in Copies
  BY <1>3 DEF Copies, TypeOK
<1>5. \A r, id : HasAck(r, id) <=> \E b \in Recorded(r) : b.id = id
  BY DEF HasAck, Recorded
<1>6. x.letter \in Letters /\ sends \in [Letters -> Nat] /\ excuses \in [Letters -> Nat]
  BY DEF TypeOK, Entry
<1>7. \A n \in Letters : /\ sends[n] <= 1 + excuses[n] => sends'[n] <= 1 + excuses'[n]
                         /\ sends'[n] > excuses'[n] => sends[n] > excuses[n]
  BY <1>3, <1>6
<1>8. \A id : Accounted(id) => HasAck(ring, id) \/ (id = x.id /\ verdict[h] = "sent")
  BY <1>1, OldestOne DEF Accounted, Recording, Serial
<1>9. \A e \in Copies' : sends'[e.letter] > excuses'[e.letter] =>
        (Accounted(e.id) => Accounted(e.id)')
  <2> SUFFICES ASSUME NEW e \in Copies', sends'[e.letter] > excuses'[e.letter],
                      Accounted(e.id)
               PROVE  HasAck(ring', e.id)
    BY DEF Accounted
  <2>1. CASE ring' = Record(ring, a)
    BY <1>2, <1>5, <1>8, <2>1
  <2>2. CASE ring' = ring /\ e.id # x.id
    BY <1>8, <2>2
  <2>3. CASE ring' = ring /\ e.id = x.id /\ verdict[h] # "sent"
    BY <1>8, <2>3
  <2>4. CASE /\ e.id = x.id /\ verdict[h] = "sent"
             /\ excuses' = [excuses EXCEPT ![x.letter] = @ + 1]
    <3>1. e.letter = x.letter
      BY <1>4, <2>4 DEF NothingLostInv, IdsAgree
    <3>2. sends[x.letter] <= 1 + excuses[x.letter]
      BY <1>6 DEF SentOnce
    <3>3. sends'[x.letter] = sends[x.letter] /\ excuses'[x.letter] = excuses[x.letter] + 1
      BY <1>3, <1>6, <2>4
    <3> QED BY <1>6, <3>1, <3>2, <3>3
  <2> QED BY <1>3, <2>1, <2>2, <2>3, <2>4
<1>10. letters <= letters'
  BY <1>3, OutboundAssumptions DEF TypeOK
<1>11. \A e \in Copies' : sends'[e.letter] > excuses'[e.letter] =>
         \E f \in Copies : e.letter = f.letter /\ (Accounted(f.id) => Accounted(e.id)')
  BY <1>4, <1>9
<1> QED BY <1>7, <1>10, <1>11, QuietOnce

\* A crash with a "sent" not yet recorded excuses that letter; what is recorded
\* is on disk.
LEMMA CrashOnce ==
  ASSUME TypeOK, TypeOK', NothingLostInv, RingWork, SentOnce, Crash
  PROVE  SentOnce'
<1> DEFINE Caught(n) == {h \in Handlers : /\ verdict[h] = "sent"
                                          /\ \E x \in todo[h] :
                                               /\ x.letter = n
                                               /\ Recording(h, x)}
<1>1. /\ excuses' = [n \in Letters |-> excuses[n] + Cardinality(Caught(n))]
      /\ ring' = disk /\ UNCHANGED <<files, entries, sends, letters>>
      /\ todo' = [h \in Handlers |-> {}]
  BY DEF Crash, deviceVars
<1>2. \A n : IsFiniteSet(Caught(n)) /\ Cardinality(Caught(n)) \in Nat
  <2>1. \A n : Caught(n) \in SUBSET Handlers
    OBVIOUS
  <2>2. \A P \in SUBSET Handlers : IsFiniteSet(P) /\ Cardinality(P) \in Nat
    BY FS_Subset, FS_CardinalityType, OutboundAssumptions
  <2> HIDE DEF Caught
  <2> QED BY <2>1, <2>2
<1>3. \A n \in Letters : sends[n] \in Nat /\ excuses[n] \in Nat
  BY DEF TypeOK
<1>4. \A n \in Letters : Caught(n) # {} => Cardinality(Caught(n)) # 0
  BY <1>2, FS_EmptySet
<1>5. Copies' \subseteq Copies
  BY <1>1 DEF Copies
<1>6. \A n \in Letters : /\ sends[n] <= 1 + excuses[n] => sends'[n] <= 1 + excuses'[n]
                         /\ sends'[n] > excuses'[n] => sends[n] > excuses[n]
  <2> HIDE DEF Caught
  <2> QED BY <1>1, <1>2, <1>3
<1>7. \A e \in Copies' : sends'[e.letter] > excuses'[e.letter] =>
        (Accounted(e.id) => Accounted(e.id)')
  <2> SUFFICES ASSUME NEW e \in Copies', sends'[e.letter] > excuses'[e.letter],
                      Accounted(e.id)
               PROVE  HasAck(ring', e.id)
    BY DEF Accounted
  <2>1. e.letter \in Letters
    BY DEF TypeOK, Copies, Entry
  <2>2. CASE HasAck(ring, e.id)
    <3>1. \A r, id : HasAck(r, id) <=> \E b \in Recorded(r) : b.id = id
      BY DEF HasAck, Recorded
    <3> QED BY <1>1, <2>2, <3>1 DEF RingWork
  <2>3. ASSUME NEW h \in Handlers, NEW x \in todo[h], Recording(h, x), x.id = e.id,
               verdict[h] = "sent"
        PROVE  FALSE
    <3>1. x.letter = e.letter
      BY <1>5, <2>3 DEF Copies, NothingLostInv, IdsAgree
    <3>2. Caught(e.letter) # {}
      BY <2>3, <3>1
    <3>3. Cardinality(Caught(e.letter)) # 0
      BY <1>4, <2>1, <3>2
    <3>4. sends[e.letter] <= 1 + excuses[e.letter]
      BY <2>1 DEF SentOnce
    <3> HIDE DEF Caught
    <3>5. excuses'[e.letter] = excuses[e.letter] + Cardinality(Caught(e.letter))
      BY <1>1, <2>1
    <3>6. sends'[e.letter] = sends[e.letter]
      BY <1>1
    <3> QED BY <1>2, <1>3, <2>1, <3>3, <3>4, <3>5, <3>6
  <2> QED BY <2>2, <2>3 DEF Accounted
<1>8. letters <= letters'
  BY <1>1, OutboundAssumptions DEF TypeOK
<1>9. \A e \in Copies' : sends'[e.letter] > excuses'[e.letter] =>
        \E f \in Copies : e.letter = f.letter /\ (Accounted(f.id) => Accounted(e.id)')
  BY <1>5, <1>7
<1> QED BY <1>6, <1>8, <1>9, QuietOnce

\* The device's ids only rise.
LEMMA IdsRise ==
  ASSUME TypeOK, TypeOK', NothingLostInv, [Next]_vars
  PROVE  highWater <= highWater'
<1>1. highWater' \in {highWater, highWater + 1, counter}
  <2>1. CASE \/ \E k \in Kinds : Add(k) \/ AddEntryFails(k)
             \/ AddCounterFails \/ PowerCut \/ GiveUp
             \/ \E a \in inAcks : Resolve(a) \/ ResolveFails(a)
             \/ \E e \in entries : Discard(e)
    BY <2>1 DEF Add, AddEntryFails, AddCounterFails, PowerCut, GiveUp, Resolve,
                ResolveFails, Discard
  <2>2. CASE \/ \E h \in Handlers : \/ SendRequest(h) \/ Refuse(h) \/ Begin(h)
                                    \/ Reply(h) \/ ReplyFails(h)
             \/ Crash \/ UNCHANGED vars
             \/ \E c \in Contacts : ToggleContact(c)
    BY <2>2 DEF SendRequest, Refuse, Begin, Reply, ReplyFails, Crash, ToggleContact,
                vars, deviceVars
  <2>3. CASE \E h \in Handlers : \E x \in todo[h] :
               \/ Replay(h, x) \/ RejectItem(h, x) \/ SendOk(h, x)
               \/ SendUndeliverable(h, x) \/ SendFails(h, x)
               \/ RecordAck(h, x) \/ RecordAckFails(h, x)
    BY <2>3 DEF Replay, RejectItem, SendOk, SendUndeliverable, SendFails, RecordAck,
                RecordAckFails, Decide, deviceVars
  <2> QED BY <2>1, <2>2, <2>3 DEF Next
<1>2. highWater \in Nat /\ counter \in Nat /\ highWater <= counter
  BY DEF TypeOK, NothingLostInv, IdsFresh
<1> QED BY <1>1, <1>2

\* Every step keeps both parts, as long as the ring is long enough.
LEMMA StepOnce ==
  ASSUME TypeOK, TypeOK', NothingLostInv, PromiseInv, Serial, OnceInv, [Next]_vars
  PROVE  OnceInv'
<1> SUFFICES ASSUME Remembers' PROVE RingWork' /\ SentOnce'
  BY DEF OnceInv
<1>1. Remembers /\ RingWork /\ SentOnce
  <2>1. highWater \in Nat /\ highWater' \in Nat /\ RingSize \in Nat
    BY OutboundAssumptions DEF TypeOK
  <2>2. highWater <= highWater'
    BY IdsRise
  <2> QED BY <2>1, <2>2 DEF Remembers, OnceInv
<1>2. CASE \/ \E k \in Kinds : Add(k) \/ AddEntryFails(k)
           \/ \E a \in inAcks : Resolve(a) \/ ResolveFails(a)
           \/ \E e \in entries : Discard(e)
           \/ AddCounterFails \/ PowerCut \/ GiveUp
           \/ \E c \in Contacts : ToggleContact(c)
           \/ UNCHANGED vars
  <2>1. UNCHANGED <<serverVars, told>>
    BY <1>2 DEF Add, AddEntryFails, Resolve, ResolveFails, Discard, AddCounterFails,
                PowerCut, GiveUp, ToggleContact, vars, historyVars
  <2> QED BY <1>1, <1>2, <2>1, DeviceRing, DeviceOnce
<1>3. ASSUME NEW h \in Handlers,
             \/ SendRequest(h) \/ Refuse(h) \/ Begin(h) \/ Reply(h) \/ ReplyFails(h)
             \/ \E x \in todo[h] : Replay(h, x) \/ SendFails(h, x)
      PROVE  RingWork' /\ SentOnce'
  BY <1>1, <1>3, ExchangeRing, ExchangeOnce
<1>4. ASSUME NEW h \in Handlers, NEW x \in todo[h],
             RejectItem(h, x) \/ SendOk(h, x) \/ SendUndeliverable(h, x)
      PROVE  RingWork' /\ SentOnce'
  BY <1>1, <1>4, DecideRing, ExchangeOnce, SendOnce
<1>5. ASSUME NEW h \in Handlers, NEW x \in todo[h],
             RecordAck(h, x) \/ RecordAckFails(h, x)
      PROVE  RingWork' /\ SentOnce'
  BY <1>1, <1>5, RecordRing, RecordOnce
<1>6. CASE Crash
  BY <1>1, <1>6, CrashRing, CrashOnce
<1> QED BY <1>2, <1>3, <1>4, <1>5, <1>6 DEF Next

\* With one request at a time, and while the server's ring is long enough for
\* every local id there has been, the ring has one entry per id and every answer
\* there was, and what it does not have was not sent but with an excuse.
THEOREM OnceInductive == Serial => (Spec => []OnceInv)
<1> SUFFICES ASSUME Serial PROVE Spec => []OnceInv
  OBVIOUS
<1>1. Init => OnceInv
  <2> SUFFICES ASSUME Init PROVE RingWork /\ SentOnce
    BY DEF OnceInv
  <2>1. RingWork
    BY DEF Init, RingWork, DistinctIds, Recorded
  <2>2. SentOnce
    BY DEF Init, SentOnce
  <2> QED BY <2>1, <2>2
<1>2. /\ TypeOK /\ TypeOK' /\ NothingLostInv /\ PromiseInv /\ OnceInv /\ [Next]_vars
      => OnceInv'
  BY StepOnce
<1> QED BY <1>1, <1>2, TypeCorrect, NothingLostInductive, PromiseInductive, PTL DEF Spec

\* Under the same conditions the relay is handed a letter again only after a fault
\* that left the server without a record of the send (processOutbound asks the ring
\* first).
THEOREM RepeatsExcused == Serial => (Spec => [](Remembers => RepeatsAreExcused))
<1>1. OnceInv => (Remembers => RepeatsAreExcused)
  BY DEF OnceInv, SentOnce, RepeatsAreExcused
<1> QED BY <1>1, OnceInductive, PTL

\* And one local id is answered with one terminal status for ever, however often
\* the device asks (processOutbound repeats the recorded ack).
THEOREM OneAnswerEach == Serial => (Spec => [](Remembers => OneTerminalAck))
<1>1. OnceInv => (Remembers => OneTerminalAck)
  BY DEF OnceInv, RingWork, OneTerminalAck, DistinctIds, Recorded
<1> QED BY <1>1, OnceInductive, PTL
=============================================================================
