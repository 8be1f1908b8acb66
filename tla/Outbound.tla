------------------------------ MODULE Outbound ------------------------------
(***************************************************************************)
(* An outbound letter's way from the device's bag to the mail relay and    *)
(* the ack's way back: the device's FileOutbox and the ack step of its     *)
(* sync engine (firmware/chaski/components/store, .../syncengine), the     *)
(* server's processOutbound (internal/syncsvc) and the ack ring kept in    *)
(* state.json (internal/state).                                            *)
(*                                                                         *)
(* The device may lose power and the server may crash between any two      *)
(* steps, a durable write may fail with or without having reached the      *)
(* medium, the relay may take a letter and still be heard as failing, and  *)
(* an answer may be lost while its request is still being worked on.       *)
(*                                                                         *)
(* A letter is its number in the order the child wrote them.  Its local id *)
(* is what the device calls it on the wire: the two differ once the        *)
(* partition that keeps the id counter has been formatted.                 *)
(***************************************************************************)
EXTENDS Naturals, Sequences, FiniteSets

CONSTANTS
  Contacts,     \* contact ids of the server's table
  NoContact,    \* a contact id the table does not have (or c_sys)
  Kinds,        \* what the child may write: [to, valid] records
  Handlers,     \* request goroutines of the server
  OutboxCap,    \* kOutboxCap: letters waiting for the runner
  RingSize,     \* AckRingSize
  MaxLetters,   \* bound: letters the child writes
  MaxIds,       \* bound: local ids handed out, burnt ones included
  MaxExcuses,   \* bound: per letter, faults that cost a repeated send
  FlashFails    \* may a flash write or removal of the device fail

ASSUME OutboundAssumptions ==
  /\ NoContact \notin Contacts
  /\ Kinds \in SUBSET [to : Contacts \cup {NoContact}, valid : BOOLEAN]
  /\ IsFiniteSet(Handlers)
  /\ OutboxCap \in Nat \ {0}
  /\ RingSize \in Nat \ {0}
  /\ MaxLetters \in Nat
  /\ MaxIds \in Nat
  /\ MaxExcuses \in Nat
  /\ FlashFails \in BOOLEAN

VARIABLES
  \* the device
  files,      \* outbox entries on flash
  entries,    \* the outbox's RAM copy, entries_
  counter,    \* the local_id file
  highWater,  \* high_water_, its RAM copy
  awaits,     \* the goroutine whose answer the device is waiting for, if any
  inAcks,     \* acks of the answer not resolved yet
  \* the server
  ring,       \* the published ack ring
  disk,       \* the ack ring in state.json
  pc,         \* per goroutine: "idle", "begin", "items" or "record"
  todo,       \* items of its request not handled yet
  snap,       \* its copy of the ring
  acks,       \* acks to ship
  verdict,    \* terminal status of the item being recorded
  active,     \* the active contacts
  \* history, read by the properties and the bounds only
  letters,    \* letters written so far
  composed,   \* letters whose Add returned true
  takenBack,  \* rejected letters the child reopened
  wiped,      \* letters on the partition when it was formatted
  sends,      \* how often the relay took each letter
  excuses,    \* faults after which a repeated send is owed
  told        \* acks put in an answer

deviceVars == <<files, entries, counter, highWater, awaits, inAcks>>
serverVars == <<ring, disk, pc, todo, snap, acks, verdict>>
historyVars == <<letters, composed, takenBack, wiped, sends, excuses, told>>
vars == <<deviceVars, serverVars, active, historyVars>>

Letters == 1..MaxLetters

Rejects == {"rejected_unknown_contact", "rejected_inactive", "invalid",
            "rejected_undeliverable"}
AckStatus == Rejects \cup {"sent"}

Entry == [id : Nat \ {0}, letter : Letters, to : Contacts \cup {NoContact},
          valid : BOOLEAN, status : Rejects \cup {"queued"}]
Ack == [id : Nat \ {0}, status : AckStatus]

TypeOK ==
  /\ files \in SUBSET Entry
  /\ entries \in SUBSET Entry
  /\ counter \in Nat
  /\ highWater \in Nat
  /\ awaits \in SUBSET Handlers
  /\ inAcks \in SUBSET Ack
  /\ ring \in Seq(Ack)
  /\ disk \in Seq(Ack)
  /\ pc \in [Handlers -> {"idle", "begin", "items", "record"}]
  /\ todo \in [Handlers -> SUBSET Entry]
  /\ snap \in [Handlers -> Seq(Ack)]
  /\ acks \in [Handlers -> SUBSET Ack]
  /\ verdict \in [Handlers -> AckStatus]
  /\ active \in SUBSET Contacts
  /\ letters \in 0..MaxLetters
  /\ composed \in SUBSET Letters
  /\ takenBack \in SUBSET Letters
  /\ wiped \in SUBSET Letters
  /\ sends \in [Letters -> Nat]
  /\ excuses \in [Letters -> Nat]
  /\ told \in SUBSET Ack
-----------------------------------------------------------------------------
(* The ack ring. *)

Recorded(r) == {r[i] : i \in DOMAIN r}

\* (A slip: rejections are not looked up.)
HasSentAck(r, id) == \E i \in DOMAIN r : r[i].id = id /\ r[i].status = "sent"

HasAck(r, id) == \E i \in DOMAIN r : r[i].id = id

\* The newest entry for id, as a set that is empty when there is none.
Lookup(r, id) ==
  {r[i] : i \in {k \in DOMAIN r :
                   /\ r[k].id = id
                   /\ \A j \in DOMAIN r : r[j].id = id => j <= k}}

\* Oldest entries go once the ring is over its size.
Record(r, a) ==
  LET longer == Append(r, a)
  IN  IF Len(longer) > RingSize
      THEN SubSeq(longer, Len(longer) - RingSize + 1, Len(longer))
      ELSE longer

(* The outbox. *)

Sendable == {e \in entries : e.status = "queued"}

Without(S, id) == {e \in S : e.id # id}

Reject(S, id, s) == {IF e.id = id THEN [e EXCEPT !.status = s] ELSE e : e \in S}

LettersOf(S) == {e.letter : e \in S}

\* Items and acks are handled in the order the request listed them: by age.
Oldest(x, S) == x \in S /\ \A y \in S : x.id <= y.id
-----------------------------------------------------------------------------
Init ==
  /\ files = {} /\ entries = {}
  /\ counter = 0 /\ highWater = 0
  /\ awaits = {} /\ inAcks = {}
  /\ ring = <<>> /\ disk = <<>>
  /\ pc = [h \in Handlers |-> "idle"]
  /\ todo = [h \in Handlers |-> {}]
  /\ snap = [h \in Handlers |-> <<>>]
  /\ acks = [h \in Handlers |-> {}]
  /\ verdict = [h \in Handlers |-> "sent"]
  /\ active \in SUBSET Contacts
  /\ letters = 0
  /\ composed = {} /\ takenBack = {} /\ wiped = {}
  /\ sends = [n \in Letters |-> 0]
  /\ excuses = [n \in Letters |-> 0]
  /\ told = {}
-----------------------------------------------------------------------------
(* The device.  Its one task composes, syncs and applies: never two at once. *)

DeviceIdle == awaits = {} /\ inAcks = {}

NewEntry(k) ==
  [id |-> highWater + 1, letter |-> letters + 1, to |-> k.to, valid |-> k.valid,
   status |-> "queued"]

\* The bag has room; the second line is the bound.
MayAdd ==
  /\ DeviceIdle /\ Cardinality(Sendable) < OutboxCap
  /\ letters < MaxLetters /\ highWater < MaxIds

\* Outbox::Add: the counter file, then the entry file, then the RAM index.
Add(k) ==
  LET e == NewEntry(k)
  IN  /\ MayAdd
      /\ counter' = highWater + 1
      /\ highWater' = highWater + 1
      /\ files' = Without(files, e.id) \cup {e}
      /\ entries' = entries \cup {e}
      /\ letters' = letters + 1
      /\ composed' = composed \cup {letters + 1}
      /\ UNCHANGED <<awaits, inAcks, serverVars, active, takenBack, wiped, sends,
                     excuses, told>>

\* Add's first write fails: the counter file may be new, high_water_ is not.
AddCounterFails ==
  /\ FlashFails /\ MayAdd
  /\ counter' \in {counter, highWater + 1}
  /\ UNCHANGED <<files, entries, highWater, awaits, inAcks, serverVars, active,
                 historyVars>>

\* Add's second write fails, with or without the entry file in place.
AddEntryFails(k) ==
  LET e == NewEntry(k)
  IN  /\ FlashFails /\ MayAdd
      /\ counter' = highWater + 1
      /\ highWater' = highWater + 1
      /\ \/ UNCHANGED <<files, letters>>
         \/ /\ files' = Without(files, e.id) \cup {e}
            /\ letters' = letters + 1
      /\ UNCHANGED <<entries, awaits, inAcks, serverVars, active, composed,
                     takenBack, wiped, sends, excuses, told>>

\* RunOnce sends BuildRequest; a goroutine h picks it up.
SendRequest(h) ==
  /\ DeviceIdle
  /\ pc[h] = "idle"
  /\ awaits' = {h}
  /\ pc' = [pc EXCEPT ![h] = "begin"]
  /\ todo' = [todo EXCEPT ![h] = Sendable]
  /\ acks' = [acks EXCEPT ![h] = {}]
  /\ UNCHANGED <<files, entries, counter, highWater, inAcks, ring, disk, snap,
                 verdict, active, historyVars>>

\* The transport gives up on the answer; the goroutine, if any, goes on.
GiveUp ==
  /\ awaits # {}
  /\ awaits' = {}
  /\ UNCHANGED <<files, entries, counter, highWater, inAcks, serverVars, active,
                 historyVars>>

\* (A slip: every ack drops the entry.)
ResolveDropping(a) ==
  /\ Oldest(a, inAcks)
  /\ inAcks' = inAcks \ {a}
  /\ files' = Without(files, a.id)
  /\ entries' = Without(entries, a.id)
  /\ UNCHANGED <<counter, highWater, awaits, serverVars, active, historyVars>>

\* Outbox::Resolve of the next ack succeeds.
Resolve(a) ==
  /\ Oldest(a, inAcks)
  /\ inAcks' = inAcks \ {a}
  /\ IF \A e \in entries : e.id # a.id
     THEN UNCHANGED <<files, entries>>
     ELSE IF a.status = "sent"
     THEN /\ files' = Without(files, a.id)
          /\ entries' = Without(entries, a.id)
     ELSE /\ entries' = Reject(entries, a.id, a.status)
          /\ files' = Without(files, a.id)
                      \cup {e \in entries' : e.id = a.id}
  /\ UNCHANGED <<counter, highWater, awaits, serverVars, active, historyVars>>

\* Its flash write fails, with or without effect; the rest is abandoned.
ResolveFails(a) ==
  /\ FlashFails
  /\ Oldest(a, inAcks)
  /\ \E e \in entries : e.id = a.id
  /\ inAcks' = {}
  /\ IF a.status = "sent"
     THEN /\ UNCHANGED entries
          /\ files' \in {files, Without(files, a.id)}
     ELSE /\ entries' = Reject(entries, a.id, a.status)
          /\ files' \in {files, Without(files, a.id)
                                \cup {e \in entries' : e.id = a.id}}
  /\ UNCHANGED <<counter, highWater, awaits, serverVars, active, historyVars>>

\* (A slip: a letter still with the runner can be reopened.)
DiscardAny(e) ==
  /\ DeviceIdle
  /\ e \in entries
  /\ files' = Without(files, e.id)
  /\ entries' = Without(entries, e.id)
  /\ takenBack' = takenBack \cup {e.letter}
  /\ UNCHANGED <<counter, highWater, awaits, inAcks, serverVars, active, letters,
                 composed, wiped, sends, excuses, told>>

\* The child reopens a rejected letter; its text is already the draft.
\* Erase keeps the RAM entry when it reports failure, whatever it removed.
Discard(e) ==
  /\ DeviceIdle
  /\ e \in entries /\ e.status # "queued"
  /\ \/ /\ files' = Without(files, e.id)
        /\ entries' = Without(entries, e.id)
     \/ /\ FlashFails
        /\ files' \in {files, Without(files, e.id)}
        /\ UNCHANGED entries
  /\ takenBack' = takenBack \cup {e.letter}
  /\ UNCHANGED <<counter, highWater, awaits, inAcks, serverVars, active, letters,
                 composed, wiped, sends, excuses, told>>

\* Power is lost; at boot LoadCounter and Scan read flash.
PowerCut ==
  /\ entries' = files
  /\ highWater' = counter
  /\ awaits' = {} /\ inAcks' = {}
  /\ UNCHANGED <<files, counter, serverVars, active, historyVars>>

\* The partition is formatted (a failed mount, or Session::Reformat): the bag
\* goes with it, and so does the local id counter.
Format ==
  /\ files' = {} /\ entries' = {}
  /\ counter' = 0 /\ highWater' = 0
  /\ awaits' = {} /\ inAcks' = {}
  /\ wiped' = wiped \cup LettersOf(files)
  /\ UNCHANGED <<serverVars, active, letters, composed, takenBack, sends,
                 excuses, told>>
-----------------------------------------------------------------------------
(* The server.  Handlers run concurrently; state.json has one writer. *)

\* The goroutine is done and its locals are gone.
End(h) ==
  /\ pc' = [pc EXCEPT ![h] = "idle"]
  /\ todo' = [todo EXCEPT ![h] = {}]
  /\ snap' = [snap EXCEPT ![h] = <<>>]
  /\ acks' = [acks EXCEPT ![h] = {}]
  /\ awaits' = awaits \ {h}

\* A request refused before its outbox is looked at: bad token, over the size
\* cap, or a mailbox that cannot be reconciled.
Refuse(h) ==
  /\ pc[h] = "begin"
  /\ End(h)
  /\ UNCHANGED <<files, entries, counter, highWater, inAcks, ring, disk, verdict,
                 active, historyVars>>

\* (A slip: the ring is not consulted.)
BeginBlind(h) ==
  /\ pc[h] = "begin"
  /\ pc' = [pc EXCEPT ![h] = "items"]
  /\ UNCHANGED <<deviceVars, ring, disk, todo, snap, acks, verdict, active,
                 historyVars>>

\* processOutbound copies the published ring once, before the first item.
Begin(h) ==
  /\ pc[h] = "begin"
  /\ pc' = [pc EXCEPT ![h] = "items"]
  /\ snap' = [snap EXCEPT ![h] = ring]
  /\ UNCHANGED <<deviceVars, ring, disk, todo, acks, verdict, active, historyVars>>

\* The item whose turn it is.
Item(h, x) == pc[h] = "items" /\ Oldest(x, todo[h])

\* A known local id gets the recorded ack and nothing else.
Replay(h, x) ==
  /\ Item(h, x)
  /\ HasAck(snap[h], x.id)
  /\ acks' = [acks EXCEPT ![h] = @ \cup Lookup(snap[h], x.id)]
  /\ todo' = [todo EXCEPT ![h] = @ \ {x}]
  /\ UNCHANGED <<deviceVars, ring, disk, pc, snap, verdict, active, historyVars>>

\* Steps 1 and 2 of sendOne: the terminal status of a letter not worth sending.
Refusal(x) ==
  CASE x.to \notin Contacts -> "rejected_unknown_contact"
    [] x.to \in Contacts \ active -> "rejected_inactive"
    [] x.to \in active /\ ~x.valid -> "invalid"
    [] OTHER -> "none"

\* sendOne ends with a terminal status, still to be recorded.
Decide(h, s) ==
  /\ verdict' = [verdict EXCEPT ![h] = s]
  /\ pc' = [pc EXCEPT ![h] = "record"]
  /\ UNCHANGED <<deviceVars, ring, disk, todo, snap, acks, active, letters,
                 composed, takenBack, wiped, excuses, told>>

\* (A slip: the refusal is recorded without asking whether there is one.)
RejectItemAlways(h, x) ==
  /\ Item(h, x) /\ ~HasAck(snap[h], x.id)
  /\ Decide(h, Refusal(x))
  /\ UNCHANGED sends

RejectItem(h, x) ==
  /\ Item(h, x) /\ ~HasAck(snap[h], x.id)
  /\ Refusal(x) # "none"
  /\ Decide(h, Refusal(x))
  /\ UNCHANGED sends

ToRelay(h, x) == Item(h, x) /\ ~HasAck(snap[h], x.id) /\ Refusal(x) = "none"

\* The relay takes the letter and says so.
SendOk(h, x) ==
  /\ ToRelay(h, x)
  /\ sends' = [sends EXCEPT ![x.letter] = @ + 1]
  /\ Decide(h, "sent")

\* (A slip: a refused letter is acked as sent, so that it goes away.)
SendUndeliverableAsSent(h, x) ==
  /\ ToRelay(h, x)
  /\ Decide(h, "sent")
  /\ UNCHANGED sends

\* The relay refuses this letter for good: ErrUndeliverable.
SendUndeliverable(h, x) ==
  /\ ToRelay(h, x)
  /\ Decide(h, "rejected_undeliverable")
  /\ UNCHANGED sends

\* Send returns any other error.  The relay may have taken the letter all the
\* same: the reply to DATA was lost, or QUIT failed after it.  The letter stays
\* unacked; ErrUnreachable also ends the request with a 503.
SendFails(h, x) ==
  /\ ToRelay(h, x)
  /\ \/ UNCHANGED <<sends, excuses>>
     \/ /\ excuses[x.letter] < MaxExcuses
        /\ sends' = [sends EXCEPT ![x.letter] = @ + 1]
        /\ excuses' = [excuses EXCEPT ![x.letter] = @ + 1]
  /\ \/ /\ todo' = [todo EXCEPT ![h] = @ \ {x}]
        /\ UNCHANGED <<pc, awaits, snap, acks>>
     \/ End(h)
  /\ UNCHANGED <<files, entries, counter, highWater, inAcks, ring, disk, verdict,
                 active, letters, composed, takenBack, wiped, told>>

Recording(h, x) == pc[h] = "record" /\ Oldest(x, todo[h])

\* recordAck: one Update of state.json, durable before the ack is owed.
RecordAck(h, x) ==
  LET a == [id |-> x.id, status |-> verdict[h]]
  IN  /\ Recording(h, x)
      /\ ring' = Record(ring, a)
      /\ disk' = ring'
      /\ snap' = [snap EXCEPT ![h] = Record(@, a)]
      /\ acks' = [acks EXCEPT ![h] = @ \cup {a}]
      /\ todo' = [todo EXCEPT ![h] = @ \ {x}]
      /\ pc' = [pc EXCEPT ![h] = "items"]
      /\ verdict' = [verdict EXCEPT ![h] = "sent"]
      /\ UNCHANGED <<deviceVars, active, historyVars>>

\* The Update fails, with or without the new file in place: no ack.
RecordAckFails(h, x) ==
  LET a == [id |-> x.id, status |-> verdict[h]]
  IN  /\ Recording(h, x)
      /\ IF verdict[h] = "sent"
         THEN /\ excuses[x.letter] < MaxExcuses
              /\ excuses' = [excuses EXCEPT ![x.letter] = @ + 1]
         ELSE UNCHANGED excuses
      /\ disk' \in {disk, Record(ring, a)}
      /\ todo' = [todo EXCEPT ![h] = @ \ {x}]
      /\ pc' = [pc EXCEPT ![h] = "items"]
      /\ verdict' = [verdict EXCEPT ![h] = "sent"]
      /\ UNCHANGED <<deviceVars, ring, snap, acks, active, letters, composed,
                     takenBack, wiped, sends, told>>

\* Everything after the outbox went well, commitSync's Update included: the
\* answer goes out, to a device that may no longer be there to read it.
Reply(h) ==
  /\ pc[h] = "items" /\ todo[h] = {}
  /\ disk' = ring
  /\ End(h)
  /\ inAcks' = IF h \in awaits THEN acks[h] ELSE inAcks
  /\ told' = told \cup acks[h]
  /\ UNCHANGED <<files, entries, counter, highWater, ring, verdict, active, letters,
                 composed, takenBack, wiped, sends, excuses>>

\* Assembling the letters, or commitSync's Update, failed: 500 or 503.
ReplyFails(h) ==
  /\ pc[h] = "items" /\ todo[h] = {}
  /\ disk' \in {disk, ring}
  /\ End(h)
  /\ UNCHANGED <<files, entries, counter, highWater, inAcks, ring, verdict, active,
                 historyVars>>

\* The process dies and restarts: state.json is what it knows.
Crash ==
  /\ excuses' = [n \in Letters |->
       excuses[n] + Cardinality({h \in Handlers : /\ verdict[h] = "sent"
                                                  /\ \E x \in todo[h] :
                                                       /\ x.letter = n
                                                       /\ Recording(h, x)})]
  /\ \A n \in Letters : excuses'[n] <= MaxExcuses
  /\ ring' = disk
  /\ pc' = [h \in Handlers |-> "idle"]
  /\ todo' = [h \in Handlers |-> {}]
  /\ snap' = [h \in Handlers |-> <<>>]
  /\ acks' = [h \in Handlers |-> {}]
  /\ verdict' = [h \in Handlers |-> "sent"]
  /\ UNCHANGED <<deviceVars, disk, active, letters, composed, takenBack, wiped,
                 sends, told>>

\* A guardian deactivates or reactivates a contact.
ToggleContact(c) ==
  /\ active' = IF c \in active THEN active \ {c} ELSE active \cup {c}
  /\ UNCHANGED <<deviceVars, serverVars, historyVars>>
-----------------------------------------------------------------------------
Next ==
  \/ \E k \in Kinds : Add(k) \/ AddEntryFails(k)
  \/ AddCounterFails
  \/ \E h \in Handlers : SendRequest(h)
  \/ GiveUp
  \/ \E a \in inAcks : Resolve(a) \/ ResolveFails(a)
  \/ \E e \in entries : Discard(e)
  \/ PowerCut
  \/ \E h \in Handlers : Refuse(h) \/ Begin(h) \/ Reply(h) \/ ReplyFails(h)
  \/ \E h \in Handlers : \E x \in todo[h] :
       \/ Replay(h, x)
       \/ RejectItem(h, x)
       \/ SendOk(h, x)
       \/ SendUndeliverable(h, x)
       \/ SendFails(h, x)
       \/ RecordAck(h, x)
       \/ RecordAckFails(h, x)
  \/ Crash
  \/ \E c \in Contacts : ToggleContact(c)

\* The life of one letters partition.
Spec == Init /\ [][Next]_vars

\* The device's, whose partition may be formatted.
FormatNext == Next \/ Format
FormatSpec == Init /\ [][FormatNext]_vars
-----------------------------------------------------------------------------
(* What must hold. *)

\* A letter the outbox accepted (Add returned true) is never simply gone: it is
\* still on flash, or the relay has it, or the child took it back after a
\* rejection, or it was on the partition when that was formatted.  This is the
\* one outcome processOutbound's ordering exists to rule out.
NothingLost ==
  \A n \in composed :
    \/ n \in LettersOf(files)
    \/ sends[n] > 0
    \/ n \in takenBack
    \/ n \in wiped

\* The relay is handed a letter a second time only after a fault that leaves
\* the server without a durable record of the first: a crash or a failed write
\* between Send and recordAck, or a relay whose acceptance was not heard.
RepeatsAreExcused == \A n \in Letters : sends[n] <= 1 + excuses[n]

\* A local id is answered with one terminal status for ever, however often the
\* request is repeated (processOutbound consults the ring first).
OneTerminalAck == \A a, b \in told : a.id = b.id => a.status = b.status

\* Every copy of a letter, and every ack that exists anywhere.
Copies == files \cup entries \cup UNION {todo[h] : h \in Handlers}
Answers ==
  UNION {told, inAcks, Recorded(ring), Recorded(disk),
         UNION {Recorded(snap[h]) : h \in Handlers},
         UNION {acks[h] : h \in Handlers}}

\* No answer anywhere, on disk, in a goroutine's copy of the ring or on its way,
\* says "sent" for a letter that somebody still holds and the relay has not
\* taken: acting on an answer, however stale, cannot lose a letter.
SentMeansTaken ==
  \A a \in Answers, e \in Copies :
    a.id = e.id /\ a.status = "sent" => sends[e.letter] > 0

\* The device numbers letters upwards for ever: whatever is still called by a
\* local id, on either side, the next Add's id is above it.
IdsFresh ==
  /\ highWater <= counter
  /\ \A e \in Copies : e.id <= highWater
  /\ \A a \in Answers : a.id <= highWater

\* One local id names one letter.
IdsAgree == \A e, f \in Copies : e.id = f.id => e.letter = f.letter

\* "sent" is recorded only for a letter the relay took.
VerdictTrue ==
  \A h \in Handlers : \A x \in todo[h] :
    Recording(h, x) /\ verdict[h] = "sent" => sends[x.letter] > 0

\* What makes NothingLost inductive: local ids are never reused and every
\* "sent" that exists is true of every copy it could be applied to.
NothingLostInv ==
  IdsFresh /\ IdsAgree /\ SentMeansTaken /\ VerdictTrue /\ NothingLost

\* The promise made to the child, read off flash, RAM and the relay.
InBag == LettersOf({e \in files : e.status = "queued"})
Forgotten == {e \in entries : e.status # "queued"}
CameBack == {n \in LettersOf(files) : n \notin InBag \/ n \in LettersOf(Forgotten)}

Promise == INSTANCE OutboxPromise WITH
  written <- letters,
  held <- InBag \ CameBack,
  returned <- CameBack,
  delivered <- {n \in Letters : sends[n] > 0}

\* Every step of the device and the server is a step of the promise.
KeepsThePromise == Promise!Spec
=============================================================================
