------------------------------ MODULE Delivery ------------------------------
(***************************************************************************)
(* An inbound letter's way from the mailbox to the child: the filing       *)
(* service (internal/filing) that decides what stays in INBOX, the sync    *)
(* handler (internal/syncsvc) that answers the device from it, and the     *)
(* device's letter store, seen ring and cursor (firmware store and         *)
(* syncengine), together with the contact table all of them consult.       *)
(*                                                                         *)
(* The goroutines of the server interleave: mail arrives and a guardian    *)
(* changes the table between any two steps of a pass or of a sync.  The    *)
(* filing mutex lets one pass run at a time.  Either side may lose power,  *)
(* a MOVE or a flash write may fail with or without effect, and an answer  *)
(* may be lost.                                                            *)
(*                                                                         *)
(* A letter is its number, which is also its date.  One request is         *)
(* answered at a time; Outbound has the concurrent ones.                   *)
(***************************************************************************)
EXTENDS Contacts, Sieve

CONSTANTS
  From,            \* From[m]: the sender of letter m, for m in 1..Len(From)
  Unreadable,      \* letters that filing can read and derivation cannot
  Window,          \* sync.resync_window
  FetchBatch,      \* fetchBatch of assembleLetters
  ArrivalBatch,    \* arrivalBatchSize of HandleNotify
  Keep,            \* letters_keep
  SeenCap,         \* capacity of the seen ring
  MaxChanges,      \* bound: changes a guardian makes to the table
  MaxFaults,       \* bound: faults of any kind
  MaxWipes,        \* bound: factory resets of the device
  MaxResets,       \* bound: UIDVALIDITY resets of the mailbox
  StarReturnsLast  \* does the IMAP server answer "n:*" with its last message
                   \* when all are below n, as RFC 3501 says it must

Mails == 1..Len(From)

ASSUME DeliveryAssumptions ==
  /\ From \in Seq(Addrs \cup {0})
  /\ Unreadable \in SUBSET Mails
  /\ Window \in Nat /\ FetchBatch \in Nat \ {0} /\ ArrivalBatch \in Nat \ {0}
  /\ Keep \in Nat \ {0} /\ SeenCap \in Nat \ {0}
  /\ MaxChanges \in Nat /\ MaxFaults \in Nat /\ MaxWipes \in Nat /\ MaxResets \in Nat
  /\ StarReturnsLast \in BOOLEAN

VARIABLES
  \* the mailbox
  inbox,      \* INBOX, by ascending UID: [uid, m]
  held,       \* letters in Held
  spam,       \* letters in the provider's spam folder
  nextUid,
  validity,   \* UIDVALIDITY
  \* the server
  contacts,   \* the contact table
  started,    \* filing: "no", "spam" (reconciled, spam not swept) or "yes"
  highWater,  \* arrivalHighWater
  pass,       \* the pass that holds the filing mutex
  phase,      \* where the sync handler is
  asked,      \* the cursor of the request it answers
  raws,       \* fetched, not derived yet
  letters,    \* derived, to be sent
  last,       \* the cursor the answer will carry
  \* the device
  cursor,     \* the cursor on flash
  stored,     \* letters in the store
  seen,       \* the seen ring on flash
  seenRam,    \* its RAM copy
  awaiting,   \* an answer is expected
  answer,     \* the answer being applied
  \* history, read by the properties and the bounds only
  arrived, changes, faults, wipes,
  got,        \* letters put in the store since the last wipe
  skipped,    \* letters a sync passed over as a stranger's
  beyond,     \* letters outside the window of a resync
  late,       \* letters that came to INBOX since the running sync's pass listed it
  shutOut,    \* letters that came from a removed sender and still would
  settled     \* letters delivered, behind the cursor and decided by filing,
              \* until a guardian puts one back in INBOX

mailVars == <<inbox, held, spam, nextUid, validity>>
syncVars == <<phase, asked, raws, letters, last>>
deviceVars == <<cursor, stored, seen, seenRam, awaiting, answer>>
boundVars == <<arrived, changes, faults, wipes>>
vars == <<mailVars, contacts, started, highWater, pass, syncVars, deviceVars,
          boundVars, got, skipped, beyond, late, shutOut, settled>>

\* "" and every cursor of another UIDVALIDITY is no boundary: validity starts at 1.
NoCursor == [v |-> 0, u |-> 0]
Concrete(c) == c.v = validity

NoPass == [kind |-> "none", list |-> <<>>, bound |-> 0, top |-> 0]
NoAnswer == [some |-> FALSE, letters |-> <<>>, fresh |-> FALSE, cursor |-> NoCursor]

Envelope == [uid : Nat, m : Mails]
Cursors == [v : Nat, u : Nat]

TypeOK ==
  /\ inbox \in Seq(Envelope) /\ held \in SUBSET Mails /\ spam \in SUBSET Mails
  /\ nextUid \in Nat /\ validity \in Nat
  /\ contacts \in Tables
  /\ started \in {"no", "spam", "yes"} /\ highWater \in Nat
  /\ pass \in [kind : {"none", "start", "sync", "resync", "arrival", "more", "release"},
               list : Seq(Envelope), bound : Nat, top : Nat]
  /\ phase \in {"idle", "reconcile", "reconciling", "spam", "fetch", "derive"}
  /\ asked \in Cursors /\ raws \in Seq(Envelope) /\ letters \in Seq(Mails)
  /\ last \in Cursors
  /\ cursor \in Cursors /\ stored \in SUBSET Mails
  /\ seen \in Seq(Mails) /\ seenRam \in Seq(Mails) /\ awaiting \in BOOLEAN
  /\ answer \in [some : BOOLEAN, letters : Seq(Mails), fresh : BOOLEAN,
                 cursor : Cursors]
  /\ arrived \in 0..Len(From) /\ changes \in 0..MaxChanges /\ faults \in 0..MaxFaults
  /\ wipes \in 0..MaxWipes
  /\ {got, skipped, beyond, late, shutOut, settled} \subseteq SUBSET Mails
-----------------------------------------------------------------------------
(* Senders, and the mailbox as the code uses it. *)

Known(t, m) == Resolve(t, From[m]) # {}
Active(t, m) == ResolveActive(t, From[m]) # {}
Tombstone(t, m) == \E i \in Resolve(t, From[m]) : ~t[i].active

MailsIn(s) == {s[i].m : i \in DOMAIN s}
Larger(a, b) == IF a >= b THEN a ELSE b
Smaller(a, b) == IF a <= b THEN a ELSE b

\* The first n, or the last n, elements of a sequence.
FirstN(s, n) == SubSeq(s, 1, Smaller(n, Len(s)))
LastN(s, n) == SubSeq(s, Len(s) - Smaller(n, Len(s)) + 1, Len(s))

\* What INBOX holds above uid.
Above(uid) == Kept(inbox, {e \in Elements(inbox) : e.uid > uid})

\* (A slip: the range starts one too high.)
FetchAboveTooHigh(uid, max) == FirstN(Above(uid + 1), max)

\* UID FETCH uid+1:*, at most max of it.
FetchAbove(uid, max) ==
  IF Above(uid) = <<>> /\ StarReturnsLast THEN LastN(inbox, 1)
  ELSE FirstN(Above(uid), max)

\* The newest n messages of INBOX, and the ones before them.
Recent(n) == LastN(inbox, n)
Older(n) == FirstN(inbox, Len(inbox) - Smaller(n, Len(inbox)))

\* UID MOVE of e from INBOX to Held, and of m from Held to INBOX.
ToHeld(e) ==
  /\ inbox' = Kept(inbox, Elements(inbox) \ {e})
  /\ held' = held \cup {e.m}
  /\ UNCHANGED <<spam, nextUid, validity>>

ToInbox(m) ==
  /\ held' = held \ {m}
  /\ inbox' = Append(inbox, [uid |-> nextUid, m |-> m])
  /\ nextUid' = nextUid + 1
  /\ UNCHANGED <<spam, validity>>

\* A fault is spent.
Fault ==
  /\ faults < MaxFaults
  /\ faults' = faults + 1
  /\ UNCHANGED <<arrived, changes, wipes>>

Init ==
  /\ inbox = <<>> /\ held = {} /\ spam = {} /\ nextUid = 1 /\ validity = 1
  /\ contacts \in {EmptyTable} \cup UNION {AfterAdd(EmptyTable, a) : a \in Addrs}
  /\ started = "no" /\ highWater = 0 /\ pass = NoPass
  /\ phase = "idle" /\ asked = NoCursor /\ raws = <<>> /\ letters = <<>>
  /\ last = NoCursor
  /\ cursor = NoCursor /\ stored = {} /\ seen = <<>> /\ seenRam = <<>>
  /\ awaiting = FALSE /\ answer = NoAnswer
  /\ arrived = 0 /\ changes = 0 /\ faults = 0 /\ wipes = 0
  /\ got = {} /\ skipped = {} /\ beyond = {} /\ late = {}
  /\ shutOut = {} /\ settled = {}
-----------------------------------------------------------------------------
(* The world: relatives and guardians. *)

\* The provider files the next letter into INBOX or into its spam folder.
Arrive ==
  LET m == arrived + 1
  IN  /\ m \in Mails
      /\ arrived' = m
      /\ \/ /\ inbox' = Append(inbox, [uid |-> nextUid, m |-> m])
            /\ nextUid' = nextUid + 1
            /\ shutOut' = IF Tombstone(contacts, m) /\ ~Active(contacts, m)
                          THEN shutOut \cup {m} ELSE shutOut
            /\ late' = IF phase \in {"idle", "reconcile"} THEN late
                       ELSE late \cup {m}
            /\ UNCHANGED spam
         \/ /\ spam' = spam \cup {m}
            /\ UNCHANGED <<inbox, nextUid, shutOut, late>>
      /\ UNCHANGED <<held, validity, contacts, started, highWater, pass, syncVars,
                     deviceVars, changes, faults, wipes, got, skipped, beyond, settled>>

\* The table becomes t; who is active again is no longer shut out.
Change(t) ==
  /\ changes < MaxChanges
  /\ changes' = changes + 1
  /\ contacts' = t
  /\ shutOut' = {m \in shutOut : Tombstone(t, m) /\ ~Active(t, m)}

\* A guardian's change, from the contacts page or the command line.
Mutate ==
  /\ \E t \in Changes(contacts) : Change(t)
  /\ UNCHANGED <<mailVars, started, highWater, pass, syncVars, deviceVars, arrived,
                 faults, wipes, got, skipped, beyond, late, settled>>

\* The mailbox is rebuilt, between any two steps of a sync too: every message gets
\* a new UID.  Not in the middle of a pass, whose list would name other messages.
ResetUids ==
  /\ validity <= MaxResets
  /\ pass = NoPass
  /\ validity' = validity + 1
  /\ inbox' = [i \in DOMAIN inbox |-> [uid |-> i, m |-> inbox[i].m]]
  /\ nextUid' = Len(inbox) + 1
  /\ UNCHANGED <<held, spam, contacts, started, highWater, pass, syncVars, deviceVars,
                 boundVars, got, skipped, beyond, late, shutOut, settled>>
-----------------------------------------------------------------------------
(* Filing: reconciliation. *)

\* reconcileLocked has listed INBOX.
Listing(kind, bound) ==
  pass' = [kind |-> kind, list |-> inbox, bound |-> bound,
           top |-> IF inbox = <<>> THEN 0 ELSE inbox[Len(inbox)].uid]

\* (A slip: the pass before F-9.)
QuarantinesStrangers(e) == ~Known(contacts, e.m)

\* (A slip: what the child has is not spared.)
QuarantinesHistory(e) ==
  ~Known(contacts, e.m) \/ (pass.kind = "sync" /\ Tombstone(contacts, e.m))

\* What the pass moves to Held: strangers, and, given the device's cursor, what
\* a removed contact sent that the device does not have yet.
Quarantines(e) ==
  \/ ~Known(contacts, e.m)
  \/ pass.kind = "sync" /\ Tombstone(contacts, e.m) /\ e.uid > pass.bound

Reconciling == pass.kind \in {"start", "sync", "resync"}
unfiled == <<contacts, deviceVars, got, skipped, beyond, late, shutOut, settled>>

\* Start's Reconcile.
StartReconcile ==
  /\ pass = NoPass /\ started = "no"
  /\ Listing("start", 0)
  /\ UNCHANGED <<mailVars, started, highWater, syncVars, boundVars, unfiled>>

\* The sync handler's Reconcile or ReconcileSync.
SyncReconcile ==
  /\ pass = NoPass /\ phase = "reconcile"
  /\ phase' = "reconciling"
  /\ IF Concrete(asked) THEN Listing("sync", asked.u) ELSE Listing("resync", 0)
  /\ UNCHANGED <<mailVars, started, highWater, asked, raws, letters, last, boundVars,
                 unfiled>>

ReconcileOne ==
  /\ Reconciling /\ pass.list # <<>>
  /\ pass' = [pass EXCEPT !.list = Tail(@)]
  /\ IF Quarantines(Head(pass.list)) THEN ToHeld(Head(pass.list))
                                     ELSE UNCHANGED mailVars
  /\ UNCHANGED <<started, highWater, syncVars, boundVars, unfiled>>

\* A MOVE fails, with or without effect: the pass ends there, and a sync with it.
ReconcileFails ==
  /\ Reconciling /\ pass.list # <<>> /\ Quarantines(Head(pass.list))
  /\ Fault
  /\ pass' = NoPass
  /\ UNCHANGED mailVars \/ ToHeld(Head(pass.list))
  /\ IF pass.kind = "start"
     THEN UNCHANGED <<phase, late, deviceVars>>
     ELSE /\ phase' = "idle" /\ late' = {} /\ awaiting' = FALSE
          /\ UNCHANGED <<cursor, stored, seen, seenRam, answer>>
  /\ UNCHANGED <<contacts, started, highWater, asked, raws, letters, last, got,
                 skipped, beyond, shutOut, settled>>

ReconcileEnd ==
  /\ Reconciling /\ pass.list = <<>>
  /\ pass' = NoPass
  /\ highWater' = Larger(highWater, pass.top)
  /\ IF pass.kind = "start"
     THEN started' = "spam" /\ UNCHANGED phase
     ELSE phase' = "spam" /\ UNCHANGED started
  /\ UNCHANGED <<mailVars, asked, raws, letters, last, boundVars, unfiled>>

\* CheckSpam moves everything; one that fails part-way leaves the rest.
CheckSpam(done) ==
  /\ spam' = spam \ done
  /\ held' = held \cup done
  /\ UNCHANGED <<inbox, nextUid, validity, highWater, pass, asked, raws, letters, last,
                 unfiled>>

StartSpam ==
  /\ pass = NoPass /\ started = "spam"
  /\ \/ CheckSpam(spam) /\ started' = "yes" /\ UNCHANGED boundVars
     \/ \E done \in SUBSET spam : CheckSpam(done) /\ started' = "no" /\ Fault
  /\ UNCHANGED phase

\* A sweep that fails does not stop a sync.
SyncSpam ==
  /\ pass = NoPass /\ phase = "spam"
  /\ \/ CheckSpam(spam) /\ UNCHANGED boundVars
     \/ \E done \in SUBSET spam : CheckSpam(done) /\ Fault
  /\ phase' = "fetch"
  /\ UNCHANGED started

\* RunSpamBackstop's ticker.
TickSpam ==
  /\ pass = NoPass /\ started = "yes" /\ spam # {}
  /\ CheckSpam(spam)
  /\ UNCHANGED <<started, phase, boundVars>>
-----------------------------------------------------------------------------
(* Filing: arrivals and releases. *)

ArrivalFetch ==
  LET batch == FetchAbove(highWater, ArrivalBatch)
  IN  pass' = [NoPass EXCEPT
                 !.kind = IF Len(batch) = ArrivalBatch THEN "more" ELSE "arrival",
                 !.list = batch]

\* IDLE reports that INBOX changed, late or early or more than once; of the
\* calls that follow, those that find nothing change nothing.
Notified == FetchAbove(highWater, ArrivalBatch) # <<>>

HandleNotify ==
  /\ pass = NoPass /\ started = "yes" /\ Notified
  /\ ArrivalFetch
  /\ UNCHANGED <<mailVars, started, highWater, syncVars, boundVars, unfiled>>

Filing == pass.kind \in {"arrival", "more"}

\* fileArrivalLocked: only an active contact's letter stays.
FileArrival ==
  /\ Filing /\ pass.list # <<>>
  /\ pass' = [pass EXCEPT !.list = Tail(@)]
  /\ highWater' = Larger(highWater, Head(pass.list).uid)
  /\ IF Active(contacts, Head(pass.list).m) THEN UNCHANGED mailVars
                                            ELSE ToHeld(Head(pass.list))
  /\ UNCHANGED <<started, syncVars, boundVars, unfiled>>

FileArrivalFails ==
  /\ Filing /\ pass.list # <<>> /\ ~Active(contacts, Head(pass.list).m)
  /\ Fault
  /\ pass' = NoPass
  /\ UNCHANGED mailVars \/ ToHeld(Head(pass.list))
  /\ UNCHANGED <<started, highWater, syncVars, unfiled>>

\* After a full batch the loop fetches again.
ArrivalEnd ==
  /\ Filing /\ pass.list = <<>>
  /\ IF pass.kind = "more" THEN ArrivalFetch ELSE pass' = NoPass
  /\ UNCHANGED <<mailVars, started, highWater, syncVars, boundVars, unfiled>>

\* The guardian releases m.  The page picks the flow by what the sender resolves
\* to: add a stranger, reactivate a tombstone, or change nothing.
Release(m) ==
  /\ pass = NoPass /\ m \in held /\ From[m] # 0
  /\ \/ /\ ~Known(contacts, m)
        /\ \E t \in AfterAdd(contacts, From[m]) : Change(t)
     \/ /\ Tombstone(contacts, m)
        /\ \E i \in Resolve(contacts, From[m]) :
             \E t \in AfterReactivate(contacts, i) : Change(t)
     \/ /\ Known(contacts, m) /\ ~Tombstone(contacts, m) /\ Active(contacts, m)
        /\ UNCHANGED <<contacts, changes, shutOut>>
  /\ pass' = [NoPass EXCEPT !.kind = "release", !.list = <<[uid |-> 0, m |-> m]>>]
  /\ UNCHANGED <<mailVars, started, highWater, syncVars, deviceVars, arrived, faults,
                 wipes, got, skipped, beyond, late, settled>>

released == <<contacts, deviceVars, got, skipped, beyond, late, shutOut>>

\* The MOVE back to INBOX, where the letter is to be decided about again; the
\* arrival pass follows under the same lock.
ReleaseMove ==
  /\ pass.kind = "release"
  /\ ToInbox(Head(pass.list).m)
  /\ settled' = settled \ {Head(pass.list).m}
  /\ pass' = [NoPass EXCEPT !.kind = "more"]
  /\ UNCHANGED <<started, highWater, syncVars, boundVars, released>>

ReleaseFails ==
  /\ pass.kind = "release"
  /\ Fault
  /\ pass' = NoPass
  /\ UNCHANGED mailVars \/ ToInbox(Head(pass.list).m)
  /\ settled' = settled \ {Head(pass.list).m}
  /\ UNCHANGED <<started, highWater, syncVars, released>>
-----------------------------------------------------------------------------
(* The sync handler. *)

unsynced == <<contacts, started, highWater, pass, shutOut, settled>>

SendRequest ==
  /\ ~awaiting /\ ~answer.some /\ phase = "idle"
  /\ awaiting' = TRUE
  /\ asked' = cursor
  /\ phase' = "reconcile"
  /\ UNCHANGED <<mailVars, raws, letters, last, cursor, stored, seen, seenRam, answer,
                 boundVars, got, skipped, beyond, late, unsynced>>

\* (A slip: the range starts at the oldest letter, UID FETCH 1:*.)
FetchFromStart ==
  /\ phase = "fetch"
  /\ phase' = "derive"
  /\ letters' = <<>>
  /\ last' = IF Concrete(asked) THEN asked ELSE [v |-> validity, u |-> 0]
  /\ raws' = FirstN(inbox, FetchBatch)
  /\ UNCHANGED <<mailVars, asked, deviceVars, boundVars, got, skipped, beyond, late,
                 unsynced>>

\* assembleLetters reads UIDVALIDITY and INBOX once: above the cursor, or the
\* window.
Fetch ==
  /\ phase = "fetch"
  /\ phase' = "derive"
  /\ letters' = <<>>
  /\ IF Concrete(asked)
     THEN /\ raws' = FetchAbove(asked.u, FetchBatch)
          /\ last' = asked
          /\ UNCHANGED beyond
     ELSE /\ raws' = Recent(Window)
          /\ last' = [v |-> validity, u |-> 0]
          /\ beyond' = beyond \cup MailsIn(Older(Window))
  /\ UNCHANGED <<mailVars, asked, deviceVars, boundVars, got, skipped, late, unsynced>>

\* One letter derived, or passed over because its sender resolves to nobody.
Derive ==
  /\ phase = "derive" /\ raws # <<>>
  /\ Head(raws).m \notin Unreadable
  /\ raws' = Tail(raws)
  /\ last' = [last EXCEPT !.u = Head(raws).uid]
  /\ IF Known(contacts, Head(raws).m)
     THEN letters' = Append(letters, Head(raws).m) /\ UNCHANGED skipped
     ELSE skipped' = skipped \cup {Head(raws).m} /\ UNCHANGED letters
  /\ UNCHANGED <<mailVars, phase, asked, deviceVars, boundVars, got, beyond, late,
                 unsynced>>

\* The answer is sealed: nothing is left, the next letter is over the budget, or
\* it cannot be derived.  The last two need a letter in the answer already.
Reply ==
  /\ phase = "derive"
  /\ raws = <<>> \/ letters # <<>>
  /\ phase' = "idle"
  /\ raws' = <<>> /\ letters' = <<>> /\ last' = NoCursor /\ asked' = NoCursor
  /\ late' = {}
  /\ awaiting' = FALSE
  /\ answer' = IF awaiting
               THEN [some |-> TRUE, letters |-> letters, fresh |-> FALSE,
                     cursor |-> last]
               ELSE answer
  /\ UNCHANGED <<mailVars, cursor, stored, seen, seenRam, boundVars, got, skipped,
                 beyond, unsynced>>

\* The sync ends with an error, or its answer is lost on the way.
SyncFails ==
  /\ phase \in {"reconcile", "spam", "fetch", "derive"}
  /\ \/ Fault
     \/ /\ phase = "derive" /\ letters = <<>> /\ raws # <<>>
        /\ Head(raws).m \in Unreadable
        /\ UNCHANGED boundVars
  /\ phase' = "idle"
  /\ raws' = <<>> /\ letters' = <<>> /\ last' = NoCursor /\ asked' = NoCursor
  /\ late' = {}
  /\ awaiting' = FALSE
  /\ UNCHANGED <<mailVars, cursor, stored, seen, seenRam, answer, got, skipped, beyond,
                 unsynced>>

\* The server dies and is started again; what it knew of INBOX is gone.
Crash ==
  /\ Fault
  /\ started' = "no" /\ highWater' = 0 /\ pass' = NoPass
  /\ phase' = "idle"
  /\ raws' = <<>> /\ letters' = <<>> /\ last' = NoCursor /\ asked' = NoCursor
  /\ late' = {}
  /\ awaiting' = FALSE
  /\ UNCHANGED <<mailVars, contacts, cursor, stored, seen, seenRam, answer, got,
                 skipped, beyond, shutOut, settled>>
-----------------------------------------------------------------------------
(* The device applies an answer. *)

unapplied == <<mailVars, contacts, started, highWater, pass, syncVars, skipped, beyond,
               late, shutOut>>

Ringed(ring, m) == LastN(Append(ring, m), SeenCap)

Applying == answer.some /\ answer.letters # <<>>

\* (A slip: the ring is not asked.)
ApplyLetterAlways ==
  LET m == Head(answer.letters)
  IN  /\ Applying
      /\ answer' = [answer EXCEPT !.letters = Tail(@), !.fresh = TRUE]
      /\ stored' = stored \cup {m}
      /\ got' = got \cup {m}
      /\ seenRam' = Ringed(seenRam, m)
      /\ seen' = Ringed(seen, m)
      /\ UNCHANGED <<cursor, awaiting, boundVars, settled, unapplied>>

\* A repeat is dropped; a new letter is stored, then remembered.
ApplyLetter ==
  LET m == Head(answer.letters)
  IN  /\ Applying
      /\ IF m \in Elements(seenRam)
         THEN /\ answer' = [answer EXCEPT !.letters = Tail(@)]
              /\ UNCHANGED <<stored, seen, seenRam, got>>
         ELSE /\ answer' = [answer EXCEPT !.letters = Tail(@), !.fresh = TRUE]
              /\ stored' = stored \cup {m}
              /\ got' = got \cup {m}
              /\ seenRam' = Ringed(seenRam, m)
              /\ seen' = Ringed(seen, m)
      /\ UNCHANGED <<cursor, awaiting, boundVars, settled, unapplied>>

\* (A slip: the letter is remembered before it is stored.)
ApplyLetterFailsRemembered ==
  LET m == Head(answer.letters)
  IN  /\ Applying /\ m \notin Elements(seenRam)
      /\ Fault
      /\ answer' = NoAnswer
      /\ seenRam' = Ringed(seenRam, m)
      /\ seen' = Ringed(seen, m)
      /\ UNCHANGED <<stored, got, cursor, awaiting, settled, unapplied>>

\* A write fails: of the letter, with or without effect, or of the ring, whose
\* RAM copy has it by then.  The rest of the answer is abandoned.
ApplyLetterFails ==
  LET m == Head(answer.letters)
  IN  /\ Applying /\ m \notin Elements(seenRam)
      /\ Fault
      /\ answer' = NoAnswer
      /\ \/ UNCHANGED <<stored, got, seen, seenRam>>
         \/ /\ stored' = stored \cup {m}
            /\ got' = got \cup {m}
            /\ \/ UNCHANGED <<seen, seenRam>>
               \/ /\ seenRam' = Ringed(seenRam, m)
                  /\ seen' \in {seen, Ringed(seen, m)}
      /\ UNCHANGED <<cursor, awaiting, settled, unapplied>>

Newest(S) == {m \in S : Cardinality({n \in S : n >= m}) <= Keep}

\* EvictBeyond, when something was stored, and the cursor after everything else.
ApplyCursor ==
  /\ answer.some /\ answer.letters = <<>>
  /\ stored' = IF answer.fresh THEN Newest(stored) ELSE stored
  /\ cursor' = answer.cursor
  /\ answer' = NoAnswer
  /\ settled' = settled \cup
       {e.m : e \in {inbox[i] : i \in {j \in DOMAIN inbox :
                       /\ inbox[j].m \in got
                       /\ answer.cursor.v = validity
                       /\ inbox[j].uid <= answer.cursor.u
                       /\ inbox[j].uid <= highWater}}}
  /\ UNCHANGED <<seen, seenRam, awaiting, boundVars, got, unapplied>>

\* SetCursor fails: the old cursor is in force, unless power is lost with the
\* new file in place.
ApplyCursorFails ==
  /\ answer.some /\ answer.letters = <<>>
  /\ Fault
  /\ stored' = IF answer.fresh THEN Newest(stored) ELSE stored
  /\ cursor' \in {cursor, answer.cursor}
  /\ answer' = NoAnswer
  /\ seenRam' = IF cursor' = cursor THEN seenRam ELSE seen
  /\ UNCHANGED <<seen, awaiting, got, settled, unapplied>>

PowerCut ==
  /\ awaiting \/ answer.some \/ seenRam # seen
  /\ Fault
  /\ awaiting' = FALSE
  /\ answer' = NoAnswer
  /\ seenRam' = seen
  /\ UNCHANGED <<cursor, stored, seen, got, settled, unapplied>>

\* The letters partition is formatted: a factory-reset device.
Wipe ==
  /\ wipes < MaxWipes
  /\ wipes' = wipes + 1
  /\ cursor' = NoCursor /\ stored' = {} /\ seen' = <<>> /\ seenRam' = <<>>
  /\ awaiting' = FALSE /\ answer' = NoAnswer
  /\ got' = {}
  /\ UNCHANGED <<arrived, changes, faults, settled, unapplied>>
-----------------------------------------------------------------------------
Next ==
  \/ Arrive \/ Mutate \/ ResetUids
  \/ StartReconcile \/ SyncReconcile \/ ReconcileOne \/ ReconcileFails \/ ReconcileEnd
  \/ StartSpam \/ SyncSpam \/ TickSpam
  \/ HandleNotify \/ FileArrival \/ FileArrivalFails \/ ArrivalEnd
  \/ \E m \in held : Release(m)
  \/ ReleaseMove \/ ReleaseFails
  \/ SendRequest \/ Fetch \/ Derive \/ Reply \/ SyncFails \/ Crash
  \/ ApplyLetter \/ ApplyLetterFails \/ ApplyCursor \/ ApplyCursorFails
  \/ PowerCut \/ Wipe

Spec == Init /\ [][Next]_vars

\* The server's goroutines and the device's task go on while they can, and the
\* device syncs on its interval whatever happened before.  IDLE reports changes of
\* INBOX, so it falls silent when these end: "n:*" alone would have arrival passes
\* take the filing mutex for ever.
Progress ==
  /\ WF_vars(StartReconcile) /\ WF_vars(StartSpam)
  /\ WF_vars(SyncReconcile) /\ WF_vars(ReconcileOne) /\ WF_vars(ReconcileEnd)
  /\ WF_vars(SyncSpam) /\ WF_vars(FileArrival) /\ WF_vars(ArrivalEnd)
  /\ WF_vars(ReleaseMove)
  /\ WF_vars(SendRequest) /\ WF_vars(Fetch) /\ WF_vars(Derive) /\ WF_vars(Reply)
  /\ WF_vars(ApplyLetter) /\ WF_vars(ApplyCursor)
  /\ <>[][~HandleNotify]_vars

FairSpec == Spec /\ Progress
-----------------------------------------------------------------------------
(* What must hold. *)

\* The cursor never gets ahead of the letters: whatever is in INBOX at or below
\* the device's cursor has been stored, or was a stranger's when the sync met it,
\* or lies outside the window of a resync (ApplyResponse writes the cursor last).
CursorCovers ==
  Concrete(cursor) =>
    \A i \in DOMAIN inbox :
      inbox[i].uid <= cursor.u => inbox[i].m \in got \cup skipped \cup beyond

\* What takes a settled letter e back to Held after all.  "n:*" of an arrival pass
\* returns the newest letter decided about, and judges it by today's table.
FetchedAgain(e) ==
  /\ e.uid <= highWater
  /\ \A f \in Elements(inbox) : f.uid > e.uid => f.uid > highWater

\* Before filing's Start is through, the pass behind a release takes all of INBOX
\* for arrivals; in a rebuilt mailbox the mark is one of other UIDs.
MarkUnset == started # "yes" \/ validity > 1

\* A device that lost its cursor, or whose mailbox was rebuilt, gets a new cursor
\* from a window resync, and that one may be below what it had.
BoundaryLost(e) ==
  /\ wipes > 0 \/ validity > 1
  /\ Concrete(cursor) => e.uid > cursor.u

\* A letter the child has, that filing decided to keep, is not taken back to Held,
\* whoever is removed or moves to another address afterwards: the decision is made
\* once, at arrival, except as above.
HistoryStays ==
  [][\A e \in Elements(inbox) :
       e.m \in settled \ held /\ e.m \in held' =>
         \/ Filing /\ (FetchedAgain(e) \/ MarkUnset)
         \/ pass.kind = "sync" /\ BoundaryLost(e)]_vars

\* The same without exception, which the code does not keep.
HistoryNeverHeld == settled \cap held = {}

\* What the device evicted does not come back while the seen ring remembers it.
\* The RAM copy is asked, and it runs ahead of the file after a write of the ring
\* that failed (Add pushes and pops before it appends): full, it may by then have
\* dropped an id the file still has.
EvictedStaysGone ==
  [][(seen = seenRam \/ Len(seenRam) < SeenCap)
       => \A m \in Elements(seen) : m \in stored' => m \in stored]_vars

\* An answer to a device with a boundary carries nothing from a sender who was
\* removed when the letter came and has been ever since, but for what came after
\* the sync's pass listed INBOX, and what an earlier sync had met: "n:*" returns
\* the last letter below the boundary when nothing is above it.
RemovedStaysOut ==
  awaiting /\ last.v = asked.v =>
    Elements(letters) \cap shutOut \subseteq late \cup got \cup skipped \cup beyond

\* The boundary ReconcileSync holds above never falls below a letter in INBOX it
\* was above.  The UID itself may fall, to the last letter that "n:*" returns,
\* when the ones behind it have left INBOX.
CursorRises ==
  [][Concrete(cursor) /\ cursor'.v = cursor.v =>
       \A i \in DOMAIN inbox :
         inbox[i].uid <= cursor.u => inbox[i].uid <= cursor'.u]_vars

\* A letter left in INBOX whose sender is active gets to the child, unless the
\* sender is removed first, or a sync met it while the sender was a stranger.
ActiveMailDelivered ==
  \A m \in Mails \ Unreadable :
    (m \in MailsIn(inbox) /\ Active(contacts, m))
      ~> (m \in got \cup skipped \cup beyond \/ ~Active(contacts, m))

\* The mail of an active contact in INBOX is on the device or ahead of its cursor:
\* nothing is skipped for good.
NothingSkipped ==
  Concrete(cursor) =>
    \A i \in DOMAIN inbox :
      inbox[i].uid <= cursor.u /\ Active(contacts, inbox[i].m)
        => inbox[i].m \in got \cup beyond
=============================================================================
