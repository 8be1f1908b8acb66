--------------------------- MODULE DeliveryProofs ---------------------------
(***************************************************************************)
(* Delivery for every number of letters, batch, window, ring and bound on  *)
(* faults, wipes and UIDVALIDITY changes, and for either answer to "n:*":  *)
(* the device's cursor never gets ahead of its letters and never falls     *)
(* below one it was above, what the device evicted stays gone, an answer   *)
(* holds nothing a removed sender sent in time for the sweep, and a letter *)
(* the child has is taken back only where HistoryStays says so.            *)
(*                                                                         *)
(* CursorCovers speaks of the cursor on flash.  The invariant follows the  *)
(* claim back along the way the next cursor comes: to the answer being     *)
(* applied (Answered), and from there to the handler that still derives it *)
(* (Derived).  Mail arrives and is moved in between, so each part also     *)
(* says that nobody's boundary is above the UIDs given out so far.         *)
(***************************************************************************)
EXTENDS Delivery, SieveFacts

\* INBOX is in the order of its UIDs.
UidOrder == {p \in Envelope \X Envelope : p[1].uid < p[2].uid}

PassType(p) ==
  /\ p \in [kind : {"none", "start", "sync", "resync", "arrival", "more", "release"},
            list : Seq(Envelope), bound : Nat, top : Nat]
  /\ p.kind = "release" => p.list # <<>>

MailTypes ==
  /\ inbox \in Seq(Envelope) /\ held \in SUBSET Mails /\ spam \in SUBSET Mails
  /\ nextUid \in Nat \ {0} /\ validity \in Nat \ {0}

SyncTypes ==
  /\ asked \in Cursors /\ raws \in Seq(Envelope) /\ letters \in Seq(Mails)
  /\ last \in Cursors

DeviceTypes ==
  /\ cursor \in Cursors /\ seen \in Seq(Mails) /\ seenRam \in Seq(Mails)
  /\ awaiting \in BOOLEAN
  /\ answer \in [some : BOOLEAN, letters : Seq(Mails), fresh : BOOLEAN,
                 cursor : Cursors]

Types == MailTypes /\ PassType(pass) /\ SyncTypes /\ DeviceTypes

\* UIDs are given out in order and never again.
InOrder ==
  /\ Ordered(inbox, UidOrder)
  /\ \A e \in Elements(inbox) : 0 < e.uid /\ e.uid < nextUid

\* A boundary was read from this mailbox, or is of an earlier UIDVALIDITY.
Behind(c) ==
  /\ c.v <= validity
  /\ c.v = validity => c.u < nextUid
  /\ c.v = 0 => c.u = 0

Boundaries ==
  /\ Behind(cursor) /\ Behind(answer.cursor)
  /\ answer.some => answer.cursor.v # 0
  /\ awaiting /\ phase = "derive" =>
       /\ Behind(last) /\ last.v # 0
       /\ Concrete(last) => \A e \in Elements(raws) : e.uid < nextUid

\* An answer the device waits for is being made, from the cursor it has.
Asking == awaiting => phase # "idle" /\ ~answer.some /\ asked = cursor

RingsAreGot == Elements(seen) \subseteq got /\ Elements(seenRam) \subseteq got

Passed == got \cup skipped \cup beyond

\* What the handler has derived covers INBOX up to last, and with what it has
\* fetched, in order, up to each fetched message.
Derived ==
  awaiting /\ phase = "derive" /\ Concrete(last) =>
    /\ \A e \in Elements(inbox) : e.uid <= last.u => e.m \in Passed \cup Elements(letters)
    /\ \A k \in DOMAIN raws, e \in Elements(inbox) :
         e.uid <= raws[k].uid => \/ e.m \in Passed \cup Elements(letters)
                                 \/ \E j \in 1..k : raws[j] = e

\* What is left of the answer covers INBOX up to the cursor it brings.
Answered ==
  answer.some /\ Concrete(answer.cursor) =>
    \A e \in Elements(inbox) :
      e.uid <= answer.cursor.u => e.m \in Passed \cup Elements(answer.letters)

Applied ==
  Concrete(cursor) =>
    \A e \in Elements(inbox) : e.uid <= cursor.u => e.m \in Passed

\* Boundary d is above whatever is in INBOX at or below boundary c.
NotBelow(c, d) == \A e \in Elements(inbox) : e.uid <= c => e.uid <= d

\* So is the next cursor, wherever it is on its way.
Rising ==
  /\ answer.some /\ Concrete(cursor) /\ Concrete(answer.cursor) =>
       NotBelow(cursor.u, answer.cursor.u)
  /\ awaiting /\ phase = "derive" /\ Concrete(asked) /\ Concrete(last) =>
       NotBelow(asked.u, last.u) /\ \A r \in Elements(raws) : NotBelow(asked.u, r.uid)

\* The RAM ring has what the file has, until it is full.
RamAhead == Elements(seen) \subseteq Elements(seenRam) \/ Len(seenRam) >= SeenCap

\* The part of the invariant beyond the types.
Follows ==
  /\ InOrder /\ Boundaries /\ Asking /\ RingsAreGot
  /\ Derived /\ Answered /\ Applied /\ Rising /\ RamAhead

DeliveryInv == Types /\ Follows
-----------------------------------------------------------------------------
(* The operators of the mailbox. *)

\* A record of the mailbox has a UID and a letter.
LEMMA EnvelopeFacts ==
  ASSUME NEW e \in Envelope
  PROVE  e.uid \in Nat /\ e.m \in Mails
BY DEF Envelope

\* The same for the entries of a list.
LEMMA ListFacts ==
  ASSUME NEW s \in Seq(Envelope)
  PROVE  /\ \A e \in Elements(s) : e \in Envelope /\ e.uid \in Nat /\ e.m \in Mails
         /\ \A k \in DOMAIN s : s[k] \in Elements(s) /\ s[k].uid \in Nat
<1>1. \A k \in DOMAIN s : s[k] \in Envelope /\ s[k] \in Elements(s)
  BY DEF Elements
<1>2. \A e \in Elements(s) : e \in Envelope
  BY <1>1 DEF Elements
<1> QED BY <1>1, <1>2, EnvelopeFacts

\* FirstN is a prefix.
LEMMA FirstNFacts ==
  ASSUME NEW X, NEW s \in Seq(X), NEW n \in Nat
  PROVE  /\ FirstN(s, n) \in Seq(X)
         /\ Len(FirstN(s, n)) = Smaller(n, Len(s))
         /\ \A i \in DOMAIN FirstN(s, n) : i \in DOMAIN s /\ FirstN(s, n)[i] = s[i]
         /\ Elements(FirstN(s, n)) \subseteq Elements(s)
<1> DEFINE k == Smaller(n, Len(s))
           f == FirstN(s, n)
<1>1. Len(s) \in Nat /\ k \in 0..Len(s) /\ DOMAIN s = 1..Len(s)
  BY DEF Smaller
<1>2. f = SubSeq(s, 1, k)
  BY DEF FirstN
<1> HIDE DEF k, f
<1>3. f \in Seq(X) /\ Len(f) = k /\ DOMAIN f = 1..k /\ \A i \in 1..k : f[i] = s[i]
  BY <1>1, <1>2
<1>4. \A i \in DOMAIN f : i \in DOMAIN s /\ f[i] = s[i]
  BY <1>1, <1>3
<1>5. Elements(f) \subseteq Elements(s)
  BY <1>4 DEF Elements
<1> QED BY <1>3, <1>4, <1>5 DEF k, f

\* LastN is a suffix.
LEMMA LastNFacts ==
  ASSUME NEW X, NEW s \in Seq(X), NEW n \in Nat
  PROVE  LET d == Len(s) - Smaller(n, Len(s)) IN
         /\ LastN(s, n) \in Seq(X)
         /\ d \in 0..Len(s)
         /\ Len(LastN(s, n)) = Smaller(n, Len(s))
         /\ \A i \in DOMAIN LastN(s, n) : i + d \in DOMAIN s /\ LastN(s, n)[i] = s[i + d]
         /\ \A j \in DOMAIN s : j > d => j - d \in DOMAIN LastN(s, n)
         /\ Elements(LastN(s, n)) \subseteq Elements(s)
<1> DEFINE k == Smaller(n, Len(s))
           d == Len(s) - k
           f == LastN(s, n)
<1>1. Len(s) \in Nat /\ k \in 0..Len(s) /\ DOMAIN s = 1..Len(s)
  BY DEF Smaller
<1>2. f = SubSeq(s, d + 1, Len(s))
  BY DEF LastN
<1> HIDE DEF k, f
<1>3. /\ f \in Seq(X) /\ Len(f) = k /\ DOMAIN f = 1..k
      /\ \A i \in 1..k : f[i] = s[i + d]
  BY <1>1, <1>2
<1>4. \A i \in DOMAIN f : i + d \in DOMAIN s /\ f[i] = s[i + d]
  BY <1>1, <1>3
<1>5. Elements(f) \subseteq Elements(s)
  BY <1>4 DEF Elements
<1>6. \A j \in DOMAIN s : j > d => j - d \in DOMAIN f
  BY <1>1, <1>3
<1>7. d \in 0..Len(s)
  BY <1>1
<1> QED BY <1>3, <1>4, <1>5, <1>6, <1>7 DEF k, f

\* In a list in the order of UIDs, a smaller UID comes first.
LEMMA OrderedIndex ==
  ASSUME NEW s \in Seq(Envelope), Ordered(s, UidOrder),
         NEW i \in DOMAIN s, NEW j \in DOMAIN s, s[i].uid <= s[j].uid
  PROVE  i <= j
<1>1. s[i] \in Envelope /\ s[j] \in Envelope /\ i \in Nat /\ j \in Nat
  OBVIOUS
<1>2. s[i].uid \in Nat /\ s[j].uid \in Nat
  BY <1>1, EnvelopeFacts
<1>3. ASSUME j < i PROVE FALSE
  <2>1. <<s[j], s[i]>> \in UidOrder
    BY <1>3 DEF Ordered
  <2>2. s[j].uid < s[i].uid
    BY <2>1 DEF UidOrder
  <2> QED BY <2>2, <1>2
<1> QED BY <1>1, <1>3

\* What a step may do to INBOX while UIDVALIDITY stays: take messages out, and
\* put new ones in above every UID given out.
MailMoved ==
  /\ inbox' \in Seq(Envelope) /\ Ordered(inbox', UidOrder)
  /\ nextUid' \in Nat /\ nextUid' >= nextUid /\ validity' = validity
  /\ \A e \in Elements(inbox') :
       (e \in Elements(inbox) \/ e.uid = nextUid) /\ e.uid < nextUid'

\* INBOX as it was.
LEMMA MailStays ==
  ASSUME Types, InOrder, inbox' = inbox, nextUid' = nextUid, validity' = validity
  PROVE  MailMoved
BY DEF Types, MailTypes, SyncTypes, DeviceTypes, InOrder, MailMoved

\* A MOVE to Held only takes a message out.
LEMMA MailToHeld ==
  ASSUME Types, InOrder, NEW e, ToHeld(e)
  PROVE  MailMoved
<1> DEFINE S == Elements(inbox) \ {e}
<1>1. inbox' = Kept(inbox, S) /\ nextUid' = nextUid /\ validity' = validity
  BY DEF ToHeld
<1> HIDE DEF S
<1>2. inbox \in Seq(Envelope)
  BY DEF Types, MailTypes, SyncTypes, DeviceTypes
<1>3. inbox' \in Seq(Envelope) /\ Elements(inbox') = Elements(inbox) \cap S
  BY <1>1, <1>2, KeptFacts
<1>4. Ordered(inbox', UidOrder)
  BY <1>1, <1>2, KeptOrdered DEF InOrder
<1> QED BY <1>1, <1>3, <1>4 DEF MailMoved, Types, MailTypes, SyncTypes, DeviceTypes, InOrder

\* A message that comes in gets the next UID.
LEMMA MailAppended ==
  ASSUME Types, InOrder, NEW m \in Mails,
         inbox' = Append(inbox, [uid |-> nextUid, m |-> m]),
         nextUid' = nextUid + 1, validity' = validity
  PROVE  MailMoved
<1> DEFINE e == [uid |-> nextUid, m |-> m]
<1>1. e \in Envelope /\ e.uid = nextUid /\ nextUid \in Nat /\ inbox \in Seq(Envelope)
  BY DEF Types, MailTypes, SyncTypes, DeviceTypes, Envelope
<1> HIDE DEF e
<1>2. inbox' = Append(inbox, e)
  BY DEF e
<1>3. inbox' \in Seq(Envelope) /\ Elements(inbox') = Elements(inbox) \cup {e}
  BY <1>1, <1>2, AppendElements
<1>4. /\ Len(inbox) \in Nat /\ DOMAIN inbox = 1..Len(inbox)
      /\ DOMAIN inbox' = 1..(Len(inbox) + 1)
      /\ inbox'[Len(inbox) + 1] = e /\ \A i \in 1..Len(inbox) : inbox'[i] = inbox[i]
  BY <1>1, <1>2
<1>5. Ordered(inbox', UidOrder)
  <2> SUFFICES ASSUME NEW i \in DOMAIN inbox', NEW j \in DOMAIN inbox', i < j
               PROVE  <<inbox'[i], inbox'[j]>> \in UidOrder
    BY DEF Ordered
  <2>1. i \in DOMAIN inbox /\ inbox'[i] = inbox[i]
    BY <1>4
  <2>2. CASE j \in DOMAIN inbox
    <3>1. inbox'[j] = inbox[j]
      BY <2>2, <1>4
    <3> QED BY <2>1, <2>2, <3>1 DEF InOrder, Ordered
  <2>3. CASE j \notin DOMAIN inbox
    <3>1. inbox'[j] = e
      BY <2>3, <1>4
    <3>2. inbox[i] \in Envelope /\ inbox[i] \in Elements(inbox)
      BY <2>1, <1>1 DEF Elements
    <3>3. inbox[i].uid < e.uid
      BY <3>2, <1>1 DEF InOrder
    <3> QED BY <2>1, <3>1, <3>2, <3>3, <1>1 DEF UidOrder
  <2> QED BY <2>2, <2>3
<1>6. \A f \in Elements(inbox') : (f \in Elements(inbox) \/ f.uid = nextUid) /\ f.uid < nextUid'
  <2> SUFFICES ASSUME NEW f \in Elements(inbox')
               PROVE  (f \in Elements(inbox) \/ f.uid = nextUid) /\ f.uid < nextUid + 1
    OBVIOUS
  <2>1. CASE f = e
    BY <2>1, <1>1
  <2>2. CASE f \in Elements(inbox)
    <3>1. f \in Envelope
      BY <2>2, <1>1 DEF Elements
    <3> QED BY <3>1, <2>2, <1>1, EnvelopeFacts DEF InOrder
  <2> QED BY <2>1, <2>2, <1>3
<1> QED BY <1>1, <1>3, <1>5, <1>6 DEF MailMoved

\* A step that leaves the device alone, apart from giving up the answer it waits
\* for, and the handler where it is, or moves it on to a phase with no letters.
Quiet ==
  /\ UNCHANGED <<cursor, answer, seen, seenRam, got, skipped, beyond>>
  /\ \/ UNCHANGED <<syncVars, awaiting>>
     \/ awaiting' = FALSE /\ phase' # "derive"
     \/ UNCHANGED <<asked, awaiting>> /\ phase' \notin {"idle", "derive"}

\* Mail that moves during a quiet step hides nothing: what comes is above every
\* boundary.
LEMMA QuietStep ==
  ASSUME Types, Follows, Quiet, MailMoved, Types'
  PROVE  Follows'
<1>1. /\ nextUid \in Nat /\ nextUid' \in Nat /\ nextUid' >= nextUid /\ validity' = validity
      /\ \A e \in Elements(inbox') : e \in Envelope /\ e.uid \in Nat
      /\ \A e \in Elements(inbox') : e \in Elements(inbox) \/ e.uid = nextUid
  <2>1. inbox' \in Seq(Envelope)
    BY DEF MailMoved
  <2>2. \A e \in Elements(inbox') : e \in Envelope
    BY <2>1 DEF Elements
  <2> QED BY <2>2, EnvelopeFacts DEF MailMoved, Types, MailTypes, SyncTypes, DeviceTypes
<1>2. InOrder'
  <2>1. nextUid > 0
    BY DEF Types, MailTypes
  <2> QED BY <2>1, <1>1 DEF MailMoved, Follows, InOrder
<1>3. UNCHANGED <<cursor, answer, seen, seenRam, got, skipped, beyond>> /\ Passed' = Passed
  BY DEF Quiet, Passed
<1>4. awaiting' /\ phase' = "derive" => UNCHANGED <<syncVars, awaiting>>
  BY DEF Quiet
<1>6. Boundaries'
  <2>1. cursor \in Cursors /\ answer.cursor \in Cursors /\ validity \in Nat
    BY DEF Types, MailTypes, SyncTypes, DeviceTypes
  <2>2. Behind(cursor)' /\ Behind(answer.cursor)'
    BY <2>1, <1>1, <1>3 DEF Follows, Boundaries, Behind, Cursors
  <2>3. ASSUME awaiting', phase' = "derive"
        PROVE  /\ Behind(last)' /\ last'.v # 0
               /\ Concrete(last)' => \A e \in Elements(raws') : e.uid < nextUid'
    <3>1. last' = last /\ raws' = raws /\ phase = "derive" /\ awaiting
      BY <2>3, <1>4 DEF syncVars
    <3>2. last \in Cursors /\ \A e \in Elements(raws) : e.uid \in Nat
      BY ListFacts DEF Types, MailTypes, SyncTypes, DeviceTypes
    <3>3. /\ Behind(last) /\ last.v # 0
          /\ Concrete(last) => \A e \in Elements(raws) : e.uid < nextUid
      BY <3>1 DEF Follows, Boundaries
    <3>4. Behind(last)'
      BY <3>1, <3>2, <3>3, <1>1 DEF Behind, Cursors
    <3> QED BY <3>1, <3>2, <3>3, <3>4, <1>1 DEF Concrete
  <2> QED BY <2>2, <2>3, <1>3 DEF Boundaries, Follows
<1>7. Asking'
  BY <1>3 DEF Quiet, Follows, Asking, syncVars
<1>8. RingsAreGot' /\ RamAhead'
  BY <1>3 DEF Follows, RingsAreGot, RamAhead
<1>9. Derived'
  <2> SUFFICES ASSUME awaiting', phase' = "derive", Concrete(last)' PROVE Derived'
    BY DEF Derived
  <2>1. UNCHANGED <<syncVars, awaiting>> /\ awaiting /\ phase = "derive" /\ Concrete(last)
    BY <1>1, <1>4 DEF syncVars, Concrete
  <2>2. /\ raws' = raws /\ letters' = letters /\ last' = last /\ last.u \in Nat
        /\ last.u < nextUid /\ \A k \in DOMAIN raws : raws[k].uid \in Nat /\ raws[k].uid < nextUid
    <3>1. raws \in Seq(Envelope) /\ last \in Cursors
      BY DEF Types, SyncTypes
    <3>2. /\ Behind(last) /\ \A e \in Elements(raws) : e.uid < nextUid
      BY <2>1 DEF Follows, Boundaries
    <3>3. last.u \in Nat /\ last.u < nextUid
      BY <2>1, <3>1, <3>2 DEF Behind, Concrete, Cursors
    <3> QED BY <2>1, <3>1, <3>2, <3>3, ListFacts DEF syncVars
  <2>3. ASSUME NEW e \in Elements(inbox'), e.uid <= last.u
        PROVE  e.m \in Passed \cup Elements(letters)
    <3>1. e \in Elements(inbox)
      BY <2>2, <2>3, <1>1
    <3> QED BY <3>1, <2>1, <2>3 DEF Follows, Derived
  <2>4. ASSUME NEW k \in DOMAIN raws, NEW e \in Elements(inbox'), e.uid <= raws[k].uid
        PROVE  e.m \in Passed \cup Elements(letters) \/ \E j \in 1..k : raws[j] = e
    <3>1. e \in Elements(inbox)
      BY <2>2, <2>4, <1>1
    <3> QED BY <3>1, <2>1, <2>4 DEF Follows, Derived
  <2> QED BY <2>2, <2>3, <2>4, <1>3 DEF Derived
<1>10. Answered'
  <2> SUFFICES ASSUME answer.some, answer.cursor.v = validity, NEW e \in Elements(inbox'),
                      e.uid <= answer.cursor.u
               PROVE  e.m \in Passed \cup Elements(answer.letters)
    BY <1>1, <1>3 DEF Answered, Concrete
  <2>1. answer.cursor.u \in Nat /\ answer.cursor.u < nextUid
    BY DEF Types, MailTypes, SyncTypes, DeviceTypes, Cursors, Follows, Boundaries, Behind
  <2>2. e \in Elements(inbox)
    BY <2>1, <1>1
  <2> QED BY <2>2 DEF Follows, Answered, Concrete
<1>11. Applied'
  <2> SUFFICES ASSUME cursor.v = validity, NEW e \in Elements(inbox'), e.uid <= cursor.u
               PROVE  e.m \in Passed
    BY <1>1, <1>3 DEF Applied, Concrete
  <2>1. cursor.u \in Nat /\ cursor.u < nextUid
    BY DEF Types, MailTypes, SyncTypes, DeviceTypes, Cursors, Follows, Boundaries, Behind
  <2>2. e \in Elements(inbox)
    BY <2>1, <1>1
  <2> QED BY <2>2 DEF Follows, Applied, Concrete
<1>12. Rising'
  <2>1. ASSUME NEW c \in Nat, NEW d \in Nat, c < nextUid, NotBelow(c, d)
        PROVE  NotBelow(c, d)'
    <3> SUFFICES ASSUME NEW e \in Elements(inbox'), e.uid <= c PROVE e.uid <= d
      BY DEF NotBelow
    <3>1. e \in Elements(inbox)
      BY <2>1, <1>1
    <3> QED BY <3>1, <2>1 DEF NotBelow
  <2>2. cursor \in Cursors /\ answer.cursor \in Cursors /\ asked \in Cursors /\ last \in Cursors
    BY DEF Types, SyncTypes, DeviceTypes
  <2>3. Concrete(cursor) => cursor.u < nextUid
    BY DEF Follows, Boundaries, Behind, Concrete
  <2>4. ASSUME answer'.some, Concrete(cursor)', Concrete(answer.cursor)'
        PROVE  NotBelow(cursor.u, answer.cursor.u)'
    <3>1. NotBelow(cursor.u, answer.cursor.u) /\ cursor.u < nextUid
      BY <2>3, <2>4, <1>1, <1>3 DEF Follows, Rising, Concrete
    <3>2. PICK c \in Nat, d \in Nat : c = cursor.u /\ d = answer.cursor.u
      BY <2>2 DEF Cursors
    <3>3. NotBelow(c, d)'
      BY <3>1, <3>2, <2>1
    <3> QED BY <3>2, <3>3, <1>3 DEF NotBelow
  <2>5. ASSUME awaiting', phase' = "derive", Concrete(asked)', Concrete(last)'
        PROVE  NotBelow(asked.u, last.u)' /\ \A r \in Elements(raws') : NotBelow(asked.u, r.uid)'
    <3>1. UNCHANGED <<asked, last, raws>> /\ awaiting /\ phase = "derive" /\ asked = cursor
      BY <2>5, <1>4 DEF syncVars, Follows, Asking
    <3>2. /\ NotBelow(asked.u, last.u) /\ \A r \in Elements(raws) : NotBelow(asked.u, r.uid)
          /\ asked.u < nextUid
      BY <2>3, <2>5, <3>1, <1>1 DEF Follows, Rising, Concrete
    <3>3. PICK c \in Nat, d \in Nat : c = asked.u /\ d = last.u
      BY <2>2 DEF Cursors
    <3>4. NotBelow(c, d)'
      BY <3>2, <3>3, <2>1
    <3>5. ASSUME NEW r \in Elements(raws) PROVE NotBelow(asked.u, r.uid)'
      <4>1. PICK k \in Nat : k = r.uid
        BY ListFacts DEF Types, SyncTypes
      <4>2. NotBelow(c, k)'
        BY <4>1, <3>2, <3>3, <2>1
      <4> QED BY <4>1, <4>2, <3>1, <3>3 DEF NotBelow
    <3> QED BY <3>1, <3>3, <3>4, <3>5 DEF NotBelow
  <2> QED BY <2>4, <2>5 DEF Rising
<1> QED BY <1>2, <1>6, <1>7, <1>8, <1>9, <1>10, <1>11, <1>12 DEF Follows
-----------------------------------------------------------------------------
(* What a sync reads. *)

\* What lies above a UID, in order.
LEMMA AboveFacts ==
  ASSUME inbox \in Seq(Envelope), NEW u
  PROVE  /\ Above(u) \in Seq(Envelope)
         /\ Elements(Above(u)) = {e \in Elements(inbox) : e.uid > u}
         /\ Ordered(inbox, UidOrder) => Ordered(Above(u), UidOrder)
<1> DEFINE S == {e \in Elements(inbox) : e.uid > u}
<1>1. Above(u) = Kept(inbox, S) /\ S \subseteq Elements(inbox)
  BY DEF Above
<1> HIDE DEF S
<1>2. Above(u) \in Seq(Envelope) /\ Elements(Above(u)) = Elements(inbox) \cap S
  BY <1>1, KeptFacts
<1>3. Ordered(inbox, UidOrder) => Ordered(Above(u), UidOrder)
  BY <1>1, KeptOrdered
<1> QED BY <1>1, <1>2, <1>3 DEF S

\* What a fetch returns is in INBOX, and below nothing there that is not above u:
\* a message at or below u only comes back when it is the last one.
LEMMA FetchType ==
  ASSUME inbox \in Seq(Envelope), NEW u, NEW max \in Nat
  PROVE  /\ FetchAbove(u, max) \in Seq(Envelope)
         /\ Elements(FetchAbove(u, max)) \subseteq Elements(inbox)
         /\ u \in Nat /\ Ordered(inbox, UidOrder) =>
              \A r \in Elements(FetchAbove(u, max)) : NotBelow(u, r.uid)
<1>1. Above(u) \in Seq(Envelope) /\ Elements(Above(u)) = {e \in Elements(inbox) : e.uid > u}
  BY AboveFacts
<1>2. FirstN(Above(u), max) \in Seq(Envelope)
      /\ Elements(FirstN(Above(u), max)) \subseteq Elements(Above(u))
  BY <1>1, FirstNFacts
<1>3. LastN(inbox, 1) \in Seq(Envelope) /\ Elements(LastN(inbox, 1)) \subseteq Elements(inbox)
  BY LastNFacts
<1>4. FetchAbove(u, max) \in {FirstN(Above(u), max), LastN(inbox, 1)}
  BY DEF FetchAbove
<1>5. ASSUME u \in Nat, Ordered(inbox, UidOrder), NEW r \in Elements(FetchAbove(u, max)),
             NEW e \in Elements(inbox), e.uid <= u
      PROVE  e.uid <= r.uid
  <2>1. e.uid \in Nat
    BY ListFacts
  <2>2. CASE r \in Elements(FirstN(Above(u), max))
    <3>1. r \in Elements(inbox) /\ r.uid > u
      BY <2>2, <1>1, <1>2
    <3> QED BY <3>1, <2>1, <1>5, ListFacts
  <2>3. CASE r \in Elements(LastN(inbox, 1))
    <3> DEFINE l == LastN(inbox, 1)
               d == Len(inbox) - Smaller(1, Len(inbox))
    <3>1. /\ \A i \in DOMAIN l : i + d \in DOMAIN inbox /\ l[i] = inbox[i + d]
          /\ Len(l) = Smaller(1, Len(inbox)) /\ l \in Seq(Envelope) /\ d \in 0..Len(inbox)
      BY LastNFacts
    <3> HIDE DEF l
    <3>2. PICK k \in DOMAIN l : l[k] = r
      BY <2>3 DEF Elements, l
    <3>3. PICK i \in DOMAIN inbox : inbox[i] = e
      BY DEF Elements
    <3>4. k = 1 /\ k + d = Len(inbox) /\ i <= Len(inbox)
      BY <3>1, <3>2, <3>3 DEF Smaller
    <3>5. inbox[Len(inbox)] = r /\ Len(inbox) \in DOMAIN inbox
      BY <3>1, <3>2, <3>4
    <3>6. CASE i = Len(inbox)
      BY <3>3, <3>5, <3>6, <2>1
    <3>7. CASE i < Len(inbox)
      <4>1. <<inbox[i], inbox[Len(inbox)]>> \in UidOrder
        BY <1>5, <3>5, <3>7 DEF Ordered
      <4> QED BY <4>1, <3>3, <3>5, <2>1, ListFacts DEF UidOrder
    <3> QED BY <3>4, <3>6, <3>7
  <2> QED BY <2>2, <2>3, <1>4, <1>5
<1>6. u \in Nat /\ Ordered(inbox, UidOrder) =>
        \A r \in Elements(FetchAbove(u, max)) : NotBelow(u, r.uid)
  BY <1>5 DEF NotBelow
<1> QED BY <1>1, <1>2, <1>3, <1>4, <1>6

\* A fetch above u leaves no gap: a message at or below a fetched one is at or
\* below u, or was fetched no later.
LEMMA FetchNoGap ==
  ASSUME inbox \in Seq(Envelope), Ordered(inbox, UidOrder), NEW u \in Nat, NEW max \in Nat,
         NEW k \in DOMAIN FetchAbove(u, max), NEW e \in Elements(inbox),
         e.uid <= FetchAbove(u, max)[k].uid
  PROVE  e.uid <= u \/ \E j \in 1..k : FetchAbove(u, max)[j] = e
<1> DEFINE a == Above(u)
           f == FetchAbove(u, max)
<1>1. a \in Seq(Envelope) /\ Elements(a) = {x \in Elements(inbox) : x.uid > u}
      /\ Ordered(a, UidOrder)
  BY AboveFacts
<1>2. e.uid \in Nat
  BY ListFacts
<1>3. CASE a = <<>>
  <2>1. e \notin Elements(a)
    BY <1>3 DEF Elements
  <2> QED BY <2>1, <1>1, <1>2
<1>4. CASE a # <<>>
  <2>1. f = FirstN(a, max)
    BY <1>4 DEF FetchAbove
  <2> HIDE DEF a, f
  <2>2. f \in Seq(Envelope) /\ \A i \in DOMAIN f : i \in DOMAIN a /\ f[i] = a[i]
    BY <2>1, <1>1, FirstNFacts
  <2>3. k \in DOMAIN f /\ k \in DOMAIN a /\ f[k] = a[k]
    BY <2>2 DEF f
  <2> SUFFICES ASSUME ~(e.uid <= u) PROVE \E j \in 1..k : f[j] = e
    BY DEF f
  <2>4. e \in Elements(a)
    BY <1>1, <1>2
  <2>5. PICK j \in DOMAIN a : a[j] = e
    BY <2>4 DEF Elements
  <2>6. a[j].uid <= a[k].uid
    BY <2>3, <2>5 DEF f
  <2>7. j <= k
    BY <2>3, <2>6, <1>1, OrderedIndex
  <2>8. j \in 1..k /\ j \in DOMAIN f
    <3>1. DOMAIN a = 1..Len(a) /\ Len(a) \in Nat /\ DOMAIN f = 1..Len(f) /\ Len(f) \in Nat
      BY <1>1, <2>2
    <3> QED BY <3>1, <2>3, <2>7
  <2> QED BY <2>2, <2>5, <2>8
<1> QED BY <1>3, <1>4

\* The window of a resync leaves no gap either: a message of INBOX at or below
\* one of the window is before the window, or in it no later.
LEMMA WindowNoGap ==
  ASSUME inbox \in Seq(Envelope), Ordered(inbox, UidOrder), NEW n \in Nat,
         NEW k \in DOMAIN Recent(n), NEW e \in Elements(inbox),
         e.uid <= Recent(n)[k].uid
  PROVE  e.m \in MailsIn(Older(n)) \/ \E j \in 1..k : Recent(n)[j] = e
<1> DEFINE d == Len(inbox) - Smaller(n, Len(inbox))
           r == LastN(inbox, n)
           o == FirstN(inbox, d)
<1>1. /\ d \in 0..Len(inbox) /\ r \in Seq(Envelope)
      /\ \A i \in DOMAIN r : i + d \in DOMAIN inbox /\ r[i] = inbox[i + d]
      /\ \A j \in DOMAIN inbox : j > d => j - d \in DOMAIN r
  BY LastNFacts
<1>2. r = Recent(n) /\ o = Older(n)
  BY DEF Recent, Older
<1>3. Len(inbox) \in Nat /\ DOMAIN inbox = 1..Len(inbox)
  OBVIOUS
<1> HIDE DEF d, r, o
<1>4. k \in DOMAIN r /\ e.uid <= r[k].uid
  BY <1>2
<1>5. PICK i \in DOMAIN inbox : inbox[i] = e
  BY DEF Elements
<1>6. k + d \in DOMAIN inbox /\ inbox[i].uid <= inbox[k + d].uid
  BY <1>1, <1>4, <1>5
<1>7. i <= k + d
  BY <1>6, OrderedIndex
<1>8. CASE i > d
  <2>1. i - d \in DOMAIN r /\ DOMAIN r = 1..Len(r) /\ Len(r) \in Nat
    BY <1>1, <1>8
  <2>2. i - d \in 1..k /\ (i - d) + d = i
    BY <2>1, <1>1, <1>3, <1>4, <1>7
  <2>3. r[i - d] = e
    BY <2>1, <2>2, <1>1, <1>5
  <2> QED BY <2>2, <2>3, <1>2
<1>9. CASE ~(i > d)
  <2>1. /\ o \in Seq(Envelope) /\ Len(o) = Smaller(d, Len(inbox))
        /\ \A j \in DOMAIN o : j \in DOMAIN inbox /\ o[j] = inbox[j]
    <3>1. d \in Nat
      BY <1>1, <1>3
    <3> QED BY <3>1, FirstNFacts DEF o
  <2>2. Len(o) = d
    BY <2>1, <1>1, <1>3 DEF Smaller
  <2>3. i \in DOMAIN o
    BY <2>1, <2>2, <1>1, <1>3, <1>9
  <2>4. o[i].m = e.m
    BY <2>1, <2>3, <1>5
  <2> QED BY <2>3, <2>4, <1>2 DEF MailsIn
<1> QED BY <1>8, <1>9, <1>1, <1>3
-----------------------------------------------------------------------------
(* The seen ring. *)

\* What Add leaves of a ring: at most the letter is new, nothing is dropped
\* before the ring is full, and a full ring stays full.
LEMMA RingedFacts ==
  ASSUME NEW ring \in Seq(Mails), NEW m \in Mails
  PROVE  /\ Ringed(ring, m) \in Seq(Mails)
         /\ Elements(Ringed(ring, m)) \subseteq Elements(ring) \cup {m}
         /\ Len(ring) < SeenCap => Elements(Ringed(ring, m)) = Elements(ring) \cup {m}
         /\ Len(ring) >= SeenCap => Len(Ringed(ring, m)) >= SeenCap
<1> DEFINE s == Append(ring, m)
           r == LastN(s, SeenCap)
           d == Len(s) - Smaller(SeenCap, Len(s))
<1>1. s \in Seq(Mails) /\ Elements(s) = Elements(ring) \cup {m}
  BY AppendElements
<1>2. Len(s) = Len(ring) + 1 /\ Len(ring) \in Nat
  OBVIOUS
<1> HIDE DEF s
<1>3. SeenCap \in Nat
  BY DeliveryAssumptions
<1>4. /\ r \in Seq(Mails) /\ Elements(r) \subseteq Elements(s)
      /\ Len(r) = Smaller(SeenCap, Len(s))
      /\ \A i \in DOMAIN r : i + d \in DOMAIN s /\ r[i] = s[i + d]
      /\ \A j \in DOMAIN s : j > d => j - d \in DOMAIN r
  BY <1>1, <1>3, LastNFacts
<1>5. Ringed(ring, m) = r
  BY DEF Ringed, s
<1>6. ASSUME Len(ring) < SeenCap PROVE Elements(s) \subseteq Elements(r)
  <2>1. d = 0
    BY <1>2, <1>3, <1>6 DEF Smaller
  <2>2. \A j \in DOMAIN s : j \in DOMAIN r /\ r[j] = s[j]
    <3> SUFFICES ASSUME NEW j \in DOMAIN s PROVE j \in DOMAIN r /\ r[j] = s[j]
      OBVIOUS
    <3>1. j \in Nat /\ j > 0 /\ j - 0 = j /\ j + 0 = j
      BY <1>1
    <3> HIDE DEF d, r
    <3>2. j \in DOMAIN r
      BY <3>1, <2>1, <1>4
    <3> QED BY <3>1, <3>2, <2>1, <1>4
  <2> HIDE DEF r
  <2> QED BY <2>2 DEF Elements
<1>7. Len(ring) >= SeenCap => Len(r) >= SeenCap
  BY <1>2, <1>3, <1>4 DEF Smaller
<1> QED BY <1>1, <1>4, <1>5, <1>6, <1>7
-----------------------------------------------------------------------------
(* Types. *)

\* The values that stand for no answer and no cursor.
LEMMA NoAnswerFacts ==
  /\ NoAnswer.some = FALSE /\ NoAnswer.letters = <<>> /\ NoAnswer.cursor = NoCursor
  /\ NoCursor \in Cursors /\ NoCursor.v = 0 /\ NoCursor.u = 0
  /\ NoAnswer \in [some : BOOLEAN, letters : Seq(Mails), fresh : BOOLEAN, cursor : Cursors]
BY DEF NoAnswer, NoCursor, Cursors

\* The passes the code builds are passes, and their lists hold messages.
LEMMA PassTypes ==
  /\ PassType(NoPass)
  /\ \A p : PassType(p) /\ p.list # <<>> =>
       /\ Head(p.list) \in Envelope /\ Head(p.list).m \in Mails
       /\ p.kind # "release" => PassType([p EXCEPT !.list = Tail(@)])
  /\ \A l \in Seq(Envelope), kind \in {"arrival", "more"} :
       PassType([NoPass EXCEPT !.kind = kind, !.list = l])
<1>1. PassType(NoPass)
  BY DEF PassType, NoPass
<1>2. ASSUME NEW p, PassType(p), p.list # <<>>
      PROVE  /\ Head(p.list) \in Envelope /\ Head(p.list).m \in Mails
             /\ p.kind # "release" => PassType([p EXCEPT !.list = Tail(@)])
  <2>1. p.list \in Seq(Envelope)
    BY <1>2 DEF PassType
  <2>2. Head(p.list) \in Envelope /\ Tail(p.list) \in Seq(Envelope)
    BY <2>1, <1>2
  <2> QED BY <2>2, <1>2, EnvelopeFacts DEF PassType
<1>3. ASSUME NEW l \in Seq(Envelope), NEW kind \in {"arrival", "more"}
      PROVE  PassType([NoPass EXCEPT !.kind = kind, !.list = l])
  BY <1>3 DEF PassType, NoPass
<1> QED BY <1>1, <1>2, <1>3

\* A MOVE to Held keeps the types.
LEMMA HeldTypes ==
  ASSUME MailTypes, InOrder, NEW e \in Envelope, ToHeld(e)
  PROVE  MailTypes'
<1>1. inbox' \in Seq(Envelope)
  BY KeptFacts DEF MailTypes, ToHeld
<1>2. e.m \in Mails
  BY EnvelopeFacts
<1> QED BY <1>1, <1>2 DEF MailTypes, ToHeld

\* A MOVE to INBOX keeps the types.
LEMMA InboxTypes ==
  ASSUME MailTypes, NEW m \in Mails, ToInbox(m)
  PROVE  MailTypes'
<1>1. [uid |-> nextUid, m |-> m] \in Envelope
  BY DEF MailTypes, Envelope
<1> QED BY <1>1 DEF MailTypes, ToInbox
-----------------------------------------------------------------------------
(* Filing, and everything else that goes on around a sync. *)

\* Steps of the mailbox, of filing and of a handler that has no letters yet.
Around ==
  \/ Arrive \/ Mutate
  \/ StartReconcile \/ SyncReconcile \/ ReconcileOne \/ ReconcileFails \/ ReconcileEnd
  \/ StartSpam \/ SyncSpam \/ TickSpam
  \/ HandleNotify \/ FileArrival \/ FileArrivalFails \/ ArrivalEnd
  \/ \E m \in held : Release(m)
  \/ ReleaseMove \/ ReleaseFails \/ SyncFails \/ Crash

\* A pass that a listing starts.
LEMMA ListingType ==
  ASSUME Types, NEW kind \in {"start", "sync", "resync"}, NEW bound \in Nat,
         Listing(kind, bound)
  PROVE  PassType(pass')
<1> DEFINE top == IF inbox = <<>> THEN 0 ELSE inbox[Len(inbox)].uid
<1>1. inbox \in Seq(Envelope)
  BY DEF Types, MailTypes
<1>2. top \in Nat
  <2>1. inbox # <<>> => Len(inbox) \in DOMAIN inbox
    BY <1>1
  <2> QED BY <1>1, <2>1, ListFacts
<1>3. pass' = [kind |-> kind, list |-> inbox, bound |-> bound, top |-> top]
  BY DEF Listing
<1> HIDE DEF top
<1> QED BY <1>1, <1>2, <1>3 DEF PassType

\* A pass that a fetch for arrivals starts or goes on.
LEMMA ArrivalFetchType ==
  ASSUME Types, ArrivalFetch
  PROVE  PassType(pass')
<1> DEFINE batch == FetchAbove(highWater, ArrivalBatch)
           kind == IF Len(batch) = ArrivalBatch THEN "more" ELSE "arrival"
<1>1. batch \in Seq(Envelope)
  <2>1. ArrivalBatch \in Nat
    BY DeliveryAssumptions
  <2> QED BY <2>1, FetchType DEF Types, MailTypes
<1>2. pass' = [NoPass EXCEPT !.kind = kind, !.list = batch] /\ kind \in {"arrival", "more"}
  BY DEF ArrivalFetch
<1> HIDE DEF batch, kind
<1> QED BY <1>1, <1>2, PassTypes

\* Every one of these steps is quiet and moves mail only as MailMoved allows.
LEMMA AroundStep ==
  ASSUME Types, InOrder, Around
  PROVE  Types' /\ Quiet /\ MailMoved
<1> USE DEF Types
<1>1. CASE Arrive
  <2>1. arrived + 1 \in Mails
    BY <1>1 DEF Arrive
  <2>2. UNCHANGED <<held, validity, pass, syncVars, deviceVars, got, skipped, beyond>>
    BY <1>1 DEF Arrive
  <2>3. CASE inbox' = Append(inbox, [uid |-> nextUid, m |-> arrived + 1]) /\ nextUid' = nextUid + 1 /\ spam' = spam
    <3>1. [uid |-> nextUid, m |-> arrived + 1] \in Envelope
      BY <2>1 DEF MailTypes, Envelope
    <3>2. MailTypes'
      BY <2>2, <2>3, <3>1 DEF MailTypes
    <3>3. MailMoved
      BY <2>1, <2>2, <2>3, MailAppended
    <3> QED BY <3>2, <3>3, <2>2 DEF Quiet, SyncTypes, DeviceTypes, syncVars, deviceVars
  <2>4. CASE spam' = spam \cup {arrived + 1} /\ UNCHANGED <<inbox, nextUid>>
    <3>1. MailTypes'
      BY <2>1, <2>2, <2>4 DEF MailTypes
    <3>2. MailMoved
      BY <2>2, <2>4, MailStays
    <3> QED BY <3>1, <3>2, <2>2 DEF Quiet, SyncTypes, DeviceTypes, syncVars, deviceVars
  <2> QED BY <1>1, <2>3, <2>4 DEF Arrive
<1>2. CASE Mutate
  <2>1. UNCHANGED <<mailVars, pass, syncVars, deviceVars, got, skipped, beyond>>
    BY <1>2 DEF Mutate
  <2>2. MailMoved
    BY <2>1, MailStays DEF mailVars
  <2> QED BY <2>1, <2>2 DEF Quiet, MailTypes, SyncTypes, DeviceTypes, mailVars, syncVars, deviceVars
<1>3. CASE StartReconcile
  <2>1. UNCHANGED <<mailVars, syncVars, deviceVars, got, skipped, beyond>>
    BY <1>3 DEF StartReconcile, unfiled
  <2>2. PassType(pass')
    BY <1>3, ListingType DEF StartReconcile
  <2>3. MailMoved
    BY <2>1, MailStays DEF mailVars
  <2> QED BY <2>1, <2>2, <2>3 DEF Quiet, MailTypes, SyncTypes, DeviceTypes, mailVars, syncVars, deviceVars
<1>4. CASE SyncReconcile
  <2>1. UNCHANGED <<mailVars, asked, raws, letters, last, deviceVars, got, skipped, beyond>>
        /\ phase' = "reconciling"
    BY <1>4 DEF SyncReconcile, unfiled
  <2>2. PassType(pass')
    <3>1. asked.u \in Nat
      BY DEF SyncTypes, Cursors
    <3> QED BY <1>4, <3>1, ListingType DEF SyncReconcile
  <2>3. MailMoved
    BY <2>1, MailStays DEF mailVars
  <2> QED BY <2>1, <2>2, <2>3 DEF Quiet, MailTypes, SyncTypes, DeviceTypes, mailVars, syncVars, deviceVars
<1>5. CASE ReconcileOne
  <2>1. UNCHANGED <<syncVars, deviceVars, got, skipped, beyond>>
    BY <1>5 DEF ReconcileOne, unfiled
  <2>2. PassType(pass') /\ Head(pass.list) \in Envelope
    BY <1>5, PassTypes DEF ReconcileOne, Reconciling
  <2>3. CASE ToHeld(Head(pass.list))
    <3>1. MailTypes' /\ MailMoved
      BY <2>2, <2>3, HeldTypes, MailToHeld
    <3> QED BY <2>1, <2>2, <3>1 DEF Quiet, SyncTypes, DeviceTypes, syncVars, deviceVars
  <2>4. CASE UNCHANGED mailVars
    <3>1. MailTypes' /\ MailMoved
      BY <2>4, MailStays DEF mailVars, MailTypes
    <3> QED BY <2>1, <2>2, <3>1 DEF Quiet, SyncTypes, DeviceTypes, syncVars, deviceVars
  <2> QED BY <1>5, <2>3, <2>4 DEF ReconcileOne
<1>6. CASE ReconcileFails
  <2>1. /\ UNCHANGED <<asked, raws, letters, last, cursor, seen, seenRam, answer, got, skipped, beyond>>
        /\ UNCHANGED <<phase, awaiting>> \/ (phase' = "idle" /\ awaiting' = FALSE)
    BY <1>6 DEF ReconcileFails, deviceVars
  <2>2. PassType(pass') /\ Head(pass.list) \in Envelope
    BY <1>6, PassTypes DEF ReconcileFails, Reconciling
  <2>3. MailTypes' /\ MailMoved
    <3>1. CASE ToHeld(Head(pass.list))
      BY <2>2, <3>1, HeldTypes, MailToHeld
    <3>2. CASE UNCHANGED mailVars
      BY <3>2, MailStays DEF mailVars, MailTypes
    <3> QED BY <1>6, <3>1, <3>2 DEF ReconcileFails
  <2> QED BY <2>1, <2>2, <2>3 DEF Quiet, SyncTypes, DeviceTypes, syncVars
<1>7. CASE ReconcileEnd
  <2>1. /\ UNCHANGED <<mailVars, asked, raws, letters, last, deviceVars, got, skipped, beyond>>
        /\ phase' \in {phase, "spam"} /\ pass' = NoPass
    BY <1>7 DEF ReconcileEnd, unfiled
  <2>2. MailMoved
    BY <2>1, MailStays DEF mailVars
  <2> QED BY <2>1, <2>2, PassTypes DEF Quiet, MailTypes, SyncTypes, DeviceTypes, mailVars, syncVars, deviceVars
<1>8. CASE StartSpam \/ SyncSpam \/ TickSpam
  <2>1. PICK done \in SUBSET spam : CheckSpam(done)
    BY <1>8 DEF StartSpam, SyncSpam, TickSpam
  <2>2. phase' \in {phase, "fetch"}
    BY <1>8 DEF StartSpam, SyncSpam, TickSpam
  <2>3. UNCHANGED <<inbox, nextUid, validity, pass, asked, raws, letters, last, deviceVars, got, skipped, beyond>>
    BY <2>1 DEF CheckSpam, unfiled
  <2>4. MailMoved
    BY <2>3, MailStays
  <2>5. MailTypes'
    BY <2>1, <2>3 DEF MailTypes, CheckSpam
  <2> QED BY <2>2, <2>3, <2>4, <2>5 DEF Quiet, SyncTypes, DeviceTypes, syncVars, deviceVars
<1>9. CASE HandleNotify \/ ArrivalEnd
  <2>1. UNCHANGED <<mailVars, syncVars, deviceVars, got, skipped, beyond>>
    BY <1>9 DEF HandleNotify, ArrivalEnd, unfiled
  <2>2. PassType(pass')
    BY <1>9, PassTypes, ArrivalFetchType DEF HandleNotify, ArrivalEnd
  <2>3. MailMoved
    BY <2>1, MailStays DEF mailVars
  <2> QED BY <2>1, <2>2, <2>3 DEF Quiet, MailTypes, SyncTypes, DeviceTypes, mailVars, syncVars, deviceVars
<1>10. CASE FileArrival \/ FileArrivalFails
  <2>1. UNCHANGED <<syncVars, deviceVars, got, skipped, beyond>>
    BY <1>10 DEF FileArrival, FileArrivalFails, unfiled
  <2>2. PassType(pass') /\ Head(pass.list) \in Envelope
    BY <1>10, PassTypes DEF FileArrival, FileArrivalFails, Filing
  <2>3. MailTypes' /\ MailMoved
    <3>1. CASE ToHeld(Head(pass.list))
      BY <2>2, <3>1, HeldTypes, MailToHeld
    <3>2. CASE UNCHANGED mailVars
      BY <3>2, MailStays DEF mailVars, MailTypes
    <3> QED BY <1>10, <3>1, <3>2 DEF FileArrival, FileArrivalFails
  <2> QED BY <2>1, <2>2, <2>3 DEF Quiet, SyncTypes, DeviceTypes, syncVars, deviceVars
<1>11. CASE \E m \in held : Release(m)
  <2>1. PICK m \in held : Release(m)
    BY <1>11
  <2>2. UNCHANGED <<mailVars, syncVars, deviceVars, got, skipped, beyond>>
    BY <2>1 DEF Release
  <2>3. PassType(pass')
    <3>1. [uid |-> 0, m |-> m] \in Envelope
      BY DEF MailTypes, Envelope
    <3>2. <<[uid |-> 0, m |-> m]>> \in Seq(Envelope) /\ <<[uid |-> 0, m |-> m]>> # <<>>
      BY <3>1
    <3> QED BY <2>1, <3>2 DEF Release, PassType, NoPass
  <2>4. MailMoved
    BY <2>2, MailStays DEF mailVars
  <2> QED BY <2>2, <2>3, <2>4 DEF Quiet, MailTypes, SyncTypes, DeviceTypes, mailVars, syncVars, deviceVars
<1>12. CASE ReleaseMove \/ ReleaseFails
  <2>1. UNCHANGED <<syncVars, deviceVars, got, skipped, beyond>>
    BY <1>12 DEF ReleaseMove, ReleaseFails, released
  <2>2. PassType(pass') /\ Head(pass.list).m \in Mails
    <3>1. pass.list # <<>> /\ PassType(pass)
      BY <1>12 DEF PassType, ReleaseMove, ReleaseFails
    <3>2. Head(pass.list).m \in Mails
      BY <3>1, PassTypes
    <3>3. pass' = NoPass \/ pass' = [NoPass EXCEPT !.kind = "more"]
      BY <1>12 DEF ReleaseMove, ReleaseFails
    <3>4. PassType([NoPass EXCEPT !.kind = "more"])
      <4> DEFINE more == [kind |-> "more", list |-> <<>>, bound |-> 0, top |-> 0]
      <4>1. [NoPass EXCEPT !.kind = "more"] = more
        BY DEF NoPass
      <4>2. /\ more \in [kind : {"none", "start", "sync", "resync", "arrival", "more", "release"},
                         list : Seq(Envelope), bound : Nat, top : Nat]
            /\ more.kind # "release"
        OBVIOUS
      <4>3. PassType(more)
        BY <4>2 DEF PassType
      <4> QED BY <4>1, <4>3
    <3> QED BY <3>2, <3>3, <3>4, PassTypes
  <2>3. MailTypes' /\ MailMoved
    <3>1. CASE ToInbox(Head(pass.list).m)
      BY <2>2, <3>1, InboxTypes, MailAppended DEF ToInbox
    <3>2. CASE UNCHANGED mailVars
      BY <3>2, MailStays DEF mailVars, MailTypes
    <3> QED BY <1>12, <3>1, <3>2 DEF ReleaseMove, ReleaseFails
  <2> QED BY <2>1, <2>2, <2>3 DEF Quiet, SyncTypes, DeviceTypes, syncVars, deviceVars
<1>13. CASE SyncFails \/ Crash
  <2>1. /\ UNCHANGED <<mailVars, cursor, seen, seenRam, answer, got, skipped, beyond>>
        /\ phase' = "idle" /\ awaiting' = FALSE
        /\ raws' = <<>> /\ letters' = <<>> /\ last' = NoCursor /\ asked' = NoCursor
        /\ pass' \in {pass, NoPass}
    BY <1>13 DEF SyncFails, Crash, unsynced
  <2>2. SyncTypes'
    BY <2>1, NoAnswerFacts DEF SyncTypes
  <2>3. MailMoved
    BY <2>1, MailStays DEF mailVars
  <2> QED BY <2>1, <2>2, <2>3, PassTypes DEF Quiet, MailTypes, DeviceTypes, mailVars
<1> QED BY <1>1, <1>2, <1>3, <1>4, <1>5, <1>6, <1>7, <1>8, <1>9, <1>10, <1>11, <1>12, <1>13
        DEF Around
-----------------------------------------------------------------------------
(* The steps of a sync and of the device. *)

\* No boundary survives a rebuilt mailbox.
LEMMA ResetStep ==
  ASSUME Types, Follows, ResetUids
  PROVE  Types' /\ Follows'
<1>1. /\ UNCHANGED <<held, spam, pass, syncVars, deviceVars, got, skipped, beyond>>
      /\ validity' = validity + 1
      /\ inbox' = [i \in DOMAIN inbox |-> [uid |-> i, m |-> inbox[i].m]]
      /\ nextUid' = Len(inbox) + 1
  BY DEF ResetUids
<1>2. /\ inbox \in Seq(Envelope) /\ Len(inbox) \in Nat /\ DOMAIN inbox = 1..Len(inbox)
      /\ validity \in Nat /\ validity > 0
  BY DEF Types, MailTypes
<1>3. /\ DOMAIN inbox' = 1..Len(inbox)
      /\ \A i \in 1..Len(inbox) : inbox'[i].uid = i /\ inbox'[i] \in Envelope
  <2>1. \A i \in 1..Len(inbox) : inbox[i].m \in Mails
    BY <1>2, EnvelopeFacts
  <2> QED BY <1>1, <1>2, <2>1 DEF Envelope
<1>4. inbox' \in Seq(Envelope)
  <2>1. inbox' \in [1..Len(inbox) -> Envelope]
    BY <1>1, <1>2, <1>3
  <2> QED BY <2>1, <1>2
<1>5. Types'
  BY <1>1, <1>2, <1>4 DEF Types, MailTypes, SyncTypes, DeviceTypes, syncVars, deviceVars
<1>6. InOrder'
  <2>1. Ordered(inbox', UidOrder)
    <3> SUFFICES ASSUME NEW i \in 1..Len(inbox), NEW j \in 1..Len(inbox), i < j
                 PROVE  <<inbox'[i], inbox'[j]>> \in UidOrder
      BY <1>3 DEF Ordered
    <3> QED BY <1>3 DEF UidOrder
  <2>2. \A e \in Elements(inbox') : 0 < e.uid /\ e.uid < nextUid'
    <3> SUFFICES ASSUME NEW i \in 1..Len(inbox)
                 PROVE  0 < inbox'[i].uid /\ inbox'[i].uid < nextUid'
      BY <1>3 DEF Elements
    <3> QED BY <1>1, <1>2, <1>3
  <2> QED BY <2>1, <2>2 DEF InOrder
<1>7. /\ cursor.v \in Nat /\ answer.cursor.v \in Nat /\ last.v \in Nat
      /\ cursor.v <= validity /\ answer.cursor.v <= validity
      /\ awaiting /\ phase = "derive" => last.v <= validity
  BY DEF Types, SyncTypes, DeviceTypes, Cursors, Follows, Boundaries, Behind
<1>8. /\ UNCHANGED <<cursor, answer, last, asked, awaiting, phase, seen, seenRam>>
      /\ ~Concrete(cursor)' /\ ~Concrete(answer.cursor)'
      /\ awaiting /\ phase = "derive" => ~Concrete(last)'
  BY <1>1, <1>2, <1>7 DEF Concrete, syncVars, deviceVars
<1>9. Boundaries'
  <2>1. Behind(cursor)' /\ Behind(answer.cursor)'
    BY <1>1, <1>2, <1>7, <1>8 DEF Follows, Boundaries, Behind, Concrete
  <2>2. awaiting /\ phase = "derive" => Behind(last)' /\ last'.v # 0
    BY <1>1, <1>2, <1>7, <1>8 DEF Follows, Boundaries, Behind, Concrete
  <2> QED BY <2>1, <2>2, <1>8 DEF Follows, Boundaries
<1>10. Asking' /\ Derived' /\ Answered' /\ Applied'
  BY <1>8 DEF Follows, Asking, Derived, Answered, Applied
<1>11. RingsAreGot' /\ RamAhead' /\ Rising'
  BY <1>1, <1>8 DEF Follows, RingsAreGot, RamAhead, Rising
<1> QED BY <1>5, <1>6, <1>9, <1>10, <1>11 DEF Follows

\* The request carries the cursor on flash.
LEMMA SendStep ==
  ASSUME Types, Follows, SendRequest
  PROVE  Types' /\ Follows'
<1>1. /\ UNCHANGED <<mailVars, pass, raws, letters, last, cursor, seen, seenRam, answer,
                     got, skipped, beyond>>
      /\ awaiting' = TRUE /\ asked' = cursor /\ phase' = "reconcile" /\ ~answer.some
  BY DEF SendRequest, unsynced
<1>2. Types'
  BY <1>1 DEF Types, MailTypes, SyncTypes, DeviceTypes, mailVars
<1> QED
  BY <1>1, <1>2 DEF Follows, InOrder, Boundaries, Behind, Asking, RingsAreGot, Derived,
     Answered, Applied, Rising, NotBelow, RamAhead, Concrete, Passed, mailVars

\* What is fetched leaves no gap above what the device has.
LEMMA FetchStep ==
  ASSUME Types, Follows, Fetch
  PROVE  Types' /\ Follows'
<1>1. /\ UNCHANGED <<mailVars, pass, asked, deviceVars, got, skipped>>
      /\ phase' = "derive" /\ letters' = <<>> /\ beyond \subseteq beyond'
      /\ UNCHANGED <<inbox, nextUid, validity, cursor, answer, seen, seenRam, awaiting>>
  BY DEF Fetch, unsynced, mailVars, deviceVars
<1>2. inbox \in Seq(Envelope) /\ Ordered(inbox, UidOrder) /\ nextUid \in Nat /\ nextUid > 0
      /\ asked.u \in Nat /\ validity \in Nat
  BY DEF Types, MailTypes, SyncTypes, Cursors, Follows, InOrder
<1>3. FetchBatch \in Nat /\ Window \in Nat
  BY DeliveryAssumptions
<1>4. /\ raws' \in Seq(Envelope) /\ Elements(raws') \subseteq Elements(inbox)
      /\ last' \in Cursors /\ last'.v = validity
      /\ Concrete(asked) => last' = asked
      /\ ~Concrete(asked) => last'.u = 0
  <2>1. CASE Concrete(asked)
    <3>1. raws' = FetchAbove(asked.u, FetchBatch) /\ last' = asked
      BY <2>1 DEF Fetch
    <3> QED BY <3>1, <2>1, <1>2, <1>3, FetchType DEF Concrete, Types, SyncTypes
  <2>2. CASE ~Concrete(asked)
    <3>1. raws' = LastN(inbox, Window) /\ last' = [v |-> validity, u |-> 0]
      BY <2>2 DEF Fetch, Recent
    <3> QED BY <3>1, <2>2, <1>2, <1>3, LastNFacts DEF Cursors
  <2> QED BY <2>1, <2>2
<1>5. Types'
  BY <1>1, <1>4 DEF Types, MailTypes, SyncTypes, DeviceTypes, mailVars, deviceVars
<1>6. Passed \subseteq Passed' /\ Elements(letters') = {}
  BY <1>1 DEF Passed, Elements
<1>7. awaiting => asked = cursor
  BY DEF Follows, Asking
<1>8. ASSUME awaiting, NEW e \in Elements(inbox), Concrete(asked), e.uid <= asked.u
      PROVE  e.m \in Passed
  BY <1>7, <1>8 DEF Follows, Applied
<1>9. ASSUME awaiting, NEW e \in Elements(inbox), e.uid <= last'.u
      PROVE  e.m \in Passed'
  <2>1. CASE Concrete(asked)
    BY <2>1, <1>4, <1>6, <1>8, <1>9
  <2>2. CASE ~Concrete(asked)
    <3>1. last'.u = 0 /\ e.uid \in Nat
      BY <2>2, <1>2, <1>4, ListFacts
    <3>2. 0 < e.uid
      BY DEF Follows, InOrder
    <3> QED BY <3>1, <3>2, <1>9
  <2> QED BY <2>1, <2>2
<1>10. ASSUME awaiting, NEW k \in DOMAIN raws', NEW e \in Elements(inbox),
              e.uid <= raws'[k].uid
       PROVE  e.m \in Passed' \/ \E j \in 1..k : raws'[j] = e
  <2>1. CASE Concrete(asked)
    <3>1. raws' = FetchAbove(asked.u, FetchBatch)
      BY <2>1 DEF Fetch
    <3>2. e.uid <= asked.u \/ \E j \in 1..k : raws'[j] = e
      BY <3>1, <1>2, <1>3, <1>10, FetchNoGap
    <3> QED BY <3>2, <2>1, <1>6, <1>8, <1>10
  <2>2. CASE ~Concrete(asked)
    <3>1. raws' = Recent(Window) /\ beyond' = beyond \cup MailsIn(Older(Window))
      BY <2>2 DEF Fetch
    <3>2. e.m \in MailsIn(Older(Window)) \/ \E j \in 1..k : raws'[j] = e
      BY <3>1, <1>2, <1>3, <1>10, WindowNoGap
    <3> QED BY <3>1, <3>2 DEF Passed
  <2> QED BY <2>1, <2>2
<1>11. Derived'
  BY <1>1, <1>6, <1>9, <1>10 DEF Derived
<1>12. Boundaries'
  <2>1. \A e \in Elements(raws') : e.uid < nextUid
    BY <1>4 DEF Follows, InOrder
  <2>2. awaiting => last'.u < nextUid
    BY <1>2, <1>4, <1>7 DEF Follows, Boundaries, Behind, Concrete
  <2>3. validity > 0 /\ validity' = validity /\ nextUid' = nextUid
    BY <1>1 DEF Types, MailTypes
  <2>4. awaiting => Behind(last)' /\ last'.v # 0
    BY <2>2, <2>3, <1>2, <1>4 DEF Behind
  <2>5. Behind(cursor)' /\ Behind(answer.cursor)'
    BY <1>1, <2>3 DEF Follows, Boundaries, Behind
  <2> QED BY <1>1, <2>1, <2>3, <2>4, <2>5 DEF Follows, Boundaries
<1>13. Rising'
  <2>1. ASSUME Concrete(asked)
        PROVE  NotBelow(asked.u, last'.u) /\ \A r \in Elements(raws') : NotBelow(asked.u, r.uid)
    <3>1. raws' = FetchAbove(asked.u, FetchBatch) /\ last' = asked
      BY <2>1 DEF Fetch
    <3>2. \A r \in Elements(raws') : NotBelow(asked.u, r.uid)
      BY <3>1, <1>2, <1>3, FetchType
    <3> QED BY <3>1, <3>2 DEF NotBelow
  <2> QED BY <2>1, <1>1 DEF Follows, Rising, Concrete, NotBelow
<1>14. Asking' /\ InOrder' /\ RingsAreGot' /\ RamAhead'
  BY <1>1 DEF Follows, Asking, InOrder, RingsAreGot, RamAhead
<1>15. Answered' /\ Applied'
  BY <1>1, <1>6 DEF Follows, Answered, Applied, Concrete
<1> QED BY <1>5, <1>11, <1>12, <1>13, <1>14, <1>15 DEF Follows

\* The letter at the head is derived or passed over, and last moves up to it.
LEMMA DeriveStep ==
  ASSUME Types, Follows, Derive
  PROVE  Types' /\ Follows'
<1> DEFINE h == Head(raws)
<1>1. /\ UNCHANGED <<mailVars, pass, phase, asked, deviceVars, got, beyond>>
      /\ UNCHANGED <<inbox, nextUid, validity, cursor, answer, seen, seenRam, awaiting>>
      /\ phase = "derive" /\ raws # <<>> /\ raws' = Tail(raws)
      /\ last' = [last EXCEPT !.u = h.uid]
      /\ \/ letters' = Append(letters, h.m) /\ skipped' = skipped
         \/ skipped' = skipped \cup {h.m} /\ letters' = letters
  BY DEF Derive, unsynced, mailVars, deviceVars
<1>2. raws \in Seq(Envelope) /\ letters \in Seq(Mails)
  BY DEF Types, SyncTypes
<1>3. /\ h \in Elements(raws) /\ h \in Envelope /\ raws' \in Seq(Envelope)
      /\ Elements(raws') \subseteq Elements(raws)
  BY <1>1, <1>2, TailElements
<1>4. /\ h = raws[1] /\ DOMAIN raws = 1..Len(raws) /\ Len(raws) \in Nat /\ Len(raws) > 0
      /\ DOMAIN raws' = 1..(Len(raws) - 1)
      /\ \A i \in 1..(Len(raws) - 1) : raws'[i] = raws[i + 1]
  BY <1>1, <1>2
<1> HIDE DEF h
<1>5. /\ h.uid \in Nat /\ h.m \in Mails
      /\ last' \in Cursors /\ last'.v = last.v /\ last'.u = h.uid
      /\ Concrete(last)' <=> Concrete(last)
  BY <1>1, <1>3, EnvelopeFacts DEF Types, SyncTypes, Cursors, Concrete
<1>6. letters' \in Seq(Mails) /\ Passed \cup Elements(letters) \cup {h.m} = Passed' \cup Elements(letters')
  <2>1. Append(letters, h.m) \in Seq(Mails)
        /\ Elements(Append(letters, h.m)) = Elements(letters) \cup {h.m}
    BY <1>2, <1>5, AppendElements
  <2> QED BY <2>1, <1>1, <1>2 DEF Passed
<1>7. Passed \subseteq Passed'
  BY <1>1 DEF Passed
<1>8. Types'
  BY <1>1, <1>3, <1>5, <1>6 DEF Types, MailTypes, SyncTypes, DeviceTypes, mailVars, deviceVars
<1>9. Derived'
  <2> SUFFICES ASSUME awaiting, Concrete(last) PROVE Derived'
    BY <1>1, <1>5 DEF Derived
  <2>1. ASSUME NEW e \in Elements(inbox), e.uid <= h.uid
        PROVE  e.m \in Passed' \cup Elements(letters')
    <3>1. 1 \in DOMAIN raws /\ e.uid <= raws[1].uid
      BY <2>1, <1>4
    <3>2. e.m \in Passed \cup Elements(letters) \/ \E j \in 1..1 : raws[j] = e
      BY <3>1, <1>1 DEF Follows, Derived
    <3>3. e.m \in Passed \cup Elements(letters) \/ e = h
      BY <3>2, <1>4
    <3> QED BY <3>3, <1>6
  <2>2. ASSUME NEW k \in DOMAIN raws', NEW e \in Elements(inbox), e.uid <= raws'[k].uid
        PROVE  e.m \in Passed' \cup Elements(letters') \/ \E j \in 1..k : raws'[j] = e
    <3>1. k + 1 \in DOMAIN raws /\ e.uid <= raws[k + 1].uid /\ k \in Nat /\ k < Len(raws)
      BY <2>2, <1>4
    <3>2. e.m \in Passed \cup Elements(letters) \/ \E j \in 1..(k + 1) : raws[j] = e
      BY <3>1, <1>1 DEF Follows, Derived
    <3>3. CASE e.m \in Passed \cup Elements(letters)
      BY <3>3, <1>6
    <3>4. ASSUME NEW j \in 1..(k + 1), raws[j] = e
          PROVE  e.m \in Passed' \cup Elements(letters') \/ \E i \in 1..k : raws'[i] = e
      <4>1. CASE j = 1
        BY <4>1, <3>4, <1>4, <1>6
      <4>2. CASE j # 1
        <5>1. j - 1 \in 1..k /\ j - 1 \in 1..(Len(raws) - 1) /\ (j - 1) + 1 = j
          BY <4>2, <3>1, <1>4
        <5>2. raws'[j - 1] = e
          BY <5>1, <3>4, <1>4
        <5> QED BY <5>1, <5>2
      <4> QED BY <4>1, <4>2
    <3> QED BY <3>2, <3>3, <3>4
  <2> QED BY <2>1, <2>2, <1>1, <1>5 DEF Derived
<1>10. Boundaries'
  <2>1. ASSUME awaiting PROVE Behind(last)' /\ last'.v # 0
    BY <2>1, <1>1, <1>3, <1>5 DEF Follows, Boundaries, Behind, Concrete
  <2>2. Behind(cursor)' /\ Behind(answer.cursor)'
    BY <1>1 DEF Follows, Boundaries, Behind
  <2> QED BY <2>1, <2>2, <1>1, <1>3, <1>5 DEF Follows, Boundaries
<1>11. Rising'
  <2>1. ASSUME awaiting, Concrete(asked), Concrete(last)
        PROVE  NotBelow(asked.u, last'.u) /\ \A r \in Elements(raws') : NotBelow(asked.u, r.uid)
    <3>1. \A r \in Elements(raws) : NotBelow(asked.u, r.uid)
      BY <2>1, <1>1 DEF Follows, Rising
    <3> QED BY <3>1, <1>3, <1>5
  <2> QED BY <2>1, <1>1, <1>5 DEF Follows, Rising, Concrete, NotBelow
<1>12. Asking' /\ InOrder' /\ RingsAreGot' /\ RamAhead'
  BY <1>1 DEF Follows, Asking, InOrder, RingsAreGot, RamAhead
<1>13. Answered' /\ Applied'
  BY <1>1, <1>7 DEF Follows, Answered, Applied, Concrete
<1> QED BY <1>8, <1>9, <1>10, <1>11, <1>12, <1>13 DEF Follows

\* The answer takes over what was derived and the cursor it reached.
LEMMA ReplyStep ==
  ASSUME Types, Follows, Reply
  PROVE  Types' /\ Follows'
<1>1. /\ UNCHANGED <<mailVars, pass, cursor, seen, seenRam, got, skipped, beyond>>
      /\ UNCHANGED <<inbox, nextUid, validity>>
      /\ phase = "derive" /\ phase' = "idle" /\ awaiting' = FALSE
      /\ raws' = <<>> /\ letters' = <<>> /\ last' = NoCursor /\ asked' = NoCursor
      /\ answer' = IF awaiting
                   THEN [some |-> TRUE, letters |-> letters, fresh |-> FALSE,
                         cursor |-> last]
                   ELSE answer
  BY DEF Reply, unsynced, mailVars
<1>2. letters \in Seq(Mails) /\ last \in Cursors /\ validity \in Nat /\ validity > 0
  BY DEF Types, SyncTypes, MailTypes
<1>3. Types'
  <2>1. SyncTypes'
    BY <1>1, NoAnswerFacts DEF SyncTypes
  <2>3. DeviceTypes'
    BY <1>1, <1>2 DEF Types, DeviceTypes
  <2> QED BY <2>1, <2>3, <1>1 DEF Types, MailTypes, mailVars
<1>4. InOrder' /\ Asking' /\ RingsAreGot' /\ RamAhead' /\ Derived' /\ Applied'
  BY <1>1 DEF Follows, InOrder, Asking, RingsAreGot, RamAhead, Derived, Applied, Concrete, Passed
<1>5. CASE ~awaiting
  <2>1. answer' = answer
    BY <1>1, <1>5
  <2> QED BY <2>1, <1>1, <1>3, <1>4
          DEF Follows, Boundaries, Behind, Answered, Rising, NotBelow, Concrete, Passed
<1>6. CASE awaiting
  <2>1. /\ answer'.some = TRUE /\ answer'.letters = letters
        /\ answer'.cursor = last
    BY <1>1, <1>6
  <2>2. asked = cursor
    BY <1>6 DEF Follows, Asking
  <2>3. Boundaries'
    BY <2>1, <1>1, <1>2, <1>6 DEF Follows, Boundaries, Behind
  <2>4. Answered'
    BY <2>1, <1>1, <1>6 DEF Follows, Derived, Answered, Concrete, Passed
  <2>5. Rising'
    BY <2>1, <2>2, <1>1, <1>6 DEF Follows, Rising, NotBelow, Concrete
  <2> QED BY <2>3, <2>4, <2>5, <1>3, <1>4 DEF Follows
<1> QED BY <1>5, <1>6

\* A letter is dropped as a repeat, or stored and remembered.
LEMMA ApplyStep ==
  ASSUME Types, Follows, ApplyLetter
  PROVE  Types' /\ Follows'
<1> DEFINE m == Head(answer.letters)
<1>1. /\ UNCHANGED <<mailVars, pass, syncVars, cursor, awaiting, skipped, beyond>>
      /\ UNCHANGED <<inbox, nextUid, validity>>
      /\ answer.some /\ answer.letters # <<>>
      /\ answer'.some /\ answer'.letters = Tail(answer.letters) /\ answer'.cursor = answer.cursor
      /\ answer' \in {[answer EXCEPT !.letters = Tail(@)],
                      [answer EXCEPT !.letters = Tail(@), !.fresh = TRUE]}
      /\ \/ m \in Elements(seenRam) /\ UNCHANGED <<seen, seenRam, got>>
         \/ got' = got \cup {m} /\ seenRam' = Ringed(seenRam, m) /\ seen' = Ringed(seen, m)
  BY DEF ApplyLetter, Applying, unapplied, mailVars, Types, DeviceTypes
<1>2. answer.letters \in Seq(Mails) /\ seen \in Seq(Mails) /\ seenRam \in Seq(Mails)
  BY DEF Types, DeviceTypes
<1>3. /\ m \in Mails /\ Tail(answer.letters) \in Seq(Mails)
      /\ Elements(answer.letters) = {m} \cup Elements(Tail(answer.letters))
  BY <1>1, <1>2, TailElements
<1> HIDE DEF m
<1>4. /\ Ringed(seen, m) \in Seq(Mails) /\ Ringed(seenRam, m) \in Seq(Mails)
      /\ Elements(Ringed(seen, m)) \subseteq Elements(seen) \cup {m}
      /\ Elements(Ringed(seenRam, m)) \subseteq Elements(seenRam) \cup {m}
      /\ Len(seenRam) < SeenCap => Elements(Ringed(seenRam, m)) = Elements(seenRam) \cup {m}
      /\ Len(seenRam) >= SeenCap => Len(Ringed(seenRam, m)) >= SeenCap
  BY <1>2, <1>3, RingedFacts
<1>5. Types'
  BY <1>1, <1>2, <1>3, <1>4 DEF Types, MailTypes, SyncTypes, DeviceTypes, mailVars, syncVars
<1>6. RingsAreGot' /\ m \in got' /\ Passed \subseteq Passed' /\ m \in Passed'
  BY <1>1, <1>4 DEF Follows, RingsAreGot, Passed
<1>7. RamAhead'
  <2>1. Len(seenRam) \in Nat /\ SeenCap \in Nat
    BY <1>2, DeliveryAssumptions
  <2> QED BY <2>1, <1>1, <1>4 DEF Follows, RamAhead
<1>8. ~awaiting
  BY <1>1 DEF Follows, Asking
<1>9. InOrder' /\ Boundaries' /\ Asking' /\ Derived' /\ Rising'
  BY <1>1, <1>8 DEF Follows, InOrder, Boundaries, Behind, Asking, Derived, Rising, NotBelow, Concrete, syncVars
<1>10. Answered' /\ Applied'
  BY <1>1, <1>3, <1>6 DEF Follows, Answered, Applied, Concrete
<1> QED BY <1>5, <1>6, <1>7, <1>9, <1>10 DEF Follows

\* A write that fails leaves the rings with what was stored, and no answer.
LEMMA ApplyFailsStep ==
  ASSUME Types, Follows, ApplyLetterFails
  PROVE  Types' /\ Follows'
<1> DEFINE m == Head(answer.letters)
<1>1. /\ UNCHANGED <<mailVars, pass, syncVars, cursor, awaiting, skipped, beyond>>
      /\ UNCHANGED <<inbox, nextUid, validity>>
      /\ answer.some /\ answer.letters # <<>> /\ answer' = NoAnswer
      /\ \/ UNCHANGED <<seen, seenRam>> /\ got' \in {got, got \cup {m}}
         \/ /\ got' = got \cup {m} /\ seenRam' = Ringed(seenRam, m)
            /\ seen' \in {seen, Ringed(seen, m)}
  BY DEF ApplyLetterFails, Applying, unapplied, mailVars
<1>2. answer.letters \in Seq(Mails) /\ seen \in Seq(Mails) /\ seenRam \in Seq(Mails)
  BY DEF Types, DeviceTypes
<1>3. m \in Mails
  BY <1>1, <1>2, TailElements
<1> HIDE DEF m
<1>4. /\ Ringed(seen, m) \in Seq(Mails) /\ Ringed(seenRam, m) \in Seq(Mails)
      /\ Elements(Ringed(seen, m)) \subseteq Elements(seen) \cup {m}
      /\ Elements(Ringed(seenRam, m)) \subseteq Elements(seenRam) \cup {m}
      /\ Len(seenRam) < SeenCap => Elements(Ringed(seenRam, m)) = Elements(seenRam) \cup {m}
      /\ Len(seenRam) >= SeenCap => Len(Ringed(seenRam, m)) >= SeenCap
  BY <1>2, <1>3, RingedFacts
<1>5. Types'
  BY <1>1, <1>2, <1>4, NoAnswerFacts
     DEF Types, MailTypes, SyncTypes, DeviceTypes, mailVars, syncVars
<1>6. RingsAreGot' /\ Passed \subseteq Passed'
  BY <1>1, <1>4 DEF Follows, RingsAreGot, Passed
<1>7. RamAhead'
  <2>1. Len(seenRam) \in Nat /\ SeenCap \in Nat
    BY <1>2, DeliveryAssumptions
  <2>2. CASE UNCHANGED <<seen, seenRam>>
    BY <2>2 DEF Follows, RamAhead
  <2>3. CASE seenRam' = Ringed(seenRam, m) /\ seen' \in {seen, Ringed(seen, m)}
    BY <2>1, <2>3, <1>4 DEF Follows, RamAhead
  <2> QED BY <1>1, <2>2, <2>3
<1>8. ~awaiting
  BY <1>1 DEF Follows, Asking
<1>9. Boundaries'
  BY <1>1, <1>8, NoAnswerFacts DEF Types, MailTypes, Follows, Boundaries, Behind
<1>10. InOrder' /\ Asking' /\ Derived' /\ Rising' /\ Answered'
  BY <1>1, <1>8, NoAnswerFacts
     DEF Follows, InOrder, Asking, Derived, Rising, NotBelow, Answered, Concrete, syncVars
<1>11. Applied'
  BY <1>1, <1>6 DEF Follows, Applied, Concrete
<1> QED BY <1>5, <1>6, <1>7, <1>9, <1>10, <1>11 DEF Follows

\* The cursor of an answer takes effect, or fails to, when its letters are in.
LEMMA CursorStep ==
  ASSUME Types, Follows, ApplyCursor \/ ApplyCursorFails
  PROVE  Types' /\ Follows'
<1>1. /\ UNCHANGED <<mailVars, pass, syncVars, seen, awaiting, got, skipped, beyond>>
      /\ UNCHANGED <<inbox, nextUid, validity>>
      /\ answer.some /\ answer.letters = <<>> /\ answer' = NoAnswer
      /\ cursor' \in {cursor, answer.cursor} /\ seenRam' \in {seenRam, seen}
  BY DEF ApplyCursor, ApplyCursorFails, unapplied, mailVars
<1>2. Types'
  BY <1>1, NoAnswerFacts DEF Types, MailTypes, SyncTypes, DeviceTypes, mailVars, syncVars
<1>3. ~awaiting
  BY <1>1 DEF Follows, Asking
<1>4. Boundaries'
  BY <1>1, <1>3, NoAnswerFacts DEF Types, MailTypes, Follows, Boundaries, Behind
<1>5. InOrder' /\ Asking' /\ Derived' /\ Rising' /\ Answered'
  BY <1>1, <1>3, NoAnswerFacts
     DEF Follows, InOrder, Asking, Derived, Rising, NotBelow, Answered, Concrete, syncVars
<1>6. RingsAreGot' /\ RamAhead'
  BY <1>1 DEF Follows, RingsAreGot, RamAhead
<1>7. Applied'
  <2>1. Elements(answer.letters) = {}
    BY <1>1 DEF Elements
  <2> QED BY <2>1, <1>1 DEF Follows, Applied, Answered, Concrete, Passed
<1> QED BY <1>2, <1>4, <1>5, <1>6, <1>7 DEF Follows

\* What a device that lost power, or was wiped, starts from.
LEMMA RestartStep ==
  ASSUME Types, Follows, PowerCut \/ Wipe
  PROVE  Types' /\ Follows'
<1>1. /\ UNCHANGED <<mailVars, pass, syncVars, skipped, beyond>>
      /\ UNCHANGED <<inbox, nextUid, validity>>
      /\ awaiting' = FALSE /\ answer' = NoAnswer /\ seenRam' = seen'
      /\ \/ UNCHANGED <<cursor, seen, got>>
         \/ cursor' = NoCursor /\ seen' = <<>> /\ got' = {}
  BY DEF PowerCut, Wipe, unapplied, mailVars
<1>2. Elements(<<>>) = {}
  BY DEF Elements
<1>3. validity \in Nat /\ validity > 0 /\ nextUid \in Nat /\ nextUid > 0
  BY DEF Types, MailTypes
<1>4. Types'
  BY <1>1, NoAnswerFacts DEF Types, MailTypes, SyncTypes, DeviceTypes, mailVars, syncVars
<1>5. Boundaries'
  BY <1>1, <1>3, NoAnswerFacts DEF Follows, Boundaries, Behind
<1>6. InOrder' /\ Asking' /\ Derived' /\ Rising' /\ Answered'
  BY <1>1, NoAnswerFacts DEF Follows, InOrder, Asking, Derived, Rising, Answered
<1>7. RingsAreGot' /\ RamAhead'
  BY <1>1, <1>2 DEF Follows, RingsAreGot, RamAhead
<1>8. Applied'
  BY <1>1, <1>3, NoAnswerFacts DEF Follows, Applied, Concrete, Passed
<1> QED BY <1>4, <1>5, <1>6, <1>7, <1>8 DEF Follows

\* An empty mailbox and a device just set up.
LEMMA DeliveryInit == Init => Types /\ Follows
<1> SUFFICES ASSUME Init PROVE Types /\ Follows
  OBVIOUS
<1>1. Elements(<<>>) = {}
  BY DEF Elements
<1>2. Types
  <2>1. MailTypes
    BY DEF Init, MailTypes
  <2>2. PassType(pass)
    BY PassTypes DEF Init
  <2>3. SyncTypes
    BY NoAnswerFacts DEF Init, SyncTypes
  <2>4. DeviceTypes
    BY NoAnswerFacts DEF Init, DeviceTypes
  <2> QED BY <2>1, <2>2, <2>3, <2>4 DEF Types
<1>3. InOrder /\ RingsAreGot /\ RamAhead
  BY <1>1 DEF Init, InOrder, Ordered, RingsAreGot, RamAhead
<1>4. Boundaries /\ Asking /\ Derived /\ Answered /\ Applied /\ Rising
  BY <1>1, NoAnswerFacts
     DEF Init, Boundaries, Behind, Asking, Derived, Answered, Applied, Rising, NotBelow,
         Concrete
<1> QED BY <1>2, <1>3, <1>4 DEF Follows

\* Steps of nobody.
LEMMA DeliveryStutter ==
  ASSUME Types, Follows, UNCHANGED vars
  PROVE  Types' /\ Follows'
<1>1. /\ UNCHANGED <<mailVars, pass, syncVars, deviceVars, got, skipped, beyond>>
  BY DEF vars
<1>2. Types'
  BY <1>1 DEF Types, MailTypes, SyncTypes, DeviceTypes, mailVars, syncVars, deviceVars
<1>3. MailMoved /\ Quiet
  BY <1>1, MailStays DEF Follows, Quiet, mailVars, deviceVars
<1> QED BY <1>2, <1>3, QuietStep

\* One step, by the lemma of its action.
LEMMA DeliveryNext ==
  ASSUME Types, Follows, [Next]_vars
  PROVE  Types' /\ Follows'
<1>1. CASE Around
  BY <1>1, AroundStep, QuietStep DEF Follows
<1>2. CASE ResetUids
  BY <1>2, ResetStep
<1>3. CASE SendRequest
  BY <1>3, SendStep
<1>4. CASE Fetch
  BY <1>4, FetchStep
<1>5. CASE Derive
  BY <1>5, DeriveStep
<1>6. CASE Reply
  BY <1>6, ReplyStep
<1>7. CASE ApplyLetter
  BY <1>7, ApplyStep
<1>8. CASE ApplyLetterFails
  BY <1>8, ApplyFailsStep
<1>9. CASE ApplyCursor \/ ApplyCursorFails
  BY <1>9, CursorStep
<1>10. CASE PowerCut \/ Wipe
  BY <1>10, RestartStep
<1>11. CASE UNCHANGED vars
  BY <1>11, DeliveryStutter
<1> QED
  BY <1>1, <1>2, <1>3, <1>4, <1>5, <1>6, <1>7, <1>8, <1>9, <1>10, <1>11 DEF Next, Around
-----------------------------------------------------------------------------
(* The theorems. *)

\* The invariant: whatever INBOX holds at or below a boundary, on flash, in an
\* answer or in the handler, is with the device, on its way there or let go.
THEOREM DeliveryInductive == Spec => []DeliveryInv
<1>1. Init => DeliveryInv
  BY DeliveryInit DEF DeliveryInv
<1>2. DeliveryInv /\ [Next]_vars => DeliveryInv'
  BY DeliveryNext DEF DeliveryInv
<1> QED BY <1>1, <1>2, PTL DEF Spec

\* The cursor the device keeps is never ahead of its letters (ApplyResponse
\* writes the cursor after the letters, whatever fails in between).
THEOREM CursorNeverAhead == Spec => []CursorCovers
<1>1. DeliveryInv => CursorCovers
  <2> SUFFICES ASSUME DeliveryInv, Concrete(cursor), NEW i \in DOMAIN inbox,
                      inbox[i].uid <= cursor.u
               PROVE  inbox[i].m \in got \cup skipped \cup beyond
    BY DEF CursorCovers
  <2>1. inbox[i] \in Elements(inbox)
    BY DEF Elements
  <2> QED BY <2>1 DEF DeliveryInv, Follows, Applied, Passed
<1> QED BY <1>1, DeliveryInductive, PTL

\* Within one UIDVALIDITY the cursor never falls below a letter in INBOX it was
\* above, whether or not "n:*" is answered with a message below n (the new cursor is
\* that of the last letter a fetch returned).
THEOREM CursorNeverFalls == Spec => CursorRises
<1> DEFINE Rises == Concrete(cursor) /\ cursor'.v = cursor.v =>
                      \A i \in DOMAIN inbox :
                        inbox[i].uid <= cursor.u => inbox[i].uid <= cursor'.u
<1>1. DeliveryInv /\ [Next]_vars => Rises
  <2> SUFFICES ASSUME DeliveryInv, [Next]_vars, Concrete(cursor), cursor'.v = cursor.v,
                      NEW i \in DOMAIN inbox, inbox[i].uid <= cursor.u
               PROVE  inbox[i].uid <= cursor'.u
    OBVIOUS
  <2>1. inbox[i] \in Elements(inbox)
    BY DEF Elements
  <2>2. CASE cursor' = cursor
    BY <2>2
  <2>3. CASE ApplyCursor \/ ApplyCursorFails
    <3>1. answer.some /\ cursor' \in {cursor, answer.cursor}
      BY <2>3 DEF ApplyCursor, ApplyCursorFails
    <3>2. CASE cursor' = answer.cursor
      <4>1. NotBelow(cursor.u, answer.cursor.u)
        BY <3>1, <3>2 DEF DeliveryInv, Follows, Rising, Concrete
      <4> QED BY <4>1, <3>2, <2>1 DEF NotBelow
    <3> QED BY <3>1, <3>2, <2>2
  <2>4. CASE Wipe
    <3>1. cursor.v = 0
      BY <2>4, NoAnswerFacts DEF Wipe
    <3> QED BY <3>1 DEF DeliveryInv, Types, MailTypes, Concrete
  <2>5. CASE Around
    BY <2>2, <2>5, AroundStep DEF DeliveryInv, Follows, Quiet
  <2> QED
    BY <2>2, <2>3, <2>4, <2>5
       DEF Next, Around, ResetUids, SendRequest, Fetch, Derive, Reply, ApplyLetter,
           ApplyLetterFails, PowerCut, deviceVars, vars
<1>2. DeliveryInv /\ [Next]_vars => [Rises]_vars
  BY <1>1
<1> QED BY <1>2, DeliveryInductive, PTL DEF Spec, CursorRises

\* An evicted letter the ring on flash remembers is not stored again, unless the
\* RAM ring, full, is ahead of the file after a failed write (ApplyLetter asks the
\* RAM ring before it stores).
THEOREM EvictedNeverReturns == Spec => EvictedStaysGone
<1> DEFINE Stays == (seen = seenRam \/ Len(seenRam) < SeenCap)
                      => \A m \in Elements(seen) : m \in stored' => m \in stored
<1>1. DeliveryInv /\ [Next]_vars => Stays
  <2> SUFFICES ASSUME DeliveryInv, [Next]_vars, seen = seenRam \/ Len(seenRam) < SeenCap,
                      NEW m \in Elements(seen), m \in stored'
               PROVE  m \in stored
    OBVIOUS
  <2>1. m \in Elements(seenRam)
    <3>1. Len(seenRam) \in Nat /\ SeenCap \in Nat
      BY DeliveryAssumptions DEF DeliveryInv, Types, DeviceTypes
    <3> QED BY <3>1 DEF DeliveryInv, Follows, RamAhead
  <2>2. CASE stored' \subseteq stored
    BY <2>2
  <2>3. CASE ApplyLetter
    BY <2>1, <2>3 DEF ApplyLetter
  <2>4. CASE ApplyLetterFails
    BY <2>1, <2>4 DEF ApplyLetterFails
  <2>5. CASE ApplyCursor \/ ApplyCursorFails
    BY <2>2, <2>5 DEF ApplyCursor, ApplyCursorFails, Newest
  <2> QED
    BY <2>2, <2>3, <2>4, <2>5
       DEF Next, Arrive, Mutate, ResetUids, StartReconcile, SyncReconcile, ReconcileOne,
           ReconcileFails, ReconcileEnd, StartSpam, SyncSpam, TickSpam, CheckSpam,
           HandleNotify, FileArrival, FileArrivalFails, ArrivalEnd, Release, ReleaseMove,
           ReleaseFails, SendRequest, Fetch, Derive, Reply, SyncFails, Crash, PowerCut,
           Wipe, unfiled, released, deviceVars, vars
<1>2. DeliveryInv /\ [Next]_vars => [Stays]_vars
  BY <1>1
<1> QED BY <1>2, DeliveryInductive, PTL DEF Spec, EvictedStaysGone
-----------------------------------------------------------------------------
(* Filing, and the letters it has decided.                                 *)
(*                                                                         *)
(* RemovedStaysOut and HistoryStays are about what filing may move and     *)
(* when, so their invariants follow the letters through the mailbox: each  *)
(* is in one place, the pass that holds the mutex works on letters that    *)
(* are where it listed them, and the handler is where its pass says it is. *)

IsTable(t) == DOMAIN t \subseteq Ids /\ t \in [DOMAIN t -> Row]

\* Every letter that came is in one place, once.
OnePlace ==
  /\ arrived \in Nat
  /\ \A e \in Elements(inbox) : e.m <= arrived /\ e.m \notin held /\ e.m \notin spam
  /\ \A m \in held \cup spam : m <= arrived
  /\ \A e, f \in Elements(inbox) : e.m = f.m => e = f
  /\ held \cap spam = {}

\* A pass lists, in order, what is still in INBOX; a release takes from Held.
PassWork ==
  /\ pass.kind # "release" =>
       Ordered(pass.list, UidOrder) /\ Elements(pass.list) \subseteq Elements(inbox)
  /\ pass.kind = "release" => Head(pass.list).m \in held

\* The handler waits for its own pass, which sweeps above the cursor it was asked
\* with, and has letters only while it derives.
HandlerWork ==
  /\ phase = "reconciling" <=> pass.kind \in {"sync", "resync"}
  /\ pass.kind = "sync" => Concrete(asked) /\ pass.bound = asked.u
  /\ pass.kind = "resync" => ~Concrete(asked)
  /\ phase # "derive" => letters = <<>>

\* The part the two invariants share.
FilingWork ==
  /\ IsTable(contacts) /\ highWater \in Nat
  /\ OnePlace /\ PassWork /\ HandlerWork

\* Who is shut out was removed and wrote, and nobody releases it.
ShutOutCame ==
  /\ shutOut \subseteq Mails
  /\ \A m \in shutOut : Tombstone(contacts, m) /\ m <= arrived

ReleasesOthers == pass.kind = "release" => Head(pass.list).m \notin shutOut

\* What a removed sender sent above the cursor is still to be swept, then gone, and
\* in no answer, unless it came after the pass had listed INBOX.  At or below the
\* cursor it is a letter the device, or an earlier sync, has met.
SweptAbove ==
  awaiting =>
    /\ phase = "reconciling" /\ Concrete(asked) =>
         \A e \in Elements(inbox) :
           e.uid > asked.u /\ e.m \in shutOut => e \in Elements(pass.list) \/ e.m \in late
    /\ phase \in {"spam", "fetch"} /\ Concrete(asked) =>
         \A e \in Elements(inbox) : e.uid > asked.u /\ e.m \in shutOut => e.m \in late
    /\ phase = "derive" /\ last.v = asked.v =>
         \A e \in Elements(raws) : e.m \in shutOut => e.m \in late \cup Passed
    /\ last.v = asked.v => Elements(letters) \cap shutOut \subseteq late \cup Passed

\* Filing is done with a message, or the start that will list it is still to end.
FiledBy(e) ==
  \/ e.uid <= highWater
  \/ started = "no" /\ (pass.kind = "start" => e.uid <= pass.top)

\* The handler works from the cursor on flash, unless that one has been wiped, or
\* the mailbox rebuilt, meanwhile; no answer replaces it.
OneCursor ==
  /\ asked.v <= validity
  /\ phase # "idle" =>
       /\ ~answer.some
       /\ Concrete(asked) /\ Concrete(cursor) => asked = cursor

\* A letter that was derived came from somebody, and stays from somebody.
FromSomebody ==
  \A m \in got \cup settled \cup Elements(letters) \cup Elements(answer.letters) :
    Known(contacts, m)

\* Until the mailbox is rebuilt, the mark is one of its UIDs, and a batch of
\* arrivals is below nothing that was decided about.
MarkKept ==
  /\ wipes \in Nat
  /\ validity = 1 =>
       /\ highWater < nextUid /\ pass.top < nextUid
       /\ Filing => \A e \in Elements(pass.list) : NotBelow(highWater, e.uid)

\* A settled letter in INBOX is filed, and behind the cursor, until the boundary of
\* one is lost.
SettledStays ==
  /\ \A m \in settled : m \in Nat /\ m <= arrived
  /\ validity = 1 => \A e \in Elements(inbox) : e.m \in settled => FiledBy(e)
  /\ wipes = 0 /\ validity = 1 =>
       \A e \in Elements(inbox) :
         e.m \in settled => Concrete(cursor) /\ e.uid <= cursor.u
-----------------------------------------------------------------------------
(* The contact table. *)

\* An address resolves to somebody when some row is or was there.
LEMMA ResolveFacts ==
  ASSUME NEW t, IsTable(t), NEW a
  PROVE  Resolve(t, a) = {} <=> RowsAt(t, a) = {}
<1>1. RowsAt(t, a) \subseteq Nat
  BY ContactsAssumptions DEF IsTable, RowsAt
<1>2. ASSUME RowsAt(t, a) # {} PROVE Resolve(t, a) # {}
  <2>1. PICK x \in RowsAt(t, a) : \A y \in RowsAt(t, a) : x <= y
    BY <1>1, <1>2, LeastNat
  <2> QED BY <2>1 DEF Resolve, FirstOf
<1>3. ASSUME RowsAt(t, a) = {} PROVE Resolve(t, a) = {}
  BY <1>3 DEF Resolve, FirstOf
<1> QED BY <1>2, <1>3

\* A row that moves is still found at every address it was.
LEMMA MovedFacts ==
  ASSUME NEW r \in Row, NEW a \in Addrs
  PROVE  /\ Moved(r, a) \in Row
         /\ \A b : r.addr = b \/ b \in r.past =>
                   Moved(r, a).addr = b \/ b \in Moved(r, a).past
<1>1. CASE r.addr = a
  BY <1>1 DEF Moved
<1>2. CASE r.addr # a
  <2>1. Moved(r, a) = [r EXCEPT !.addr = a, !.past = (@ \cup {r.addr}) \ {a}]
    BY <1>2 DEF Moved
  <2>2. /\ Moved(r, a) \in Row
        /\ Moved(r, a).addr = a /\ Moved(r, a).past = (r.past \cup {r.addr}) \ {a}
    BY <2>1 DEF Row
  <2> QED BY <2>2
<1> QED BY <1>1, <1>2

\* A table whose row i becomes one found wherever row i was still resolves
\* everybody it did.
LEMMA RowChanged ==
  ASSUME NEW t, IsTable(t), NEW i \in DOMAIN t, NEW r \in Row,
         \A b : t[i].addr = b \/ b \in t[i].past => r.addr = b \/ b \in r.past
  PROVE  LET u == [t EXCEPT ![i] = r] IN
         IsTable(u) /\ \A b : Resolve(t, b) # {} => Resolve(u, b) # {}
<1> DEFINE u == [t EXCEPT ![i] = r]
<1>1. DOMAIN u = DOMAIN t /\ u[i] = r /\ \A j \in DOMAIN t : j # i => u[j] = t[j]
  BY DEF IsTable
<1>2. IsTable(u)
  BY DEF IsTable
<1> HIDE DEF u
<1>3. \A b : RowsAt(t, b) \subseteq RowsAt(u, b)
  BY <1>1 DEF RowsAt
<1>4. \A b : Resolve(t, b) # {} => Resolve(u, b) # {}
  BY <1>2, <1>3, ResolveFacts
<1> QED BY <1>2, <1>4 DEF u

\* Adding an address makes a table, and whoever resolved still does.
LEMMA AddKeeps ==
  ASSUME NEW t, IsTable(t), NEW a \in Addrs, NEW u \in AfterAdd(t, a)
  PROVE  IsTable(u) /\ \A b : Resolve(t, b) # {} => Resolve(u, b) # {}
<1>1. CASE RowsAt(t, a) # {}
  <2>1. PICK i \in Resolve(t, a) : u = [t EXCEPT ![i] = [Moved(t[i], a) EXCEPT !.active = TRUE]]
    BY <1>1 DEF AfterAdd
  <2>2. i \in DOMAIN t /\ t[i] \in Row
    BY DEF Resolve, FirstOf, RowsAt, IsTable
  <2> DEFINE q == Moved(t[i], a)
             r == [q EXCEPT !.active = TRUE]
  <2>3. /\ q \in Row
        /\ \A b : t[i].addr = b \/ b \in t[i].past => q.addr = b \/ b \in q.past
    BY <2>2, MovedFacts
  <2> HIDE DEF q
  <2>4. r \in Row /\ r.addr = q.addr /\ r.past = q.past
    BY <2>3 DEF Row
  <2>5. u = [t EXCEPT ![i] = r]
    BY <2>1 DEF q
  <2> HIDE DEF r
  <2> QED BY <2>2, <2>3, <2>4, <2>5, RowChanged
<1>2. CASE RowsAt(t, a) = {}
  <2>1. PICK i \in Ids \ DOMAIN t :
          u = [j \in DOMAIN t \cup {i} |->
                 IF j = i THEN [addr |-> a, past |-> {}, active |-> TRUE] ELSE t[j]]
    BY <1>2 DEF AfterAdd
  <2>2. /\ DOMAIN u = DOMAIN t \cup {i}
        /\ \A j \in DOMAIN t : u[j] = t[j]
        /\ u[i] \in Row
    BY <2>1 DEF Row
  <2>3. IsTable(u)
    BY <2>1, <2>2 DEF IsTable
  <2>4. \A b : RowsAt(t, b) \subseteq RowsAt(u, b)
    BY <2>2 DEF RowsAt
  <2> QED BY <2>3, <2>4, ResolveFacts
<1> QED BY <1>1, <1>2

\* A change to whether a contact is active changes no address.
LEMMA ActiveKeeps ==
  ASSUME NEW t, IsTable(t), NEW i \in DOMAIN t, NEW u,
         \/ u = [t EXCEPT ![i].active = TRUE]
         \/ u = [t EXCEPT ![i].active = FALSE]
  PROVE  IsTable(u) /\ \A b : Resolve(u, b) = Resolve(t, b)
<1>1. PICK r \in Row : /\ r.addr = t[i].addr /\ r.past = t[i].past
                       /\ u = [t EXCEPT ![i] = r]
  <2>1. t[i] \in Row
    BY DEF IsTable
  <2>2. /\ [t[i] EXCEPT !.active = TRUE] \in Row /\ [t[i] EXCEPT !.active = FALSE] \in Row
        /\ [t[i] EXCEPT !.active = TRUE].addr = t[i].addr
        /\ [t[i] EXCEPT !.active = TRUE].past = t[i].past
        /\ [t[i] EXCEPT !.active = FALSE].addr = t[i].addr
        /\ [t[i] EXCEPT !.active = FALSE].past = t[i].past
    BY <2>1 DEF Row
  <2> QED BY <2>2
<1>2. DOMAIN u = DOMAIN t /\ u[i] = r /\ \A j \in DOMAIN t : j # i => u[j] = t[j]
  BY <1>1 DEF IsTable
<1>3. IsTable(u)
  BY <1>1 DEF IsTable
<1>4. \A b : RowsAt(u, b) = RowsAt(t, b)
  BY <1>1, <1>2 DEF RowsAt
<1> QED BY <1>3, <1>4 DEF Resolve

\* No change a guardian can make forgets an address: rows are never deleted, and
\* retainPast keeps the address a row leaves.
LEMMA ChangesKeep ==
  ASSUME NEW t, IsTable(t), NEW u \in Changes(t)
  PROVE  IsTable(u) /\ \A b : Resolve(t, b) # {} => Resolve(u, b) # {}
<1>1. CASE \E a \in Addrs : u \in AfterAdd(t, a)
  BY <1>1, AddKeeps
<1>2. CASE \E i \in Ids : u \in AfterDeactivate(t, i) \cup AfterReactivate(t, i)
  <2>1. PICK j \in DOMAIN t : \/ u = [t EXCEPT ![j].active = TRUE]
                              \/ u = [t EXCEPT ![j].active = FALSE]
    BY <1>2 DEF AfterDeactivate, AfterReactivate
  <2>2. IsTable(u) /\ \A b : Resolve(u, b) = Resolve(t, b)
    BY <2>1, ActiveKeeps
  <2> QED BY <2>2
<1>3. CASE \E i \in Ids, a \in Addrs : u \in AfterReaddress(t, i, a)
  <2>1. PICK j \in DOMAIN t, a \in Addrs : u = [t EXCEPT ![j] = Moved(t[j], a)]
    BY <1>3 DEF AfterReaddress
  <2>2. t[j] \in Row
    BY DEF IsTable
  <2>3. /\ Moved(t[j], a) \in Row
        /\ \A b : t[j].addr = b \/ b \in t[j].past =>
                  Moved(t[j], a).addr = b \/ b \in Moved(t[j], a).past
    BY <2>2, MovedFacts
  <2> QED BY <2>1, <2>3, RowChanged
<1>4. \/ \E a \in Addrs : u \in AfterAdd(t, a)
      \/ \E i \in Ids : u \in AfterDeactivate(t, i) \cup AfterReactivate(t, i)
      \/ \E i \in Ids, a \in Addrs : u \in AfterReaddress(t, i, a)
  <2>1. \/ u \in UNION {AfterAdd(t, a) : a \in Addrs}
        \/ u \in UNION {AfterDeactivate(t, i) : i \in Ids}
        \/ u \in UNION {AfterReactivate(t, i) : i \in Ids}
        \/ u \in UNION {AfterReaddress(t, i, a) : i \in Ids, a \in Addrs}
    BY DEF Changes
  <2> QED BY <2>1
<1> QED BY <1>1, <1>2, <1>3, <1>4
-----------------------------------------------------------------------------
(* Where the letters are, and what the passes and the handler work on. *)

\* A MOVE to Held takes one message out of INBOX.
LEMMA ToHeldFacts ==
  ASSUME inbox \in Seq(Envelope), NEW e, ToHeld(e)
  PROVE  /\ inbox' \in Seq(Envelope) /\ Elements(inbox') = Elements(inbox) \ {e}
         /\ held' = held \cup {e.m} /\ spam' = spam /\ validity' = validity
<1> DEFINE S == Elements(inbox) \ {e}
<1>1. inbox' = Kept(inbox, S) /\ S \subseteq Elements(inbox)
  BY DEF ToHeld
<1> HIDE DEF S
<1>2. inbox' \in Seq(Envelope) /\ Elements(inbox') = Elements(inbox) \cap S
  BY <1>1, KeptFacts
<1> QED BY <1>1, <1>2 DEF ToHeld, S

\* A MOVE to INBOX puts one message in, with the next UID.
LEMMA ToInboxFacts ==
  ASSUME MailTypes, NEW m \in Mails, inbox' = Append(inbox, [uid |-> nextUid, m |-> m])
  PROVE  \E e \in Envelope : /\ e.uid = nextUid /\ e.m = m
                             /\ Elements(inbox') = Elements(inbox) \cup {e}
<1> DEFINE e == [uid |-> nextUid, m |-> m]
<1>1. e \in Envelope /\ e.uid = nextUid /\ e.m = m
  BY DEF MailTypes, Envelope
<1> HIDE DEF e
<1>2. inbox' = Append(inbox, e)
  BY DEF e
<1>3. Elements(inbox') = Elements(inbox) \cup {e}
  BY <1>1, <1>2, AppendElements DEF MailTypes
<1> QED BY <1>1, <1>3

\* The messages after the first have higher UIDs.
LEMMA OrderedTail ==
  ASSUME NEW s \in Seq(Envelope), s # <<>>, Ordered(s, UidOrder)
  PROVE  /\ Ordered(Tail(s), UidOrder)
         /\ Elements(Tail(s)) \subseteq Elements(s) /\ Head(s) \in Elements(s)
         /\ \A e \in Elements(Tail(s)) : e.uid > Head(s).uid
<1> DEFINE t == Tail(s)
<1>1. /\ t \in Seq(Envelope) /\ Len(s) \in Nat /\ Len(s) > 0 /\ Head(s) = s[1]
      /\ DOMAIN t = 1..(Len(s) - 1) /\ DOMAIN s = 1..Len(s)
      /\ \A i \in 1..(Len(s) - 1) : t[i] = s[i + 1]
  OBVIOUS
<1> HIDE DEF t
<1>2. Ordered(t, UidOrder)
  <2> SUFFICES ASSUME NEW i \in DOMAIN t, NEW j \in DOMAIN t, i < j
               PROVE  <<t[i], t[j]>> \in UidOrder
    BY DEF Ordered
  <2>1. i + 1 \in DOMAIN s /\ j + 1 \in DOMAIN s /\ i + 1 < j + 1
    BY <1>1
  <2> QED BY <2>1, <1>1 DEF Ordered
<1>3. ASSUME NEW e \in Elements(t) PROVE e.uid > Head(s).uid
  <2>1. PICK i \in DOMAIN t : t[i] = e
    BY <1>3 DEF Elements
  <2>2. 1 \in DOMAIN s /\ i + 1 \in DOMAIN s /\ 1 < i + 1 /\ s[i + 1] = e
    BY <2>1, <1>1
  <2>3. <<s[1], e>> \in UidOrder
    BY <2>2 DEF Ordered
  <2>4. s[1].uid < e.uid /\ s[1].uid \in Nat /\ e.uid \in Nat
    BY <2>2, <2>3, ListFacts DEF UidOrder
  <2> QED BY <2>4, <1>1
<1>4. Elements(t) \subseteq Elements(s) /\ Head(s) \in Elements(s)
  BY TailElements DEF t
<1> QED BY <1>2, <1>3, <1>4 DEF t

\* What a fetch returns is in order, as INBOX is.
LEMMA FetchOrdered ==
  ASSUME inbox \in Seq(Envelope), Ordered(inbox, UidOrder), NEW u, NEW max \in Nat
  PROVE  Ordered(FetchAbove(u, max), UidOrder)
<1>1. CASE FetchAbove(u, max) = FirstN(Above(u), max)
  <2> DEFINE a == Above(u)
             f == FirstN(a, max)
  <2>1. a \in Seq(Envelope) /\ Ordered(a, UidOrder)
    BY AboveFacts
  <2> HIDE DEF a
  <2>2. f \in Seq(Envelope) /\ \A i \in DOMAIN f : i \in DOMAIN a /\ f[i] = a[i]
    BY <2>1, FirstNFacts
  <2> HIDE DEF f
  <2>3. Ordered(f, UidOrder)
    BY <2>1, <2>2 DEF Ordered
  <2> QED BY <2>3, <1>1 DEF a, f
<1>2. CASE FetchAbove(u, max) = LastN(inbox, 1)
  <2> DEFINE f == LastN(inbox, 1)
  <2>1. f \in Seq(Envelope) /\ Len(f) = Smaller(1, Len(inbox)) /\ Len(inbox) \in Nat
    BY LastNFacts
  <2>2. DOMAIN f \subseteq 1..1
    BY <2>1 DEF Smaller
  <2> HIDE DEF f
  <2>3. Ordered(f, UidOrder)
    BY <2>2 DEF Ordered
  <2> QED BY <2>3, <1>2 DEF f
<1> QED BY <1>1, <1>2 DEF FetchAbove

\* The empty list is in order.
LEMMA EmptyOrdered == Ordered(<<>>, UidOrder) /\ Elements(<<>>) = {}
BY DEF Ordered, Elements

\* What moves mail: letters that come, a pass on the first of its list, a sweep of
\* the spam folder, a release, and a rebuilt mailbox.
LEMMA MailCases ==
  ASSUME [Next]_vars
  PROVE  \/ Arrive
         \/ /\ ToHeld(Head(pass.list)) /\ arrived' = arrived
            /\ pass.list # <<>> /\ (Filing \/ (Reconciling /\ Quarantines(Head(pass.list))))
         \/ ToInbox(Head(pass.list).m) /\ arrived' = arrived /\ pass.kind = "release"
         \/ /\ \E done \in SUBSET spam : CheckSpam(done)
            /\ arrived' = arrived
         \/ ResetUids
         \/ UNCHANGED <<inbox, held, spam, arrived>>
BY DEF Next, Mutate, StartReconcile, SyncReconcile, ReconcileOne, ReconcileFails,
       ReconcileEnd, Reconciling, StartSpam, SyncSpam, TickSpam, HandleNotify,
       FileArrival, FileArrivalFails, Filing, ArrivalEnd, Release, ReleaseMove,
       ReleaseFails, SendRequest, Fetch, Derive, Reply, SyncFails, Crash, ApplyLetter,
       ApplyLetterFails, ApplyCursor, ApplyCursorFails, PowerCut, Wipe, Fault, vars,
       mailVars, boundVars, unapplied

\* Each letter stays in one place.
LEMMA OnePlaceStep ==
  ASSUME Types, InOrder, OnePlace, PassWork, [Next]_vars
  PROVE  OnePlace'
<1>1. /\ inbox \in Seq(Envelope) /\ arrived \in Nat /\ MailTypes /\ PassType(pass)
      /\ \A e \in Elements(inbox) : e \in Envelope /\ e.uid \in Nat /\ e.m \in Nat
      /\ \A m \in held \cup spam : m \in Nat
  BY ListFacts DEF Types, MailTypes, OnePlace, Mails
<1>2. CASE Arrive
  <2>1. arrived' = arrived + 1 /\ arrived + 1 \in Mails /\ held' = held
    BY <1>2 DEF Arrive
  <2>2. CASE inbox' = Append(inbox, [uid |-> nextUid, m |-> arrived + 1]) /\ spam' = spam
    <3>1. PICK e \in Envelope : e.m = arrived + 1 /\ Elements(inbox') = Elements(inbox) \cup {e}
      BY <2>1, <2>2, <1>1, ToInboxFacts
    <3> QED BY <3>1, <2>1, <2>2, <1>1 DEF OnePlace
  <2>3. CASE inbox' = inbox /\ spam' = spam \cup {arrived + 1}
    BY <2>1, <2>3, <1>1 DEF OnePlace
  <2> QED BY <1>2, <2>2, <2>3 DEF Arrive
<1>3. CASE /\ ToHeld(Head(pass.list)) /\ arrived' = arrived
           /\ pass.list # <<>> /\ (Filing \/ (Reconciling /\ Quarantines(Head(pass.list))))
  <2> DEFINE e == Head(pass.list)
  <2>1. e \in Elements(inbox)
    <3>1. e \in Elements(pass.list)
      BY <1>3, <1>1, TailElements DEF PassType
    <3> QED BY <3>1, <1>3 DEF PassWork, Filing, Reconciling
  <2> HIDE DEF e
  <2>2. Elements(inbox') = Elements(inbox) \ {e} /\ held' = held \cup {e.m} /\ spam' = spam
    BY <1>1, <1>3, ToHeldFacts DEF e
  <2> QED BY <2>1, <2>2, <1>1, <1>3 DEF OnePlace
<1>4. CASE ToInbox(Head(pass.list).m) /\ arrived' = arrived /\ pass.kind = "release"
  <2> DEFINE m == Head(pass.list).m
  <2>1. m \in held /\ m \in Mails
    BY <1>1, <1>4 DEF PassWork, MailTypes
  <2> HIDE DEF m
  <2>2. inbox' = Append(inbox, [uid |-> nextUid, m |-> m]) /\ held' = held \ {m} /\ spam' = spam
    BY <1>4 DEF ToInbox, m
  <2>3. PICK e \in Envelope : e.m = m /\ Elements(inbox') = Elements(inbox) \cup {e}
    BY <2>1, <2>2, <1>1, ToInboxFacts
  <2> QED BY <2>1, <2>2, <2>3, <1>1, <1>4 DEF OnePlace
<1>5. CASE (\E done \in SUBSET spam : CheckSpam(done)) /\ arrived' = arrived
  <2>1. PICK done \in SUBSET spam : CheckSpam(done)
    BY <1>5
  <2>2. spam' = spam \ done /\ held' = held \cup done /\ inbox' = inbox
    BY <2>1 DEF CheckSpam
  <2> QED BY <2>2, <1>5 DEF OnePlace
<1>6. CASE ResetUids
  <2>1. /\ UNCHANGED <<held, spam, arrived>> /\ DOMAIN inbox' = DOMAIN inbox
        /\ inbox' = [i \in DOMAIN inbox |-> [uid |-> i, m |-> inbox[i].m]]
    BY <1>6 DEF ResetUids, boundVars
  <2>2. \A f \in Elements(inbox') :
          \E i \in DOMAIN inbox : f = [uid |-> i, m |-> inbox[i].m] /\ f.m = inbox[i].m
    BY <2>1 DEF Elements
  <2>3. \A i \in DOMAIN inbox : inbox[i] \in Elements(inbox)
    BY DEF Elements
  <2>4. \A i, j \in DOMAIN inbox : inbox[i].m = inbox[j].m => i = j
    <3> SUFFICES ASSUME NEW i \in DOMAIN inbox, NEW j \in DOMAIN inbox,
                        inbox[i].m = inbox[j].m
                 PROVE  i = j
      OBVIOUS
    <3>1. inbox[i] = inbox[j] /\ inbox[i].uid \in Nat
      BY <2>3, <1>1 DEF OnePlace
    <3>2. i <= j /\ j <= i
      BY <3>1, <1>1, OrderedIndex DEF InOrder
    <3>3. i \in Nat /\ j \in Nat
      BY <1>1
    <3> QED BY <3>2, <3>3
  <2>5. \A f \in Elements(inbox') : \E e \in Elements(inbox) : f.m = e.m
    BY <2>2, <2>3
  <2>6. \A f, g \in Elements(inbox') : f.m = g.m => f = g
    BY <2>2, <2>4
  <2> QED BY <2>1, <2>5, <2>6 DEF OnePlace
<1>7. CASE UNCHANGED <<inbox, held, spam, arrived>>
  BY <1>7 DEF OnePlace
<1> QED BY <1>2, <1>3, <1>4, <1>5, <1>6, <1>7, MailCases

\* The table stays a table, and whoever was known stays known.
LEMMA TableStep ==
  ASSUME Types, IsTable(contacts), [Next]_vars
  PROVE  IsTable(contacts') /\ \A m : Known(contacts, m) => Known(contacts', m)
<1>1. CASE Mutate
  <2>1. contacts' \in Changes(contacts)
    BY <1>1 DEF Mutate, Change
  <2> QED BY <2>1, ChangesKeep DEF Known
<1>2. CASE \E m \in held : Release(m)
  <2>1. PICK m \in held : Release(m)
    BY <1>2
  <2>2. From[m] \in Addrs
    <3>1. m \in Mails /\ From \in Seq(Addrs \cup {0}) /\ From[m] # 0
      BY <2>1, DeliveryAssumptions DEF Release, Types, MailTypes
    <3> QED BY <3>1 DEF Mails
  <2>3. CASE contacts' \in AfterAdd(contacts, From[m])
    BY <2>3, <2>2, AddKeeps DEF Known
  <2>4. CASE \E i \in Resolve(contacts, From[m]) : contacts' \in AfterReactivate(contacts, i)
    <3>1. PICK i \in DOMAIN contacts : contacts' = [contacts EXCEPT ![i].active = TRUE]
      BY <2>4 DEF AfterReactivate
    <3>2. IsTable(contacts') /\ \A b : Resolve(contacts', b) = Resolve(contacts, b)
      BY <3>1, ActiveKeeps
    <3> QED BY <3>2 DEF Known
  <2>5. CASE contacts' = contacts
    BY <2>5
  <2>6. \/ \E t \in AfterAdd(contacts, From[m]) : contacts' = t
        \/ \E i \in Resolve(contacts, From[m]) : contacts' \in AfterReactivate(contacts, i)
        \/ contacts' = contacts
    BY <2>1 DEF Release, Change
  <2> QED BY <2>3, <2>4, <2>5, <2>6
<1>3. CASE UNCHANGED contacts
  BY <1>3
<1> QED
  BY <1>1, <1>2, <1>3
     DEF Next, Arrive, ResetUids, StartReconcile, SyncReconcile, ReconcileOne,
         ReconcileFails, ReconcileEnd, StartSpam, SyncSpam, TickSpam, CheckSpam,
         HandleNotify, FileArrival, FileArrivalFails, ArrivalEnd, ReleaseMove,
         ReleaseFails, SendRequest, Fetch, Derive, Reply, SyncFails, Crash, ApplyLetter,
         ApplyLetterFails, ApplyCursor, ApplyCursorFails, PowerCut, Wipe, unfiled, released,
         unsynced, unapplied, vars

\* A pass goes on with what is still there.
LEMMA PassStep ==
  ASSUME Types, InOrder, OnePlace, PassWork, [Next]_vars
  PROVE  PassWork'
<1>1. /\ inbox \in Seq(Envelope) /\ MailTypes /\ PassType(pass) /\ Ordered(inbox, UidOrder)
      /\ \A e \in Elements(inbox) : e.uid \in Nat
  BY ListFacts DEF Types, MailTypes, InOrder
<1>2. CASE pass' = NoPass
  <2>1. pass'.list = <<>> /\ pass'.kind = "none"
    BY <1>2 DEF NoPass
  <2> QED BY <2>1, EmptyOrdered DEF PassWork
<1>3. CASE pass' = pass /\ pass # NoPass /\ Arrive
  <2>1. Elements(inbox) \subseteq Elements(inbox') /\ held' = held
    <3>1. CASE inbox' = inbox
      BY <3>1, <1>3 DEF Arrive
    <3>2. CASE inbox' = Append(inbox, [uid |-> nextUid, m |-> arrived + 1])
      <4>1. arrived + 1 \in Mails
        BY <1>3 DEF Arrive
      <4> QED BY <3>2, <4>1, <1>1, <1>3, ToInboxFacts DEF Arrive
    <3> QED BY <3>1, <3>2, <1>3 DEF Arrive
  <2> QED BY <2>1, <1>3 DEF PassWork
<1>4. CASE pass' = pass /\ UNCHANGED <<inbox, held>>
  BY <1>4 DEF PassWork
<1>5. CASE \E kind \in {"start", "sync", "resync"}, bound \in Nat :
             Listing(kind, bound) /\ UNCHANGED mailVars
  <2>1. pass'.list = inbox /\ pass'.kind # "release" /\ inbox' = inbox
    BY <1>5 DEF Listing, mailVars
  <2> QED BY <2>1, <1>1 DEF PassWork
<1>6. CASE ReconcileOne \/ FileArrival
  <2> DEFINE e == Head(pass.list)
  <2>1. /\ pass.list # <<>> /\ pass.kind # "release"
        /\ pass' = [pass EXCEPT !.list = Tail(@)]
        /\ ToHeld(e) \/ UNCHANGED mailVars
    BY <1>6 DEF ReconcileOne, FileArrival, Reconciling, Filing
  <2>2. pass.list \in Seq(Envelope) /\ pass'.list = Tail(pass.list) /\ pass'.kind = pass.kind
    BY <2>1, <1>1 DEF PassType
  <2>3. /\ Ordered(Tail(pass.list), UidOrder)
        /\ Elements(Tail(pass.list)) \subseteq Elements(inbox) /\ e \in Elements(inbox)
        /\ \A f \in Elements(Tail(pass.list)) : f.uid > e.uid
    BY <2>1, <2>2, OrderedTail DEF PassWork
  <2> HIDE DEF e
  <2>4. e \notin Elements(Tail(pass.list))
    BY <2>3, <1>1
  <2>5. CASE ToHeld(e)
    <3>1. Elements(inbox') = Elements(inbox) \ {e}
      BY <2>5, <1>1, ToHeldFacts
    <3> QED BY <3>1, <2>1, <2>2, <2>3, <2>4 DEF PassWork
  <2>6. CASE UNCHANGED mailVars
    BY <2>1, <2>2, <2>3, <2>6 DEF PassWork, mailVars
  <2> QED BY <2>1, <2>5, <2>6 DEF e
<1>7. CASE ArrivalFetch /\ UNCHANGED mailVars
  <2>1. pass'.list = FetchAbove(highWater, ArrivalBatch) /\ pass'.kind # "release"
    BY <1>7 DEF ArrivalFetch, NoPass
  <2>2. ArrivalBatch \in Nat /\ inbox' = inbox
    BY <1>7, DeliveryAssumptions DEF mailVars
  <2> QED BY <2>1, <2>2, <1>1, FetchType, FetchOrdered DEF PassWork
<1>8. CASE \E m \in held : Release(m)
  <2>1. PICK m \in held : Release(m)
    BY <1>8
  <2>2. pass'.kind = "release" /\ pass'.list = <<[uid |-> 0, m |-> m]>> /\ held' = held
    BY <2>1 DEF Release, NoPass, mailVars
  <2>3. Head(pass'.list).m = m
    BY <2>2
  <2> QED BY <2>2, <2>3 DEF PassWork
<1>9. CASE pass' = [NoPass EXCEPT !.kind = "more"]
  <2>1. pass'.list = <<>> /\ pass'.kind = "more"
    BY <1>9 DEF NoPass
  <2> QED BY <2>1, EmptyOrdered DEF PassWork
<1>10. CASE pass' = pass /\ pass = NoPass
  BY <1>2, <1>10
<1>11. asked.u \in Nat
  BY DEF Types, SyncTypes, Cursors
<1>12. CASE StartReconcile \/ SyncReconcile
  BY <1>5, <1>11, <1>12 DEF StartReconcile, SyncReconcile
<1>13. CASE HandleNotify \/ ArrivalEnd
  BY <1>2, <1>7, <1>13 DEF HandleNotify, ArrivalEnd
<1> QED
  BY <1>2, <1>3, <1>4, <1>6, <1>8, <1>9, <1>10, <1>12, <1>13
     DEF Next, Arrive, Mutate, ResetUids, ReconcileFails, ReconcileEnd, StartSpam,
         SyncSpam, TickSpam, CheckSpam, FileArrivalFails, ReleaseMove, ReleaseFails,
         SendRequest, Fetch, Derive, Reply, SyncFails, Crash, ApplyLetter,
         ApplyLetterFails, ApplyCursor, ApplyCursorFails, PowerCut, Wipe, unfiled, released,
         unsynced, unapplied, vars, mailVars

\* The handler waits for its pass, and has no letters before it derives.
LEMMA HandlerStep ==
  ASSUME Types, HandlerWork, [Next]_vars
  PROVE  HandlerWork'
<1>0. NoPass.kind = "none"
  BY DEF NoPass
<1>1. CASE UNCHANGED <<phase, asked, letters, validity, pass>>
  BY <1>1 DEF HandlerWork, Concrete
<1>2. CASE UNCHANGED <<phase, asked, letters, validity>>
           /\ pass.kind \notin {"sync", "resync"} /\ pass'.kind \notin {"sync", "resync"}
  BY <1>2 DEF HandlerWork, Concrete
<1>3. CASE SyncReconcile
  BY <1>3 DEF SyncReconcile, Listing, HandlerWork, Concrete, mailVars
<1>4. CASE ReconcileOne
  <2>1. pass'.kind = pass.kind /\ pass'.bound = pass.bound
    BY <1>4 DEF ReconcileOne, Types, PassType
  <2> QED BY <2>1, <1>4
          DEF ReconcileOne, HandlerWork, Concrete, syncVars, mailVars, ToHeld
<1>5. CASE ReconcileFails \/ ReconcileEnd
  BY <1>0, <1>5
     DEF ReconcileFails, ReconcileEnd, Reconciling, HandlerWork, Concrete, ToHeld, mailVars
<1>6. CASE SyncSpam
  BY <1>0, <1>6 DEF SyncSpam, CheckSpam, HandlerWork, Concrete
<1>7. CASE SendRequest \/ Fetch \/ Derive
  BY <1>7 DEF SendRequest, Fetch, Derive, HandlerWork, Concrete, unsynced, mailVars
<1>8. CASE Reply \/ SyncFails \/ Crash
  BY <1>0, <1>8 DEF Reply, SyncFails, Crash, HandlerWork, Concrete, unsynced, mailVars
<1>9. CASE ResetUids
  BY <1>0, <1>9 DEF ResetUids, HandlerWork, Concrete, syncVars
<1>10. CASE StartReconcile \/ StartSpam \/ TickSpam
  BY <1>0, <1>1, <1>2, <1>10
     DEF StartReconcile, StartSpam, TickSpam, CheckSpam, Listing, syncVars, mailVars
<1>11. CASE HandleNotify \/ ArrivalEnd
  <2>1. pass'.kind \in {"none", "arrival", "more"}
    BY <1>0, <1>11 DEF HandleNotify, ArrivalEnd, ArrivalFetch, NoPass
  <2> QED BY <1>0, <1>2, <1>11, <2>1 DEF HandleNotify, ArrivalEnd, Filing, syncVars, mailVars
<1>12. CASE FileArrival \/ FileArrivalFails
  <2>1. pass'.kind \in {pass.kind, "none"} /\ pass.kind \in {"arrival", "more"}
    BY <1>0, <1>12 DEF FileArrival, FileArrivalFails, Filing, Types, PassType
  <2> QED BY <1>2, <1>12, <2>1 DEF FileArrival, FileArrivalFails, syncVars, mailVars, ToHeld
<1>13. CASE (\E m \in held : Release(m)) \/ ReleaseMove \/ ReleaseFails
  <2>1. pass'.kind \in {"none", "release", "more"} /\ pass.kind \in {"none", "release"}
    BY <1>0, <1>13 DEF Release, ReleaseMove, ReleaseFails, NoPass
  <2> QED BY <1>2, <1>13, <2>1 DEF Release, ReleaseMove, ReleaseFails, syncVars, mailVars, ToInbox
<1> QED
  BY <1>1, <1>3, <1>4, <1>5, <1>6, <1>7, <1>8, <1>9, <1>10, <1>11, <1>12, <1>13
     DEF Next, Arrive, Mutate, ApplyLetter, ApplyLetterFails, ApplyCursor,
         ApplyCursorFails, PowerCut, Wipe, unapplied, vars, mailVars, syncVars

\* The arrival high-water mark is a UID, or 0.
LEMMA HighWaterStep ==
  ASSUME Types, highWater \in Nat, [Next]_vars
  PROVE  highWater' \in Nat
<1>1. CASE ReconcileEnd
  BY <1>1 DEF ReconcileEnd, Types, PassType, Larger
<1>2. CASE FileArrival
  <2>1. Head(pass.list) \in Envelope
    BY <1>2, PassTypes DEF FileArrival, Types
  <2> QED BY <2>1, <1>2, EnvelopeFacts DEF FileArrival, Larger
<1>3. CASE highWater' \in {highWater, 0}
  BY <1>3
<1> QED
  BY <1>1, <1>2, <1>3
     DEF Next, Arrive, Mutate, ResetUids, StartReconcile, SyncReconcile, ReconcileOne,
         ReconcileFails, StartSpam, SyncSpam, TickSpam, CheckSpam, HandleNotify,
         FileArrivalFails, ArrivalEnd, Release, ReleaseMove, ReleaseFails, SendRequest,
         Fetch, Derive, Reply, SyncFails, Crash, ApplyLetter, ApplyLetterFails,
         ApplyCursor, ApplyCursorFails, PowerCut, Wipe, unsynced, unapplied, vars

\* Before anything came, nothing is anywhere.
LEMMA FilingInit == Init => FilingWork
<1> SUFFICES ASSUME Init PROVE FilingWork
  OBVIOUS
<1>1. IsTable(EmptyTable)
  BY DEF IsTable, EmptyTable
<1>2. IsTable(contacts)
  <2>1. contacts = EmptyTable \/ \E a \in Addrs : contacts \in AfterAdd(EmptyTable, a)
    BY DEF Init
  <2> QED BY <2>1, <1>1, AddKeeps
<1>3. OnePlace /\ PassWork
  BY EmptyOrdered DEF Init, OnePlace, PassWork, NoPass
<1>4. HandlerWork
  BY DEF Init, HandlerWork, NoPass
<1> QED BY <1>2, <1>3, <1>4 DEF Init, FilingWork

\* The shared part is an invariant, given the one of the cursor.
LEMMA FilingStep ==
  ASSUME DeliveryInv, FilingWork, [Next]_vars
  PROVE  FilingWork'
BY TableStep, OnePlaceStep, PassStep, HandlerStep, HighWaterStep
   DEF FilingWork, DeliveryInv, Follows
-----------------------------------------------------------------------------
(* What removed senders sent. *)

\* The row a sender resolves to is one row.
LEMMA ResolveOne ==
  ASSUME NEW t, IsTable(t), NEW a, NEW i \in Resolve(t, a), NEW j \in Resolve(t, a)
  PROVE  i = j
<1>1. i <= j /\ j <= i /\ i \in Nat /\ j \in Nat
  BY ContactsAssumptions DEF Resolve, FirstOf, RowsAt, IsTable
<1> QED BY <1>1

\* A letter a guardian releases is not, or no longer, from a removed sender.
LEMMA ReleaseClears ==
  ASSUME IsTable(contacts), \A n \in shutOut : Tombstone(contacts, n),
         NEW m \in held, Release(m)
  PROVE  shutOut' \subseteq shutOut /\ m \notin shutOut'
<1>1. shutOut' \subseteq shutOut
  BY DEF Release, Change
<1>2. CASE ~Tombstone(contacts, m)
  BY <1>1, <1>2
<1>3. CASE ~Known(contacts, m)
  BY <1>1, <1>3 DEF Known, Tombstone
<1>4. CASE \E i \in Resolve(contacts, From[m]) :
             \E t \in AfterReactivate(contacts, i) : Change(t)
  <2>1. PICK i \in Resolve(contacts, From[m]) :
               \E t \in AfterReactivate(contacts, i) : Change(t)
    BY <1>4
  <2>2. /\ i \in DOMAIN contacts /\ contacts' = [contacts EXCEPT ![i].active = TRUE]
        /\ shutOut' = {n \in shutOut : Tombstone(contacts', n) /\ ~Active(contacts', n)}
    BY <2>1 DEF AfterReactivate, Change
  <2>3. contacts'[i].active = TRUE
    <3>1. contacts[i] \in Row
      BY <2>2 DEF IsTable
    <3> QED BY <2>2, <3>1 DEF IsTable, Row
  <2>4. IsTable(contacts') /\ Resolve(contacts', From[m]) = Resolve(contacts, From[m])
    BY <2>2, ActiveKeeps
  <2>5. ~Tombstone(contacts', m)
    BY <2>1, <2>3, <2>4, ResolveOne DEF Tombstone
  <2> QED BY <2>2, <2>5
<1> QED BY <1>2, <1>3, <1>4 DEF Release

\* What is shut out is from removed senders, and has come.
LEMMA ShutOutStep ==
  ASSUME OnePlace, ShutOutCame, [Next]_vars
  PROVE  /\ ShutOutCame'
         /\ phase \notin {"idle", "reconcile"} => shutOut' \subseteq shutOut \cup late'
<1> USE DEF ShutOutCame
<1>1. CASE Arrive
  <2>1. /\ arrived' = arrived + 1 /\ arrived + 1 \in Mails /\ contacts' = contacts
        /\ shutOut' = shutOut \/
             (shutOut' = shutOut \cup {arrived + 1} /\ Tombstone(contacts, arrived + 1))
        /\ shutOut' = shutOut \/ phase \in {"idle", "reconcile"} \/ arrived + 1 \in late'
    BY <1>1 DEF Arrive
  <2>2. arrived \in Nat /\ \A m \in shutOut : m \in Nat
    BY DEF OnePlace, Mails
  <2> QED BY <2>1, <2>2
<1>2. CASE \E t : Change(t) /\ arrived' = arrived
  BY <1>2 DEF Change
<1>3. CASE Mutate \/ \E m \in held : Release(m)
  <2>1. arrived' = arrived /\ ((\E t : Change(t)) \/ UNCHANGED <<contacts, shutOut>>)
    BY <1>3 DEF Mutate, Release
  <2> QED BY <1>2, <2>1
<1>4. CASE UNCHANGED <<contacts, shutOut, arrived>>
  BY <1>4
<1> QED
  BY <1>1, <1>3, <1>4
     DEF Next, ResetUids, StartReconcile, SyncReconcile, ReconcileOne,
         ReconcileFails, ReconcileEnd, StartSpam, SyncSpam, TickSpam, CheckSpam,
         HandleNotify, FileArrival, FileArrivalFails, ArrivalEnd, ReleaseMove,
         ReleaseFails, SendRequest, Fetch, Derive, Reply, SyncFails, Crash, ApplyLetter,
         ApplyLetterFails, ApplyCursor, ApplyCursorFails, PowerCut, Wipe, Fault,
         boundVars, unfiled, released, unsynced, unapplied, vars

\* No pass is to release what is shut out: mail that comes is not yet in Held.
LEMMA ReleaseStep ==
  ASSUME Types, OnePlace, PassWork, IsTable(contacts), ShutOutCame, ReleasesOthers,
         [Next]_vars
  PROVE  ReleasesOthers'
<1>1. PassType(pass)
  BY DEF Types
<1>2. pass' = pass => ReleasesOthers'
  <2> SUFFICES ASSUME pass' = pass, pass.kind = "release", Head(pass.list).m \in shutOut'
               PROVE  FALSE
    BY DEF ReleasesOthers
  <2>1. Head(pass.list).m \in held /\ Head(pass.list).m \notin shutOut
    BY <1>1 DEF PassWork, ReleasesOthers
  <2>2. Arrive /\ Head(pass.list).m = arrived + 1
    BY <2>1
       DEF Next, Arrive, Mutate, Release, Change, ResetUids, StartReconcile, SyncReconcile,
           ReconcileOne, ReconcileFails, ReconcileEnd, StartSpam, SyncSpam, TickSpam,
           CheckSpam, HandleNotify, FileArrival, FileArrivalFails, ArrivalEnd,
           ReleaseMove, ReleaseFails, SendRequest, Fetch, Derive, Reply, SyncFails, Crash,
           ApplyLetter, ApplyLetterFails, ApplyCursor, ApplyCursorFails, PowerCut, Wipe,
           unfiled, released, unsynced, unapplied, vars
  <2> QED BY <2>1, <2>2, <1>1 DEF OnePlace
<1>3. CASE pass' # pass
  <2>1. CASE \E m \in held : Release(m)
    <3>1. PICK m \in held : Release(m)
      BY <2>1
    <3>2. Head(pass'.list).m = m
      BY <3>1 DEF Release, NoPass
    <3> QED BY <3>1, <3>2, <1>1, ReleaseClears DEF ShutOutCame, ReleasesOthers
  <2>2. CASE ~ \E m \in held : Release(m)
    <3>1. pass'.kind # "release"
      <4>1. CASE ReconcileOne \/ FileArrival
        BY <4>1, <1>1 DEF ReconcileOne, FileArrival, Reconciling, Filing, PassType
      <4>2. CASE ArrivalFetch
        BY <4>2 DEF ArrivalFetch, NoPass
      <4>3. CASE pass' = NoPass
        BY <4>3 DEF NoPass
      <4>4. CASE StartReconcile \/ SyncReconcile
        BY <4>4 DEF StartReconcile, SyncReconcile, Listing
      <4>5. CASE pass' = [NoPass EXCEPT !.kind = "more"]
        BY <4>5 DEF NoPass
      <4> QED
        BY <1>3, <2>2, <4>1, <4>2, <4>3, <4>4, <4>5
           DEF Next, Arrive, Mutate, ResetUids, ReconcileFails, ReconcileEnd, StartSpam,
               SyncSpam, TickSpam, CheckSpam, HandleNotify, FileArrivalFails, ArrivalEnd,
               ReleaseMove, ReleaseFails, SendRequest, Fetch, Derive, Reply, SyncFails,
               Crash, ApplyLetter, ApplyLetterFails, ApplyCursor, ApplyCursorFails,
               PowerCut, Wipe, unfiled, released, unsynced, unapplied, vars
    <3> QED BY <3>1 DEF ReleasesOthers
  <2> QED BY <2>1, <2>2
<1> QED BY <1>2, <1>3

\* While an answer is awaited, nobody starts another, and what is excused stays so.
LEMMA AwaitingStep ==
  ASSUME DeliveryInv, awaiting, awaiting', [Next]_vars
  PROVE  Passed \subseteq Passed' /\ late \subseteq late' /\ asked = cursor /\ phase # "idle"
<1>1. phase # "idle" /\ ~answer.some /\ asked = cursor
  BY DEF DeliveryInv, Follows, Asking
<1>2. got \subseteq got' /\ skipped \subseteq skipped' /\ beyond \subseteq beyond'
  BY <1>1
     DEF Next, Arrive, Mutate, ResetUids, StartReconcile, SyncReconcile, ReconcileOne,
         ReconcileFails, ReconcileEnd, StartSpam, SyncSpam, TickSpam, CheckSpam,
         HandleNotify, FileArrival, FileArrivalFails, ArrivalEnd, Release, ReleaseMove,
         ReleaseFails, SendRequest, Fetch, Derive, Reply, SyncFails, Crash, ApplyLetter,
         ApplyLetterFails, Applying, ApplyCursor, ApplyCursorFails, PowerCut, Wipe,
         unfiled, released, unapplied, vars
<1>3. late \subseteq late'
  BY DEF Next, Arrive, Mutate, ResetUids, StartReconcile, SyncReconcile, ReconcileOne,
         ReconcileFails, ReconcileEnd, StartSpam, SyncSpam, TickSpam, CheckSpam,
         HandleNotify, FileArrival, FileArrivalFails, ArrivalEnd, Release, ReleaseMove,
         ReleaseFails, SendRequest, Fetch, Derive, Reply, SyncFails, Crash, ApplyLetter,
         ApplyLetterFails, ApplyCursor, ApplyCursorFails, PowerCut, Wipe, unfiled,
         released, unapplied, vars
<1> QED BY <1>1, <1>2, <1>3 DEF Passed

\* The sweep of a sync takes out what removed senders sent above its cursor.
LEMMA SweepStep ==
  ASSUME DeliveryInv, FilingWork, ShutOutCame, ReleasesOthers, SweptAbove, [Next]_vars
  PROVE  SweptAbove'
<1>1. /\ MailTypes /\ SyncTypes /\ PassType(pass) /\ inbox \in Seq(Envelope)
      /\ HandlerWork /\ PassWork /\ OnePlace /\ asked.u \in Nat
      /\ \A e \in Elements(inbox) : e \in Envelope /\ e.uid \in Nat
  BY ListFacts DEF DeliveryInv, Types, MailTypes, SyncTypes, Cursors, FilingWork
<1>2. phase \notin {"idle", "reconcile"} => shutOut' \subseteq shutOut \cup late'
  BY <1>1, ShutOutStep
<1>3. Elements(<<>>) = {}
  BY DEF Elements
<1>4. CASE phase' \in {"idle", "reconcile"} /\ letters' = <<>>
  BY <1>3, <1>4 DEF SweptAbove
<1>5. CASE SendRequest
  BY <1>1, <1>4, <1>5 DEF SendRequest, HandlerWork
<1>6. awaiting' => awaiting \/ SendRequest
  BY DEF Next, Arrive, Mutate, ResetUids, StartReconcile, SyncReconcile, ReconcileOne,
         ReconcileFails, ReconcileEnd, StartSpam, SyncSpam, TickSpam, CheckSpam,
         HandleNotify, FileArrival, FileArrivalFails, ArrivalEnd, Release, ReleaseMove,
         ReleaseFails, Fetch, Derive, Reply, SyncFails, Crash, ApplyLetter,
         ApplyLetterFails, ApplyCursor, ApplyCursorFails, PowerCut, Wipe, unfiled,
         released, unapplied, deviceVars, vars
<1> SUFFICES ASSUME awaiting, awaiting', ~SendRequest PROVE SweptAbove'
  BY <1>5, <1>6 DEF SweptAbove
<1>7. /\ Passed \subseteq Passed' /\ late \subseteq late' /\ asked = cursor
      /\ phase # "idle" /\ asked.v <= validity
  BY AwaitingStep DEF DeliveryInv, Follows, Boundaries, Behind
<1>8. CASE SyncReconcile
  <2>1. /\ phase' = "reconciling" /\ UNCHANGED <<asked, letters, last, inbox, validity>>
        /\ letters = <<>> /\ (Concrete(asked) => pass'.list = inbox)
    BY <1>1, <1>8 DEF SyncReconcile, Listing, HandlerWork, mailVars
  <2> QED BY <2>1, <1>3 DEF SweptAbove, Concrete
<1>9. CASE phase = "reconcile" /\ ~SyncReconcile
  <2>1. letters = <<>> /\ pass.kind # "sync" /\ pass.kind # "resync"
    BY <1>1, <1>9 DEF HandlerWork
  <2>2. phase' \in {"idle", "reconcile"} /\ letters' \in {letters, <<>>}
    BY <2>1, <1>9
       DEF Next, Arrive, Mutate, ResetUids, StartReconcile, ReconcileOne,
           ReconcileFails, ReconcileEnd, Reconciling, StartSpam, SyncSpam, TickSpam,
           CheckSpam, HandleNotify, FileArrival, FileArrivalFails, ArrivalEnd, Release,
           ReleaseMove, ReleaseFails, Fetch, Derive, Reply, SyncFails, Crash,
           ApplyLetter, ApplyLetterFails, ApplyCursor, ApplyCursorFails, PowerCut, Wipe,
           syncVars, unsynced, unapplied, vars
  <2> QED BY <2>1, <2>2, <1>4
<1> SUFFICES ASSUME phase \notin {"idle", "reconcile"}, shutOut' \subseteq shutOut \cup late'
             PROVE  SweptAbove'
  BY <1>2, <1>7, <1>8, <1>9
\* The mailbox, filing and the device go on around the handler.
<1>10. CASE /\ UNCHANGED <<syncVars, validity>>
            /\ pass' = pass \/ phase # "reconciling"
            /\ \A e \in Elements(inbox') :
                 e \in Elements(inbox) \/ e.m \notin shutOut' \/ e.m \in late'
  <2>1. UNCHANGED <<syncVars, validity>>
    BY <1>10
  <2>2. UNCHANGED <<phase, asked, raws, letters, last, validity>>
    BY <2>1 DEF syncVars
  <2> QED BY <2>2, <1>7, <1>10 DEF SweptAbove, Concrete
<1>11. CASE Arrive
  <2>1. UNCHANGED <<syncVars, validity, pass>> /\ arrived + 1 \in Mails
    BY <1>11 DEF Arrive
  <2>2. CASE inbox' = inbox
    BY <2>1, <2>2, <1>10
  <2>3. CASE inbox' = Append(inbox, [uid |-> nextUid, m |-> arrived + 1])
             /\ late' = late \cup {arrived + 1}
    BY <2>1, <2>3, <1>1, <1>10, ToInboxFacts
  <2> QED BY <2>2, <2>3, <1>11 DEF Arrive
<1>12. CASE ResetUids
  <2>1. /\ UNCHANGED <<phase, asked, raws, letters, last>> /\ validity' = validity + 1
    BY <1>12 DEF ResetUids, syncVars
  <2>2. asked.v # validity'
    BY <2>1, <1>1, <1>7 DEF MailTypes, SyncTypes, Cursors
  <2> QED BY <2>1, <2>2, <1>7 DEF SweptAbove, Concrete
<1>13. CASE ReconcileOne /\ phase = "reconciling"
  <2>1. pass'.list = Tail(pass.list) /\ UNCHANGED <<phase, asked, raws, letters, last, validity>>
    BY <1>1, <1>13 DEF ReconcileOne, PassType, ToHeld, mailVars, syncVars
  <2>2. ASSUME Concrete(asked), NEW e \in Elements(inbox'), e.uid > asked.u, e.m \in shutOut'
        PROVE  e \in Elements(Tail(pass.list)) \/ e.m \in late'
    <3>1. pass.kind = "sync" /\ pass.bound = asked.u
      BY <1>1, <1>13, <2>2 DEF HandlerWork
    <3>2. /\ pass.list # <<>> /\ pass.list \in Seq(Envelope)
          /\ Elements(pass.list) = {Head(pass.list)} \cup Elements(Tail(pass.list))
      BY <1>1, <1>13, TailElements DEF ReconcileOne, PassType
    <3>3. CASE e.m \in late'
      BY <3>3
    <3>4. CASE e.m \in shutOut /\ Quarantines(Head(pass.list))
      <4>1. Elements(inbox') = Elements(inbox) \ {Head(pass.list)}
        BY <1>1, <1>13, <3>4, ToHeldFacts DEF ReconcileOne
      <4> QED BY <4>1, <3>2, <3>4, <2>2, <1>7, <1>13 DEF SweptAbove
    <3>5. CASE e.m \in shutOut /\ ~Quarantines(Head(pass.list))
      <4>1. inbox' = inbox
        BY <1>13, <3>5 DEF ReconcileOne, mailVars
      <4>2. Quarantines(e)
        BY <2>2, <3>1, <3>5 DEF Quarantines, ShutOutCame
      <4> QED BY <4>1, <4>2, <3>2, <3>5, <2>2, <1>7, <1>13 DEF SweptAbove
    <3> QED BY <3>3, <3>4, <3>5, <2>2
  <2> QED BY <2>1, <2>2, <1>7, <1>13 DEF SweptAbove, Concrete
<1>14. CASE ReconcileEnd /\ phase = "reconciling"
  <2>1. pass.list = <<>> /\ pass.kind # "start"
    BY <1>1, <1>14 DEF ReconcileEnd, HandlerWork
  <2>2. phase' = "spam" /\ UNCHANGED <<asked, letters, last, inbox, validity>>
    BY <1>14, <2>1 DEF ReconcileEnd, mailVars
  <2> QED BY <2>1, <2>2, <1>3, <1>7, <1>14 DEF SweptAbove, Concrete
<1>15. CASE SyncSpam
  <2>1. /\ phase' = "fetch" /\ UNCHANGED <<asked, letters, last, inbox, validity>>
        /\ phase = "spam"
    BY <1>15 DEF SyncSpam, CheckSpam
  <2> QED BY <2>1, <1>7 DEF SweptAbove, Concrete
<1>16. CASE Fetch
  <2>1. /\ phase = "fetch" /\ phase' = "derive" /\ UNCHANGED <<asked, validity>> /\ letters' = <<>>
        /\ shutOut' = shutOut
        /\ Concrete(asked) => raws' = FetchAbove(asked.u, FetchBatch)
        /\ ~Concrete(asked) => last'.v = validity
    BY <1>16 DEF Fetch, mailVars, unsynced
  <2>2. ASSUME Concrete(asked), NEW e \in Elements(raws'), e.m \in shutOut
        PROVE  e.m \in late' \cup Passed'
    <3>1. e \in Elements(inbox)
      BY <2>1, <2>2, <1>1, FetchType, DeliveryAssumptions
    <3>2. CASE e.uid > asked.u
      BY <2>1, <2>2, <3>1, <3>2, <1>7 DEF SweptAbove
    <3>3. CASE e.uid <= asked.u
      BY <2>2, <3>1, <3>3, <1>7 DEF DeliveryInv, Follows, Applied
    <3> QED BY <3>1, <3>2, <3>3, <1>1
  <2> QED BY <2>1, <2>2, <1>3 DEF SweptAbove, Concrete
<1>17. CASE Derive
  <2>1. /\ phase = "derive" /\ phase' = "derive" /\ UNCHANGED <<asked, validity, shutOut>>
        /\ raws # <<>> /\ raws' = Tail(raws) /\ last'.v = last.v
        /\ letters' \in {letters, Append(letters, Head(raws).m)}
    BY <1>1, <1>17 DEF Derive, mailVars, unsynced, SyncTypes, Cursors
  <2>2. raws \in Seq(Envelope) /\ letters \in Seq(Mails)
    BY <1>1 DEF SyncTypes
  <2>3. Head(raws) \in Envelope /\ Elements(raws) = {Head(raws)} \cup Elements(Tail(raws))
    BY <2>1, <2>2, TailElements
  <2>4. Elements(Append(letters, Head(raws).m)) = Elements(letters) \cup {Head(raws).m}
    BY <2>2, <2>3, EnvelopeFacts, AppendElements
  <2> QED BY <2>1, <2>3, <2>4, <1>7 DEF SweptAbove
<1>18. CASE /\ pass.list # <<>> /\ pass.kind # "release" /\ phase # "reconciling"
            /\ ReconcileOne \/ ReconcileFails \/ FileArrival \/ FileArrivalFails
  <2>1. UNCHANGED inbox \/ ToHeld(Head(pass.list))
    BY <1>18 DEF ReconcileOne, ReconcileFails, FileArrival, FileArrivalFails, mailVars
  <2>2. Elements(inbox') \subseteq Elements(inbox) /\ validity' = validity
    <3>1. validity' = validity
      BY <1>18 DEF ReconcileOne, ReconcileFails, FileArrival, FileArrivalFails, ToHeld, mailVars
    <3> QED BY <3>1, <2>1, <1>1, ToHeldFacts
  <2>3. UNCHANGED syncVars
    <3>1. pass.kind \notin {"sync", "resync"}
      BY <1>1, <1>18 DEF HandlerWork
    <3> QED BY <3>1, <1>18
            DEF ReconcileOne, ReconcileFails, FileArrival, FileArrivalFails, Reconciling, syncVars
  <2> QED BY <1>10, <1>18, <2>2, <2>3
<1>19. CASE ReleaseMove \/ ReleaseFails
  <2>1. /\ UNCHANGED <<syncVars, shutOut>> /\ validity' = validity /\ pass.kind = "release"
        /\ phase # "reconciling"
    BY <1>1, <1>19 DEF ReleaseMove, ReleaseFails, released, ToInbox, mailVars, HandlerWork
  <2>2. Head(pass.list).m \in Mails /\ Head(pass.list).m \notin shutOut
    BY <1>1, <2>1 DEF PassWork, MailTypes, ReleasesOthers
  <2>3. \A e \in Elements(inbox') : e \in Elements(inbox) \/ e.m \notin shutOut'
    <3>1. CASE inbox' = inbox
      BY <3>1
    <3>2. CASE inbox' = Append(inbox, [uid |-> nextUid, m |-> Head(pass.list).m])
      BY <3>2, <2>1, <2>2, <1>1, ToInboxFacts
    <3> QED BY <3>1, <3>2, <1>19 DEF ReleaseMove, ReleaseFails, ToInbox, mailVars
  <2> QED BY <1>10, <2>1, <2>3
<1>20. CASE \/ StartReconcile \/ StartSpam \/ TickSpam \/ HandleNotify \/ ArrivalEnd
            \/ \E m \in held : Release(m)
            \/ ReconcileEnd /\ phase # "reconciling"
  <2>1. pass.kind \notin {"sync", "resync"}
    <3>1. pass = NoPass \/ Filing \/ phase # "reconciling"
      BY <1>20
         DEF StartReconcile, StartSpam, TickSpam, HandleNotify, ArrivalEnd, Release
    <3> QED BY <3>1, <1>1 DEF Filing, NoPass, HandlerWork
  <2>2. phase # "reconciling" /\ UNCHANGED <<syncVars, validity, inbox>>
    BY <2>1, <1>1, <1>20
       DEF StartReconcile, StartSpam, TickSpam, CheckSpam, HandleNotify, ArrivalEnd,
           ReconcileEnd, Reconciling, Release, HandlerWork, mailVars, syncVars
  <2> QED BY <2>2, <1>10
<1>21. CASE \/ Mutate \/ ApplyLetter \/ ApplyLetterFails \/ ApplyCursor \/ ApplyCursorFails
            \/ UNCHANGED vars
  <2>1. UNCHANGED <<syncVars, validity, inbox, pass>>
    BY <1>21
       DEF Mutate, ApplyLetter, ApplyLetterFails, ApplyCursor, ApplyCursorFails,
           unapplied, vars, mailVars
  <2> QED BY <2>1, <1>10
<1>22. ~(Reply \/ SyncFails \/ Crash \/ PowerCut \/ Wipe)
  BY DEF Reply, SyncFails, Crash, PowerCut, Wipe
<1>23. ~(ReconcileFails /\ phase = "reconciling")
  BY <1>1 DEF ReconcileFails, HandlerWork
<1>24. ReconcileOne \/ ReconcileFails \/ FileArrival \/ FileArrivalFails =>
         pass.list # <<>> /\ pass.kind # "release"
  BY DEF ReconcileOne, ReconcileFails, Reconciling, FileArrival, FileArrivalFails, Filing
<1>25. FileArrival \/ FileArrivalFails => phase # "reconciling"
  BY <1>1 DEF FileArrival, FileArrivalFails, Filing, HandlerWork
<1> QED
  BY <1>8, <1>11, <1>12, <1>13, <1>14, <1>15, <1>16, <1>17, <1>18, <1>19, <1>20, <1>21,
     <1>22, <1>23, <1>24, <1>25 DEF Next
-----------------------------------------------------------------------------
(* What filing has settled. *)

\* While a request is answered, no answer is being applied, and the cursor stays
\* unless it is lost.
LEMMA OneCursorStep ==
  ASSUME DeliveryInv, HandlerWork, OneCursor, [Next]_vars
  PROVE  OneCursor'
<1>1. /\ validity \in Nat \ {0} /\ asked.v \in Nat /\ cursor.v <= validity
      /\ NoCursor.v = 0
  BY NoAnswerFacts
     DEF DeliveryInv, Types, MailTypes, SyncTypes, Cursors, Follows, Boundaries, Behind
<1>2. CASE ResetUids
  <2>1. UNCHANGED <<phase, asked, answer, cursor>> /\ validity' = validity + 1
    BY <1>2 DEF ResetUids, syncVars, deviceVars
  <2> QED BY <2>1, <1>1 DEF OneCursor, Concrete
<1>3. CASE Wipe
  <2>1. UNCHANGED <<phase, asked, validity>> /\ cursor'.v = 0 /\ ~answer'.some
    BY <1>1, <1>3, NoAnswerFacts DEF Wipe, unapplied, mailVars, syncVars
  <2> QED BY <2>1, <1>1 DEF OneCursor, Concrete
<1> SUFFICES ASSUME ~ResetUids, ~Wipe PROVE OneCursor'
  BY <1>2, <1>3
<1>4. validity' = validity
  BY DEF Next, Arrive, Mutate, StartReconcile, SyncReconcile, ReconcileOne, ReconcileFails,
         ReconcileEnd, StartSpam, SyncSpam, TickSpam, CheckSpam, HandleNotify, FileArrival,
         FileArrivalFails, ArrivalEnd, Release, ReleaseMove, ReleaseFails, SendRequest,
         Fetch, Derive, Reply, SyncFails, Crash, ApplyLetter, ApplyLetterFails,
         ApplyCursor, ApplyCursorFails, PowerCut, ToHeld, ToInbox, mailVars, unapplied,
         vars
<1>5. CASE /\ UNCHANGED <<answer, asked, cursor>>
           /\ phase' = phase \/ phase # "idle" \/ phase' = "idle"
  BY <1>4, <1>5 DEF OneCursor, Concrete
<1>6. CASE SendRequest
  BY <1>1, <1>4, <1>6 DEF SendRequest, OneCursor, Concrete
<1>7. CASE Reply \/ SyncFails \/ Crash
  BY <1>1, <1>4, <1>7 DEF Reply, SyncFails, Crash, OneCursor
<1>8. CASE ApplyLetter \/ ApplyLetterFails \/ ApplyCursor \/ ApplyCursorFails
  BY <1>4, <1>8
     DEF ApplyLetter, ApplyLetterFails, ApplyCursor, ApplyCursorFails, Applying, unapplied,
         syncVars, OneCursor
<1>9. CASE PowerCut
  BY <1>4, <1>9, NoAnswerFacts DEF PowerCut, unapplied, syncVars, OneCursor, Concrete
<1>10. CASE ReconcileEnd
  BY <1>5, <1>10 DEF ReconcileEnd, Reconciling, HandlerWork, unfiled, deviceVars
<1> QED
  BY <1>5, <1>6, <1>7, <1>8, <1>9, <1>10
     DEF Next, Arrive, Mutate, StartReconcile, SyncReconcile, ReconcileOne, ReconcileFails,
         StartSpam, SyncSpam, TickSpam, CheckSpam, HandleNotify, FileArrival,
         FileArrivalFails, ArrivalEnd, Release, ReleaseMove, ReleaseFails, Fetch, Derive,
         unfiled, released, deviceVars, syncVars, vars

\* What a cursor settles, the device has, and is in INBOX at or below that cursor
\* and the mark; a letter goes back to INBOX unsettled.
LEMMA SettledCases ==
  ASSUME [Next]_vars
  PROVE  \/ settled' = settled
         \/ settled' = settled \ {Head(pass.list).m} /\ (ReleaseMove \/ ReleaseFails)
         \/ /\ ApplyCursor /\ UNCHANGED <<inbox, validity, highWater>>
            /\ cursor' = answer.cursor
            /\ \A m \in settled' \ settled : \E e \in Elements(inbox) :
                 /\ e.m = m /\ m \in got /\ answer.cursor.v = validity
                 /\ e.uid <= answer.cursor.u /\ e.uid <= highWater
<1>1. CASE ApplyCursor
  <2>1. UNCHANGED <<inbox, validity, highWater>> /\ cursor' = answer.cursor
    BY <1>1 DEF ApplyCursor, unapplied, mailVars
  <2>2. ASSUME NEW m \in settled' \ settled
        PROVE  \E e \in Elements(inbox) :
                 /\ e.m = m /\ m \in got /\ answer.cursor.v = validity
                 /\ e.uid <= answer.cursor.u /\ e.uid <= highWater
    <3>1. PICK i \in DOMAIN inbox :
            /\ inbox[i].m = m /\ m \in got /\ answer.cursor.v = validity
            /\ inbox[i].uid <= answer.cursor.u /\ inbox[i].uid <= highWater
      BY <1>1, <2>2 DEF ApplyCursor
    <3>2. inbox[i] \in Elements(inbox)
      BY DEF Elements
    <3> QED BY <3>1, <3>2
  <2> QED BY <1>1, <2>1, <2>2
<1>2. CASE ReleaseMove \/ ReleaseFails
  BY <1>2 DEF ReleaseMove, ReleaseFails
<1>3. CASE settled' = settled
  BY <1>3
<1> QED
  BY <1>1, <1>2, <1>3
     DEF Next, Arrive, Mutate, ResetUids, StartReconcile, SyncReconcile, ReconcileOne,
         ReconcileFails, ReconcileEnd, StartSpam, SyncSpam, TickSpam, CheckSpam,
         HandleNotify, FileArrival, FileArrivalFails, ArrivalEnd, Release, SendRequest,
         Fetch, Derive, Reply, SyncFails, Crash, ApplyLetter, ApplyLetterFails,
         ApplyCursorFails, PowerCut, Wipe, unfiled, unsynced, vars

\* Every letter on its way to the child was known when it was derived, and the
\* table forgets nobody.
LEMMA SomebodyStep ==
  ASSUME Types, IsTable(contacts), FromSomebody, [Next]_vars
  PROVE  FromSomebody'
<1>1. \A m : Known(contacts, m) => Known(contacts', m)
  BY TableStep
<1>2. Elements(<<>>) = {}
  BY DEF Elements
<1> DEFINE Way == got \cup settled \cup Elements(letters) \cup Elements(answer.letters)
<1>3. settled' \subseteq got \cup settled
  BY SettledCases
<1>4. CASE /\ got' \subseteq Way /\ Elements(letters') \subseteq Way
           /\ Elements(answer'.letters) \subseteq Way
  BY <1>1, <1>3, <1>4 DEF FromSomebody
<1>5. CASE Derive
  <2>1. /\ raws # <<>> /\ UNCHANGED <<got, answer>>
        /\ \/ letters' = letters
           \/ letters' = Append(letters, Head(raws).m) /\ Known(contacts, Head(raws).m)
    BY <1>5 DEF Derive, deviceVars
  <2>2. Head(raws).m \in Mails
    BY <2>1, TailElements, EnvelopeFacts DEF Types, SyncTypes
  <2>3. Elements(Append(letters, Head(raws).m)) = Elements(letters) \cup {Head(raws).m}
    BY <2>2, AppendElements DEF Types, SyncTypes
  <2> QED BY <2>1, <2>3, <1>1, <1>3 DEF FromSomebody
<1>6. CASE Reply
  <2>1. got' = got /\ letters' = <<>> /\ (answer' = answer \/ answer'.letters = letters)
    BY <1>6 DEF Reply
  <2> QED BY <2>1, <1>2, <1>4
<1>7. CASE ApplyLetter \/ ApplyLetterFails
  <2> DEFINE m == Head(answer.letters)
  <2>1. /\ answer.letters # <<>> /\ letters' = letters
        /\ got' \in {got, got \cup {m}}
        /\ answer'.letters = Tail(answer.letters) \/ answer'.letters = <<>>
    BY <1>7, NoAnswerFacts
       DEF ApplyLetter, ApplyLetterFails, Applying, unapplied, syncVars, Types, DeviceTypes
  <2>2. m \in Elements(answer.letters)
        /\ Elements(Tail(answer.letters)) \subseteq Elements(answer.letters)
    BY <2>1, TailElements DEF Types, DeviceTypes
  <2> HIDE DEF m
  <2> QED BY <2>1, <2>2, <1>2, <1>4
<1>8. CASE /\ letters' \in {letters, <<>>} /\ got' \in {got, {}}
           /\ answer' = answer \/ answer'.letters = <<>>
  BY <1>2, <1>4, <1>8
<1> QED
  BY <1>5, <1>6, <1>7, <1>8, NoAnswerFacts
     DEF Next, Arrive, Mutate, ResetUids, StartReconcile, SyncReconcile, ReconcileOne,
         ReconcileFails, ReconcileEnd, StartSpam, SyncSpam, TickSpam, CheckSpam,
         HandleNotify, FileArrival, FileArrivalFails, ArrivalEnd, Release, ReleaseMove,
         ReleaseFails, SendRequest, Fetch, SyncFails, Crash, ApplyCursor,
         ApplyCursorFails, PowerCut, Wipe, unfiled, released, unapplied, deviceVars,
         syncVars, vars

\* UIDVALIDITY and the count of wipes only rise, each in its own step.
LEMMA LivesStep ==
  ASSUME Types, InOrder, wipes \in Nat, [Next]_vars
  PROVE  /\ wipes' \in Nat /\ (wipes' = 0 => wipes = 0 /\ ~Wipe)
         /\ validity' = 1 => validity = 1 /\ ~ResetUids /\ MailMoved
<1>1. /\ wipes' \in Nat /\ (wipes' = 0 => wipes = 0 /\ ~Wipe)
  <2>1. CASE wipes' = wipes /\ ~Wipe
    BY <2>1
  <2>2. CASE Wipe
    BY <2>2 DEF Wipe
  <2> QED
    BY <2>1, <2>2
       DEF Next, Arrive, Mutate, ResetUids, StartReconcile, SyncReconcile, ReconcileOne,
           ReconcileFails, ReconcileEnd, StartSpam, SyncSpam, TickSpam, CheckSpam,
           HandleNotify, FileArrival, FileArrivalFails, ArrivalEnd, Release, ReleaseMove,
           ReleaseFails, SendRequest, Fetch, Derive, Reply, SyncFails, Crash, ApplyLetter,
           ApplyLetterFails, ApplyCursor, ApplyCursorFails, PowerCut, Fault, boundVars,
           vars, Wipe
<1>2. ASSUME validity' = 1 PROVE validity = 1 /\ ~ResetUids /\ MailMoved
  <2>1. ~ResetUids
    <3>1. validity \in Nat \ {0}
      BY DEF Types, MailTypes
    <3> QED BY <3>1, <1>2 DEF ResetUids
  <2>2. MailMoved
    <3>1. CASE Around
      BY <3>1, AroundStep
    <3>2. CASE UNCHANGED <<inbox, nextUid, validity>>
      BY <3>2, MailStays
    <3> QED
      BY <2>1, <3>1, <3>2
         DEF Next, Around, SendRequest, Fetch, Derive, Reply, ApplyLetter,
             ApplyLetterFails, ApplyCursor, ApplyCursorFails, PowerCut, Wipe, unapplied,
             mailVars, vars
  <2> QED BY <2>1, <2>2, <1>2 DEF MailMoved
<1> QED BY <1>1, <1>2

\* What comes to INBOX is above every boundary.
LEMMA NotBelowStays ==
  ASSUME Types, NEW c \in Nat, NEW d \in Nat, c < nextUid, NotBelow(c, d), MailMoved
  PROVE  NotBelow(c, d)'
<1> SUFFICES ASSUME NEW e \in Elements(inbox'), e.uid <= c PROVE e.uid <= d
  BY DEF NotBelow
<1>1. nextUid \in Nat /\ e.uid \in Nat
  BY ListFacts DEF Types, MailTypes, MailMoved
<1>2. e \in Elements(inbox)
  BY <1>1 DEF MailMoved
<1> QED BY <1>2 DEF NotBelow

\* A batch of arrivals is below nothing decided about, and the mark follows it.
LEMMA MarkStep ==
  ASSUME DeliveryInv, FilingWork, MarkKept, [Next]_vars
  PROVE  MarkKept'
<1>1. /\ Types /\ InOrder /\ inbox \in Seq(Envelope) /\ PassType(pass) /\ PassWork
      /\ highWater \in Nat /\ nextUid \in Nat \ {0} /\ pass.top \in Nat /\ wipes \in Nat
      /\ NoPass.kind = "none" /\ NoPass.top = 0
  BY DEF DeliveryInv, Types, MailTypes, FilingWork, PassType, Follows, MarkKept, NoPass
<1>2. wipes' \in Nat
  BY <1>1, LivesStep
<1> SUFFICES ASSUME validity' = 1
             PROVE  /\ highWater' < nextUid' /\ pass'.top < nextUid'
                    /\ Filing' => \A e \in Elements(pass'.list) : NotBelow(highWater, e.uid)'
  BY <1>2 DEF MarkKept
<1>3. /\ validity = 1 /\ ~ResetUids /\ MailMoved /\ nextUid' \in Nat /\ nextUid' >= nextUid
      /\ highWater < nextUid /\ pass.top < nextUid
      /\ Filing => \A e \in Elements(pass.list) : NotBelow(highWater, e.uid)
  BY <1>1, LivesStep DEF MailMoved, MarkKept
<1>4. CASE UNCHANGED <<pass, highWater>>
  <2>1. highWater' < nextUid' /\ pass'.top < nextUid'
    BY <1>1, <1>3, <1>4
  <2>2. ASSUME Filing, NEW e \in Elements(pass.list) PROVE NotBelow(highWater, e.uid)'
    <3>1. PICK c \in Nat, d \in Nat : c = highWater /\ d = e.uid
      BY <1>1, ListFacts DEF PassType
    <3>2. NotBelow(c, d)'
      BY <3>1, <2>2, <1>1, <1>3, NotBelowStays
    <3> QED BY <3>1, <3>2, <1>4 DEF NotBelow
  <2> QED BY <2>1, <2>2, <1>4 DEF Filing
<1>5. CASE pass' = NoPass /\ highWater' \in {highWater, 0, Larger(highWater, pass.top)}
  BY <1>1, <1>3, <1>5 DEF Larger, Filing
<1>6. CASE StartReconcile \/ SyncReconcile
  <2>1. /\ highWater' = highWater /\ pass'.kind \in {"start", "sync", "resync"}
        /\ pass'.top = IF inbox = <<>> THEN 0 ELSE inbox[Len(inbox)].uid
    BY <1>6 DEF StartReconcile, SyncReconcile, Listing
  <2>2. inbox # <<>> => inbox[Len(inbox)].uid \in Nat /\ inbox[Len(inbox)].uid < nextUid
    <3>1. inbox # <<>> => Len(inbox) \in DOMAIN inbox
      BY <1>1
    <3> QED BY <3>1, <1>1, ListFacts DEF InOrder
  <2> QED BY <2>1, <2>2, <1>1, <1>3 DEF Filing
<1>7. CASE ReconcileOne
  <2>1. /\ pass'.kind = pass.kind /\ pass'.top = pass.top /\ Reconciling
        /\ highWater' = highWater
    BY <1>1, <1>7 DEF ReconcileOne, PassType
  <2> QED BY <2>1, <1>1, <1>3 DEF Filing, Reconciling
<1>8. CASE ArrivalFetch /\ UNCHANGED <<inbox, highWater>>
  <2>1. pass'.list = FetchAbove(highWater, ArrivalBatch) /\ pass'.top = 0
    BY <1>8 DEF ArrivalFetch, NoPass
  <2>2. \A e \in Elements(pass'.list) : NotBelow(highWater, e.uid)
    BY <2>1, <1>1, FetchType, DeliveryAssumptions DEF InOrder
  <2> QED BY <2>1, <2>2, <1>1, <1>3, <1>8 DEF NotBelow
<1>9. CASE FileArrival
  <2> DEFINE h == Head(pass.list)
  <2>1. /\ pass.list # <<>> /\ Filing
        /\ pass'.list = Tail(pass.list) /\ pass'.kind = pass.kind /\ pass'.top = pass.top
        /\ highWater' = Larger(highWater, h.uid)
    BY <1>1, <1>9 DEF FileArrival, PassType
  <2>2. /\ Elements(Tail(pass.list)) \subseteq Elements(pass.list)
        /\ h \in Elements(pass.list) /\ h \in Elements(inbox)
        /\ \A e \in Elements(Tail(pass.list)) : e.uid > h.uid
    BY <2>1, <1>1, OrderedTail DEF PassType, PassWork, Filing
  <2> HIDE DEF h
  <2>3. h.uid \in Nat /\ h.uid < nextUid
    BY <2>2, <1>1, ListFacts DEF InOrder
  <2>4. ASSUME NEW e \in Elements(pass'.list) PROVE NotBelow(highWater, e.uid)'
    <3>1. e \in Elements(pass.list) /\ e.uid > h.uid /\ NotBelow(highWater, e.uid)
      BY <2>1, <2>2, <1>3
    <3>2. PICK c \in Nat, d \in Nat : c = Larger(highWater, h.uid) /\ d = e.uid
      BY <3>1, <2>3, <1>1, ListFacts DEF PassType, Larger
    <3>3. c < nextUid
      BY <3>2, <2>3, <1>1, <1>3 DEF Larger
    <3>4. NotBelow(c, d)
      <4> SUFFICES ASSUME NEW f \in Elements(inbox), f.uid <= c PROVE f.uid <= d
        BY DEF NotBelow
      <4>1. f.uid \in Nat
        BY <1>1, ListFacts
      <4> QED BY <4>1, <3>1, <3>2, <2>3, <1>1 DEF Larger, NotBelow
    <3>5. NotBelow(c, d)'
      BY <3>3, <3>4, <1>1, <1>3, NotBelowStays
    <3> QED BY <3>2, <3>5, <2>1 DEF NotBelow
  <2>5. highWater' < nextUid'
    BY <2>1, <2>3, <1>1, <1>3 DEF Larger
  <2> QED BY <2>1, <2>4, <2>5, <1>1, <1>3
<1>10. CASE \E m \in held : Release(m)
  <2>1. pass'.kind = "release" /\ pass'.top = 0 /\ highWater' = highWater
    BY <1>10 DEF Release, NoPass
  <2> QED BY <2>1, <1>1, <1>3 DEF Filing
<1>11. CASE ReleaseMove
  <2>1. pass'.list = <<>> /\ pass'.top = 0 /\ highWater' = highWater
    BY <1>11 DEF ReleaseMove, NoPass
  <2> QED BY <2>1, <1>1, <1>3, EmptyOrdered
<1>12. CASE HandleNotify \/ ArrivalEnd
  BY <1>5, <1>8, <1>12 DEF HandleNotify, ArrivalEnd, mailVars
<1>13. CASE ReconcileFails \/ ReconcileEnd \/ FileArrivalFails \/ ReleaseFails \/ Crash
  BY <1>5, <1>13 DEF ReconcileFails, ReconcileEnd, FileArrivalFails, ReleaseFails, Crash
<1> QED
  BY <1>3, <1>4, <1>6, <1>7, <1>9, <1>10, <1>11, <1>12, <1>13
     DEF Next, Arrive, Mutate, StartSpam, SyncSpam, TickSpam, CheckSpam, SendRequest, Fetch,
         Derive, Reply, SyncFails, ApplyLetter, ApplyLetterFails, ApplyCursor,
         ApplyCursorFails, PowerCut, Wipe, unsynced, unapplied, vars

\* A message filing is done with stays so: the mark falls only in a crash, after
\* which the start lists the whole of INBOX.
LEMMA FiledStep ==
  ASSUME DeliveryInv, FilingWork, [Next]_vars,
         NEW e \in Elements(inbox), FiledBy(e)
  PROVE  FiledBy(e)'
<1>1. /\ inbox \in Seq(Envelope) /\ PassType(pass) /\ highWater \in Nat
      /\ Ordered(inbox, UidOrder) /\ e.uid \in Nat /\ pass.top \in Nat
  BY ListFacts DEF DeliveryInv, Types, MailTypes, PassType, FilingWork, Follows, InOrder
<1>2. CASE UNCHANGED <<started, highWater>> /\ pass'.kind # "start"
  BY <1>2 DEF FiledBy
<1>3. CASE UNCHANGED <<started, highWater>> /\ pass'.kind = pass.kind /\ pass'.top = pass.top
  BY <1>3 DEF FiledBy
<1>4. CASE StartReconcile
  <2>1. pass'.top = inbox[Len(inbox)].uid /\ UNCHANGED <<started, highWater>> /\ started = "no"
    <3>1. inbox # <<>>
      BY DEF Elements
    <3> QED BY <3>1, <1>4 DEF StartReconcile, Listing
  <2>2. e.uid <= inbox[Len(inbox)].uid
    <3>1. PICK i \in DOMAIN inbox : inbox[i] = e
      BY DEF Elements
    <3>2. Len(inbox) \in DOMAIN inbox /\ Len(inbox) \in Nat /\ i \in 1..Len(inbox)
      BY <1>1
    <3>3. inbox[Len(inbox)].uid \in Nat
      BY <3>2, <1>1, ListFacts
    <3>4. ASSUME inbox[Len(inbox)].uid < e.uid PROVE FALSE
      <4>1. inbox[Len(inbox)].uid <= inbox[i].uid
        BY <3>1, <3>3, <3>4, <1>1
      <4>2. Len(inbox) <= i
        BY <4>1, <3>2, <1>1, OrderedIndex
      <4>3. i = Len(inbox)
        BY <4>2, <3>2
      <4> QED BY <4>3, <3>1, <3>4, <1>1
    <3> QED BY <3>3, <3>4, <1>1
  <2> QED BY <2>1, <2>2 DEF FiledBy
<1>5. CASE ReconcileEnd
  <2>1. /\ highWater' = Larger(highWater, pass.top) /\ pass'.kind # "start"
        /\ pass.kind = "start" \/ started' = started
    BY <1>5 DEF ReconcileEnd, NoPass
  <2> QED BY <2>1, <1>1 DEF FiledBy, Larger
<1>6. CASE FileArrival
  <2>1. /\ highWater' = Larger(highWater, Head(pass.list).uid) /\ started' = started
        /\ pass'.kind = pass.kind /\ Filing /\ pass.list # <<>>
    BY <1>1, <1>6 DEF FileArrival, PassType
  <2>2. Head(pass.list).uid \in Nat
    BY <2>1, <1>1, TailElements, EnvelopeFacts DEF PassType
  <2> QED BY <2>1, <2>2, <1>1 DEF FiledBy, Larger, Filing
<1>7. CASE StartSpam
  <2>1. started = "spam" /\ highWater' = highWater
    BY <1>7 DEF StartSpam, CheckSpam
  <2> QED BY <2>1 DEF FiledBy
<1>8. CASE Crash
  <2>1. started' = "no" /\ pass'.kind # "start"
    BY <1>8 DEF Crash, NoPass
  <2> QED BY <2>1 DEF FiledBy
<1>9. CASE SyncReconcile
  BY <1>2, <1>9 DEF SyncReconcile, Listing
<1>10. CASE ReconcileOne
  BY <1>1, <1>3, <1>10 DEF ReconcileOne, PassType
<1>11. CASE HandleNotify \/ ArrivalEnd \/ (\E m \in held : Release(m)) \/ ReleaseMove
  <2>1. UNCHANGED <<started, highWater>>
    BY <1>11 DEF HandleNotify, ArrivalEnd, Release, ReleaseMove
  <2>2. ArrivalFetch => pass'.kind # "start"
    BY DEF ArrivalFetch, NoPass
  <2>3. (\E m \in held : Release(m)) \/ ReleaseMove => pass'.kind # "start"
    BY DEF Release, ReleaseMove, NoPass
  <2>4. pass'.kind # "start"
    BY <2>2, <2>3, <1>11 DEF HandleNotify, ArrivalEnd, NoPass
  <2> QED BY <2>1, <2>4, <1>2
<1>12. CASE pass' = NoPass /\ UNCHANGED <<started, highWater>>
  BY <1>2, <1>12 DEF NoPass
<1> QED
  BY <1>3, <1>4, <1>5, <1>6, <1>7, <1>8, <1>9, <1>10, <1>11, <1>12
     DEF Next, Arrive, Mutate, ResetUids, ReconcileFails, SyncSpam, TickSpam, CheckSpam,
         FileArrivalFails, ReleaseFails, SendRequest, Fetch, Derive, Reply, SyncFails,
         ApplyLetter, ApplyLetterFails, ApplyCursor, ApplyCursorFails, PowerCut, Wipe,
         unfiled, released, unsynced, unapplied, vars

\* A pass takes a settled letter only when it is fetched again, or when the boundary
\* it was settled behind is lost: its sender is known, the sweep looks above the
\* cursor, and arrivals are above the mark otherwise.
LEMMA SettledTaken ==
  ASSUME DeliveryInv, FilingWork, OneCursor, FromSomebody, MarkKept, SettledStays,
         pass.list # <<>>, Filing \/ (Reconciling /\ Quarantines(Head(pass.list))),
         Head(pass.list).m \in settled
  PROVE  \/ Filing /\ (FetchedAgain(Head(pass.list)) \/ MarkUnset)
         \/ pass.kind = "sync" /\ BoundaryLost(Head(pass.list))
<1> DEFINE e == Head(pass.list)
<1>1. e \in Elements(pass.list)
  BY TailElements DEF DeliveryInv, Types, PassType
<1>2. e \in Elements(inbox)
  BY <1>1 DEF FilingWork, PassWork, Filing, Reconciling
<1>3. /\ e.uid \in Nat /\ highWater \in Nat /\ validity \in Nat \ {0} /\ wipes \in Nat
      /\ \A f \in Elements(inbox) : f.uid \in Nat
  BY <1>2, ListFacts DEF DeliveryInv, Types, MailTypes, FilingWork, MarkKept
<1>4. cursor.u \in Nat /\ asked.u \in Nat /\ HandlerWork
  BY DEF DeliveryInv, Types, DeviceTypes, SyncTypes, Cursors, FilingWork
<1> HIDE DEF e
<1>5. e.m \in settled /\ Known(contacts, e.m)
  BY DEF FromSomebody, e
<1>6. CASE Filing
  <2>1. CASE validity = 1 /\ started = "yes"
    <3>1. e.uid <= highWater
      BY <2>1, <1>2, <1>5 DEF SettledStays, FiledBy
    <3>2. NotBelow(highWater, e.uid)
      BY <2>1, <1>1, <1>6 DEF MarkKept
    <3>3. FetchedAgain(e)
      BY <3>1, <3>2, <1>3 DEF NotBelow, FetchedAgain
    <3> QED BY <3>3, <1>6 DEF e
  <2>2. CASE ~(validity = 1 /\ started = "yes")
    BY <2>2, <1>3, <1>6 DEF MarkUnset
  <2> QED BY <2>1, <2>2
<1>7. CASE Reconciling /\ Quarantines(e)
  <2>1. pass.kind = "sync" /\ e.uid > pass.bound
    BY <1>5, <1>7 DEF Quarantines
  <2>2. Concrete(asked) /\ e.uid > asked.u /\ phase = "reconciling"
    BY <2>1, <1>4 DEF HandlerWork
  <2>3. Concrete(cursor) => e.uid > cursor.u
    BY <2>2 DEF OneCursor
  <2>4. wipes > 0 \/ validity > 1
    <3>1. CASE wipes = 0 /\ validity = 1
      <4>1. Concrete(cursor) /\ e.uid <= cursor.u
        BY <3>1, <1>2, <1>5 DEF SettledStays
      <4> QED BY <4>1, <2>3, <1>3, <1>4
    <3> QED BY <3>1, <1>3
  <2> QED BY <2>1, <2>3, <2>4 DEF BoundaryLost, e
<1> QED BY <1>6, <1>7 DEF e

\* A settled letter stays filed, and behind the cursor until a boundary is lost.
LEMMA SettledStep ==
  ASSUME DeliveryInv, FilingWork, MarkKept, SettledStays, [Next]_vars
  PROVE  SettledStays'
<1>1. /\ Types /\ Types' /\ InOrder /\ OnePlace /\ PassWork /\ wipes \in Nat /\ validity \in Nat \ {0}
      /\ inbox \in Seq(Envelope) /\ MailTypes /\ arrived \in Nat
      /\ \A e \in Elements(inbox) : e.uid \in Nat /\ e.m \in Nat
  BY DeliveryNext, ListFacts
     DEF DeliveryInv, Follows, Types, MailTypes, FilingWork, OnePlace, MarkKept, Mails
<1>2. arrived' \in Nat /\ arrived' >= arrived
  <2>1. arrived' \in {arrived, arrived + 1}
    BY DEF Next, Arrive, Mutate, ResetUids, StartReconcile, SyncReconcile, ReconcileOne,
           ReconcileFails, ReconcileEnd, StartSpam, SyncSpam, TickSpam, CheckSpam,
           HandleNotify, FileArrival, FileArrivalFails, ArrivalEnd, Release, ReleaseMove,
           ReleaseFails, SendRequest, Fetch, Derive, Reply, SyncFails, Crash, ApplyLetter,
           ApplyLetterFails, ApplyCursor, ApplyCursorFails, PowerCut, Wipe, Fault,
           boundVars, vars
  <2> QED BY <2>1, <1>1
<1>3. \A m \in settled' : m \in Nat /\ m <= arrived'
  <2>1. \A m \in settled : m \in Nat /\ m <= arrived'
    <3>1. \A m \in settled : m \in Nat /\ m <= arrived
      BY DEF SettledStays
    <3> QED BY <3>1, <1>1, <1>2
  <2>2. \A m \in settled' \ settled : m \in settled \/ \E e \in Elements(inbox) : e.m = m
    BY SettledCases
  <2> QED BY <2>1, <2>2, <1>1, <1>2 DEF OnePlace
\* The settled letters of INBOX are the ones that were there.
<1>4. ASSUME validity' = 1, NEW e \in Elements(inbox'), e.m \in settled, e.m \in settled'
      PROVE  e \in Elements(inbox)
  <2>1. CASE inbox' = inbox
    BY <2>1
  <2>2. CASE inbox' = Append(inbox, [uid |-> nextUid, m |-> arrived + 1]) /\ Arrive
    <3>1. arrived + 1 \in Mails /\ arrived + 1 \notin settled
      <4>1. arrived + 1 \in Mails
        BY <2>2 DEF Arrive
      <4> QED BY <4>1, <1>1 DEF SettledStays
    <3> QED BY <3>1, <2>2, <1>1, <1>4, ToInboxFacts
  <2>3. CASE ToHeld(Head(pass.list))
    BY <2>3, <1>1, ToHeldFacts
  <2>4. CASE ToInbox(Head(pass.list).m) /\ (ReleaseMove \/ ReleaseFails)
    <3>1. Head(pass.list).m \in Mails /\ Head(pass.list).m \notin settled'
      BY <2>4, <1>1 DEF ReleaseMove, ReleaseFails, PassWork, MailTypes
    <3> QED BY <3>1, <2>4, <1>1, <1>4, ToInboxFacts DEF ToInbox
  <2>5. ~ResetUids
    BY <1>1, <1>4, LivesStep
  <2>6. Arrive => inbox' \in {inbox, Append(inbox, [uid |-> nextUid, m |-> arrived + 1])}
    BY DEF Arrive
  <2>7. ReconcileOne \/ ReconcileFails \/ FileArrival \/ FileArrivalFails =>
          inbox' = inbox \/ ToHeld(Head(pass.list))
    BY DEF ReconcileOne, ReconcileFails, FileArrival, FileArrivalFails, mailVars
  <2>8. ReleaseMove \/ ReleaseFails => inbox' = inbox \/ ToInbox(Head(pass.list).m)
    BY DEF ReleaseMove, ReleaseFails, mailVars
  <2> QED
    BY <2>1, <2>2, <2>3, <2>4, <2>5, <2>6, <2>7, <2>8
       DEF Next, Mutate, StartReconcile, SyncReconcile, ReconcileEnd, StartSpam, SyncSpam,
           TickSpam, CheckSpam, HandleNotify, ArrivalEnd, Release, SendRequest, Fetch,
           Derive, Reply, SyncFails, Crash, ApplyLetter, ApplyLetterFails, ApplyCursor,
           ApplyCursorFails, PowerCut, Wipe, unapplied, mailVars, vars
\* What a cursor settles is as it must be.
<1>5. ASSUME NEW e \in Elements(inbox'), e.m \in settled' \ settled
      PROVE  /\ e.uid <= highWater' /\ Concrete(cursor)' /\ e.uid <= cursor'.u
  <2>1. /\ UNCHANGED <<inbox, validity, highWater>> /\ cursor' = answer.cursor
        /\ \E f \in Elements(inbox) :
             /\ f.m = e.m /\ answer.cursor.v = validity
             /\ f.uid <= answer.cursor.u /\ f.uid <= highWater
    BY <1>5, SettledCases
  <2>2. e \in Elements(inbox)
    BY <2>1, <1>5
  <2> QED BY <2>1, <2>2, <1>1 DEF OnePlace, Concrete
<1>6. ASSUME validity' = 1, NEW e \in Elements(inbox'), e.m \in settled' PROVE FiledBy(e)'
  <2>1. CASE e.m \in settled
    <3>1. e \in Elements(inbox) /\ validity = 1
      BY <2>1, <1>1, <1>4, <1>6, LivesStep
    <3> QED BY <3>1, <2>1, FiledStep DEF SettledStays
  <2>2. CASE e.m \notin settled
    BY <2>2, <1>5, <1>6 DEF FiledBy
  <2> QED BY <2>1, <2>2
<1>7. ASSUME wipes' = 0, validity' = 1, NEW e \in Elements(inbox'), e.m \in settled'
      PROVE  Concrete(cursor)' /\ e.uid <= cursor'.u
  <2>1. CASE e.m \in settled
    <3>1. /\ e \in Elements(inbox) /\ validity = 1 /\ wipes = 0 /\ ~Wipe /\ ~ResetUids
      BY <2>1, <1>1, <1>4, <1>7, LivesStep
    <3>2. Concrete(cursor) /\ e.uid <= cursor.u
      BY <3>1, <2>1 DEF SettledStays
    <3>3. CASE cursor' = cursor
      BY <3>1, <3>2, <3>3, <1>7 DEF Concrete
    <3>4. CASE (ApplyCursor \/ ApplyCursorFails) /\ cursor' = answer.cursor
      <4>1. answer.some
        BY <3>4 DEF ApplyCursor, ApplyCursorFails
      <4>2. answer.cursor.v = 1
        BY <3>1, <4>1
           DEF DeliveryInv, Types, DeviceTypes, Cursors, Follows, Boundaries, Behind
      <4>3. NotBelow(cursor.u, answer.cursor.u)
        BY <3>1, <3>2, <4>1, <4>2 DEF DeliveryInv, Follows, Rising, Concrete
      <4> QED BY <4>2, <4>3, <3>1, <3>2, <3>4, <1>7 DEF NotBelow, Concrete
    <3>5. \/ cursor' = cursor
          \/ (ApplyCursor \/ ApplyCursorFails) /\ cursor' = answer.cursor
      BY <3>1
         DEF Next, Arrive, Mutate, StartReconcile, SyncReconcile, ReconcileOne,
             ReconcileFails, ReconcileEnd, StartSpam, SyncSpam, TickSpam, CheckSpam,
             HandleNotify, FileArrival, FileArrivalFails, ArrivalEnd, Release,
             ReleaseMove, ReleaseFails, SendRequest, Fetch, Derive, Reply, SyncFails,
             Crash, ApplyLetter, ApplyLetterFails, ApplyCursor, ApplyCursorFails,
             PowerCut, unfiled, released, deviceVars, vars
    <3> QED BY <3>3, <3>4, <3>5
  <2>2. CASE e.m \notin settled
    BY <2>2, <1>5, <1>7
  <2> QED BY <2>1, <2>2
<1> QED BY <1>3, <1>6, <1>7 DEF SettledStays
-----------------------------------------------------------------------------
(* The theorems of filing. *)

\* Each letter is in one place, passes work on what is there, and the handler
\* waits for its own pass (fileArrivalLocked and reconcileLocked run one at a time,
\* under the filing mutex).
THEOREM FilingInductive == Spec => [](DeliveryInv /\ FilingWork)
<1>1. Init => FilingWork
  BY FilingInit
<1>2. DeliveryInv /\ FilingWork /\ [Next]_vars => FilingWork'
  BY FilingStep
<1> QED BY <1>1, <1>2, DeliveryInductive, PTL DEF Spec


\* An answer to a device with a boundary holds nothing from a sender who was removed
\* when the letter came and has been since, but for what came after the sync's pass
\* had listed INBOX and what the device, or an earlier sync, had met (ReconcileSync
\* sweeps above the cursor before assembleLetters reads).
THEOREM RemovedNeverSent == Spec => []RemovedStaysOut
<1> DEFINE Inv == ShutOutCame /\ ReleasesOthers /\ SweptAbove
<1>1. Init => Inv
  <2>1. Elements(<<>>) = {}
    BY DEF Elements
  <2> QED BY <2>1 DEF Init, ShutOutCame, ReleasesOthers, SweptAbove, NoPass
<1>2. DeliveryInv /\ FilingWork /\ Inv /\ [Next]_vars => Inv'
  BY ShutOutStep, ReleaseStep, SweepStep DEF FilingWork, DeliveryInv
<1>3. Inv => RemovedStaysOut
  BY DEF SweptAbove, RemovedStaysOut, Passed
<1> HIDE DEF Inv
<1> QED BY <1>1, <1>2, <1>3, FilingInductive, PTL DEF Spec

\* A letter the child has and filing kept is not taken to Held, whoever is removed or
\* moves, but for the messages "n:*" returns again, a mark or a boundary that is lost
\* (the sweep of ReconcileSync stops at the device's cursor, arrivals are filed once,
\* above arrivalHighWater, and the table forgets no address).
THEOREM HistoryNeverLeaves == Spec => HistoryStays
<1> DEFINE Inv == OneCursor /\ FromSomebody /\ MarkKept /\ SettledStays
           Kept1 == \A e \in Elements(inbox) :
                      e.m \in settled \ held /\ e.m \in held' =>
                        \/ Filing /\ (FetchedAgain(e) \/ MarkUnset)
                        \/ pass.kind = "sync" /\ BoundaryLost(e)
<1>1. Init => Inv
  <2>1. Elements(<<>>) = {}
    BY DEF Elements
  <2> QED BY <2>1, NoAnswerFacts
          DEF Init, OneCursor, FromSomebody, MarkKept, SettledStays, NoPass, Filing
<1>2. DeliveryInv /\ FilingWork /\ Inv /\ [Next]_vars => Inv'
  BY OneCursorStep, SomebodyStep, MarkStep, SettledStep DEF FilingWork, DeliveryInv
<1>3. DeliveryInv /\ FilingWork /\ Inv /\ [Next]_vars => [Kept1]_vars
  <2> SUFFICES ASSUME DeliveryInv, FilingWork, Inv, [Next]_vars,
                      NEW e \in Elements(inbox), e.m \in settled \ held, e.m \in held'
               PROVE  \/ Filing /\ (FetchedAgain(e) \/ MarkUnset)
                      \/ pass.kind = "sync" /\ BoundaryLost(e)
    OBVIOUS
  <2>1. inbox \in Seq(Envelope) /\ OnePlace /\ PassWork /\ PassType(pass)
    BY DEF DeliveryInv, Types, MailTypes, FilingWork
  <2>2. CASE /\ ToHeld(Head(pass.list)) /\ pass.list # <<>>
             /\ Filing \/ (Reconciling /\ Quarantines(Head(pass.list)))
    <3>1. Head(pass.list).m = e.m
      BY <2>2, <2>1, ToHeldFacts
    <3>2. Head(pass.list) \in Elements(inbox)
      <4>1. Head(pass.list) \in Elements(pass.list)
        BY <2>1, <2>2, TailElements DEF PassType
      <4> QED BY <4>1, <2>1, <2>2 DEF PassWork, Filing, Reconciling
    <3>3. Head(pass.list) = e
      BY <3>1, <3>2, <2>1 DEF OnePlace
    <3> QED BY <3>1, <3>3, <2>2, SettledTaken
  <2>3. CASE \E done \in SUBSET spam : CheckSpam(done)
    BY <2>3, <2>1 DEF CheckSpam, OnePlace
  <2>4. CASE held' \subseteq held
    BY <2>4
  <2>5. Arrive \/ ResetUids => held' = held
    BY DEF Arrive, ResetUids
  <2> QED BY <2>2, <2>3, <2>4, <2>5, MailCases DEF ToInbox
<1> HIDE DEF Inv, Kept1
<1>4. Spec => [][Kept1]_vars
  BY <1>1, <1>2, <1>3, FilingInductive, PTL DEF Spec
<1> QED BY <1>4 DEF HistoryStays, Kept1
=============================================================================
