--------------------------- MODULE ComposeProofs ---------------------------
(***************************************************************************)
(* Compose: where the newest words of a letter are, that a letter has one  *)
(* copy, and what a locked session shows.  For every set of letters, every *)
(* bag and any number of edits.                                            *)
(***************************************************************************)
EXTENDS Compose, SieveFacts

---------------------------------------------------------------------------
(* The inductive invariant *)

Entries == [id : Ids, l : Letters, v : 1..MaxVersion, rejected : BOOLEAN]
Excuses == {"none", "write", "fault"}

Owners == Letters \cup {None}
Versions == 0..MaxVersion
Histories == [newest : [Letters -> Versions], excuse : [Letters -> Excuses],
              locked : BOOLEAN, twice : SUBSET Owners]

\* What the lock screen counts, and which fault shows, is left as it is.
UiShape(u) ==
  u \in [open : BOOLEAN, l : Owners, v : Versions, fault : {u.fault}, unlocked : BOOLEAN,
         wrong : {u.wrong}, wait : {u.wait}]

ComposeType ==
  /\ awake \in BOOLEAN
  /\ UiShape(ui)
  /\ pending \in [kind : PendingKinds, l : Owners, v : Versions, id : Ids \cup {None}]
  /\ step \in [at : {"idle", "added", "saved"}, id : Ids \cup {None}]
  /\ slot \in Draft
  /\ Entered \subseteq Entries
  /\ hist \in Histories

\* RAM is gone when nothing runs.
Asleep == ~awake => ui = NoApp /\ pending = NoPending /\ step = Idle /\ outbox = files

\* A session that began locked is at the PIN screen.
Locked == awake /\ hist.locked => screen = "pin" /\ step = Idle

\* The writing screen has a letter open; a letter is open between Add and
\* Discard, with its entry; the slot has it when an entry is to be retired.
Stepping ==
  /\ screen = "write" => awake /\ ui.open
  /\ ui.open => ui.l \in Letters
  /\ step.at = "idle" => step = Idle
  /\ step.at = "added" =>
       /\ screen = "write"
       /\ \E e \in outbox : e.l = ui.l /\ e.v = ui.v
       /\ \E e \in files : e.l = ui.l /\ e.v = ui.v
  /\ step.at = "saved" =>
       /\ screen \in {"outbox", "conflict"} /\ pending = NoPending
       /\ slot = [l |-> ui.l, v |-> ui.v, pending |-> TRUE] /\ ui.l \in Letters
       /\ \E e \in outbox : e.id = step.id /\ e.l = ui.l /\ e.v = ui.v

\* An id stands for one letter, in RAM and on flash; what was asked for is still
\* there, or is a letter nobody has begun.
Asked ==
  /\ \A e, f \in Entered : e.id = f.id => e.l = f.l /\ e.v = f.v
  /\ \A e, f \in outbox : e.id = f.id => e = f
  /\ \A e, f \in files : e.id = f.id => e = f
  /\ pending.kind = "recompose" =>
       \E e \in outbox : e.rejected /\ e.id = pending.id /\ e.l = pending.l /\ e.v = pending.v
  /\ pending.kind = "new" =>
       /\ pending.l \in Letters /\ pending.v = 0
       /\ \A e \in Entered : e.l # pending.l
       /\ ui.open => ui.l # pending.l

Needed(l) == hist.newest[l] > 0 /\ hist.excuse[l] = "none"
Sent(l) ==
  /\ \E e \in outbox : e.l = l /\ e.v = hist.newest[l]
  /\ \E e \in files : e.l = l /\ e.v = hist.newest[l]
Parked(l) == InSlot(l, hist.newest[l]) /\ (awake => slot.pending)
Open(l) == ui.open /\ ui.l = l /\ ui.v = hist.newest[l]

\* The newest words are in the outbox and its files, in a slot the store takes for occupied,
\* or under the child's eyes.
WordsSafe ==
  \A l \in Letters : Needed(l) => Sent(l) \/ Parked(l) \/ (screen = "write" /\ Open(l))

\* The store takes a slot for occupied that holds words which are nowhere else.
SlotTrusted == \A l \in Letters : Needed(l) /\ InSlot(l, hist.newest[l]) => Sent(l) \/ Parked(l)

\* While a letter is open, the slot is its own: every other one is in the outbox.
SlotIsOurs == ui.open => \A l \in Letters : Needed(l) => Sent(l) \/ Open(l)

\* Two copies of a letter are accounted for.
Copies ==
  /\ \A e \in Entered : slot.v > 0 /\ slot.l = e.l =>
       e.l \in hist.twice \/ (step # Idle /\ e.l = ui.l)
  /\ \A e, f \in Entered : e.id # f.id /\ e.l = f.l => e.l \in hist.twice
  /\ \A e \in Entered : ui.open /\ step = Idle /\ ui.l = e.l => e.l \in hist.twice

ComposeInv ==
  /\ ComposeType /\ Asleep /\ Locked /\ Stepping /\ Asked
  /\ WordsSafe /\ SlotTrusted /\ SlotIsOurs /\ Copies

\* A slot with words names their letter, and words are asked for by name.
Named == (slot.v > 0 => slot.l # None) /\ (pending.kind = "none" => pending.v = 0)

\* All of it, once the words that nothing else holds are in the slot.
SavedAll == \A l \in Letters : Needed(l) => Sent(l) \/ Parked(l)

---------------------------------------------------------------------------
(* Records *)

\* What the assignments to the fields of AppImpl leave.
LEMMA UiFacts ==
  ASSUME NEW u, UiShape(u)
  PROVE  /\ u.open \in BOOLEAN /\ u.l \in Owners /\ u.v \in Versions
         /\ \A l \in Owners, v \in Versions, b \in BOOLEAN :
              LET w == [u EXCEPT !.open = b, !.l = l, !.v = v]
              IN  UiShape(w) /\ w.open = b /\ w.l = l /\ w.v = v
         /\ \A l \in Owners, v \in Versions :
              LET w == [u EXCEPT !.l = l, !.v = v]
              IN  UiShape(w) /\ w.open = u.open /\ w.l = l /\ w.v = v
         /\ \A v \in Versions :
              LET w == [u EXCEPT !.v = v]
              IN  UiShape(w) /\ w.open = u.open /\ w.l = u.l /\ w.v = v
         /\ \A k :
              LET w == [u EXCEPT !.fault = k]
              IN  UiShape(w) /\ w.open = u.open /\ w.l = u.l /\ w.v = u.v
         /\ \A b \in BOOLEAN : \A n, m :
              LET w == [u EXCEPT !.unlocked = b, !.wrong = n, !.wait = m]
              IN  UiShape(w) /\ w.open = u.open /\ w.l = u.l /\ w.v = u.v
<1>1. u.open \in BOOLEAN /\ u.l \in Owners /\ u.v \in Versions
  BY DEF UiShape
<1>2. ASSUME NEW l \in Owners, NEW v \in Versions, NEW b \in BOOLEAN
      PROVE  LET w == [u EXCEPT !.open = b, !.l = l, !.v = v]
             IN  UiShape(w) /\ w.open = b /\ w.l = l /\ w.v = v
  BY DEF UiShape
<1>3. ASSUME NEW l \in Owners, NEW v \in Versions
      PROVE  LET w == [u EXCEPT !.l = l, !.v = v]
             IN  UiShape(w) /\ w.open = u.open /\ w.l = l /\ w.v = v
  BY DEF UiShape
<1>4. ASSUME NEW v \in Versions
      PROVE  LET w == [u EXCEPT !.v = v]
             IN  UiShape(w) /\ w.open = u.open /\ w.l = u.l /\ w.v = v
  BY DEF UiShape
<1>5. ASSUME NEW k
      PROVE  LET w == [u EXCEPT !.fault = k]
             IN  UiShape(w) /\ w.open = u.open /\ w.l = u.l /\ w.v = u.v
  BY DEF UiShape
<1>6. ASSUME NEW b \in BOOLEAN, NEW n, NEW m
      PROVE  LET w == [u EXCEPT !.unlocked = b, !.wrong = n, !.wait = m]
             IN  UiShape(w) /\ w.open = u.open /\ w.l = u.l /\ w.v = u.v
  BY DEF UiShape
<1> QED
  BY <1>1, <1>2, <1>3, <1>4, <1>5, <1>6

\* The fields of the history.
LEMMA HistFacts ==
  ASSUME NEW h \in Histories
  PROVE  /\ h.newest \in [Letters -> Versions] /\ h.excuse \in [Letters -> Excuses]
         /\ h.locked \in BOOLEAN /\ h.twice \subseteq Owners
BY DEF Histories

\* A session is locked or unlocked.
LEMMA LockedFacts ==
  ASSUME NEW h \in Histories, NEW b \in BOOLEAN, NEW g, g = [h EXCEPT !.locked = b]
  PROVE  /\ g \in Histories /\ g.newest = h.newest /\ g.excuse = h.excuse
         /\ g.twice = h.twice /\ g.locked = b
BY DEF Histories

\* The letters with two copies change.
LEMMA TwiceFacts ==
  ASSUME NEW h \in Histories, NEW T \in SUBSET Owners, NEW g, g = [h EXCEPT !.twice = T]
  PROVE  /\ g \in Histories /\ g.newest = h.newest /\ g.excuse = h.excuse
         /\ g.locked = h.locked /\ g.twice = T
BY DEF Histories

\* A letter's words get an excuse, or lose it.
LEMMA ExcuseFacts ==
  ASSUME NEW h \in Histories, NEW a \in Letters, NEW x \in Excuses,
         NEW g, g = [h EXCEPT !.excuse[a] = x]
  PROVE  /\ g \in Histories /\ g.newest = h.newest /\ g.twice = h.twice
         /\ g.locked = h.locked
         /\ \A m \in Letters : g.excuse[m] = IF m = a THEN x ELSE h.excuse[m]
<1> DEFINE X == [h.excuse EXCEPT ![a] = x]
<1>1. X \in [Letters -> Excuses] /\ \A m \in Letters : X[m] = IF m = a THEN x ELSE h.excuse[m]
  BY HistFacts
<1>2. g = [h EXCEPT !.excuse = X]
  OBVIOUS
<1> HIDE DEF X
<1>3. /\ g \in Histories /\ g.newest = h.newest /\ g.twice = h.twice
      /\ g.locked = h.locked /\ g.excuse = X
  BY <1>1, <1>2 DEF Histories
<1> QED
  BY <1>1, <1>3

Renewed(h, l, v) == [h EXCEPT !.newest[l] = v, !.excuse[l] = "none"]

\* A letter gets new words, or is let go.
LEMMA NewestFacts ==
  ASSUME NEW h \in Histories, NEW l \in Letters, NEW v \in Versions
  PROVE  LET g == Renewed(h, l, v)
         IN
         /\ g \in Histories /\ g.twice = h.twice /\ g.locked = h.locked
         /\ \A m \in Letters : /\ g.newest[m] = IF m = l THEN v ELSE h.newest[m]
                               /\ g.excuse[m] = IF m = l THEN "none" ELSE h.excuse[m]
<1> DEFINE g == Renewed(h, l, v)
           X == [h.excuse EXCEPT ![l] = "none"]
           N == [h.newest EXCEPT ![l] = v]
<1>1. /\ X \in [Letters -> Excuses] /\ N \in [Letters -> Versions]
      /\ \A m \in Letters : /\ X[m] = IF m = l THEN "none" ELSE h.excuse[m]
                            /\ N[m] = IF m = l THEN v ELSE h.newest[m]
  BY HistFacts DEF Excuses
<1>2. g = [h EXCEPT !.newest = N, !.excuse = X]
  BY DEF Histories, Renewed
<1> HIDE DEF X, N
<1>3. /\ g \in Histories /\ g.newest = N /\ g.twice = h.twice
      /\ g.locked = h.locked /\ g.excuse = X
  BY <1>1, <1>2 DEF Histories
<1> HIDE DEF g
<1> QED
  BY <1>1, <1>3 DEF g

---------------------------------------------------------------------------
(* Screens that hold no words *)

\* A step that leaves the letters where they are.
LEMMA Unmoved ==
  ASSUME ComposeInv, awake' = awake, UNCHANGED <<step, slot, outbox, files>>,
         UiShape(ui'), ui'.open = ui.open, ui'.l = ui.l, ui'.v = ui.v,
         hist' \in Histories, hist'.newest = hist.newest, hist'.excuse = hist.excuse,
         hist'.twice = hist.twice,
         pending' = pending \/ pending' = [NoPending EXCEPT !.kind = "resume"],
         ~awake => ui' = ui /\ pending' = pending,
         Locked', screen = "write" <=> screen' = "write", step = Idle
  PROVE  ComposeInv'
<1>1. ComposeType'
  <2>1. [NoPending EXCEPT !.kind = "resume"] \in
          [kind : PendingKinds, l : Owners, v : Versions, id : Ids \cup {None}]
    BY ComposeAssumption DEF NoPending, PendingKinds, Owners, Versions
  <2> QED
    BY <2>1 DEF ComposeInv, ComposeType, Entered
<1>2. Asleep'
  BY DEF ComposeInv, Asleep
<1>3. Stepping'
  BY DEF ComposeInv, Stepping, Idle
<1>4. Asked'
  BY DEF ComposeInv, Asked, NoPending, Entered
<1>5. \A l \in Letters :
         /\ Needed(l)' <=> Needed(l)
         /\ Sent(l)' <=> Sent(l)
         /\ Parked(l)' <=> Parked(l)
         /\ Open(l)' <=> Open(l)
         /\ InSlot(l, hist.newest[l])' <=> InSlot(l, hist.newest[l])
  BY DEF Needed, Sent, Parked, Open, InSlot
<1>6. WordsSafe' /\ SlotTrusted' /\ SlotIsOurs'
  BY <1>5 DEF ComposeInv, WordsSafe, SlotTrusted, SlotIsOurs
<1>7. Copies'
  BY DEF ComposeInv, Copies, Entered
<1> QED
  BY <1>1, <1>2, <1>3, <1>4, <1>6, <1>7 DEF ComposeInv

\* The lock, the tabs, the fault screen's key and a pushed PIN touch no words.
LEMMA MovesKeep ==
  ASSUME ComposeInv,
         \/ TickUnlock \/ TickBackoff \/ KeyCover \/ (\E right \in BOOLEAN : KeyPin(right))
         \/ KeyTab \/ KeyMove \/ KeyFault \/ PushPin
  PROVE  ComposeInv'
<1>1. ComposeType /\ UiShape(ui) /\ hist \in Histories /\ Locked
  BY DEF ComposeInv, ComposeType
<1> USE <1>1
<1>2. CASE TickUnlock
  <2>1. UiShape(ui') /\ ui'.open = ui.open /\ ui'.l = ui.l /\ ui'.v = ui.v
    BY <1>2 DEF TickUnlock, UiShape
  <2>2. /\ hist' \in Histories /\ hist'.newest = hist.newest /\ hist'.excuse = hist.excuse
        /\ hist'.twice = hist.twice /\ ~hist'.locked
    BY <1>2, LockedFacts DEF TickUnlock
  <2>3. Locked'
    BY <2>2 DEF Locked
  <2> QED
    BY <1>2, <2>1, <2>2, <2>3, Unmoved DEF TickUnlock, OfferOr
<1>3. CASE TickBackoff
  <2>1. ui' = [ui EXCEPT !.wait = ui.wait - 1]
    BY <1>3 DEF TickBackoff, UiShape
  <2>2. UiShape(ui') /\ ui'.open = ui.open /\ ui'.l = ui.l /\ ui'.v = ui.v
    BY <2>1 DEF UiShape
  <2>3. Locked'
    BY <1>3 DEF Locked, TickBackoff
  <2> QED
    BY <1>3, <2>2, <2>3, Unmoved DEF TickBackoff
<1>4. CASE KeyCover
  <2>1. PinRequired(ui) \in BOOLEAN
    BY DEF PinRequired
  <2>2. /\ hist' \in Histories /\ hist'.newest = hist.newest /\ hist'.excuse = hist.excuse
        /\ hist'.twice = hist.twice /\ hist'.locked = PinRequired(ui)
    <3>1. hist' = [hist EXCEPT !.locked = PinRequired(ui)]
      BY <1>4 DEF KeyCover
    <3> QED
      BY <2>1, <3>1 DEF Histories
  <2>3. Locked' /\ screen' # "write"
    BY <1>4, <2>2 DEF Locked, KeyCover, Key, OfferOr
  <2> QED
    BY <1>4, <2>2, <2>3, Unmoved DEF KeyCover, Key, OfferOr
<1>5. ASSUME NEW right \in BOOLEAN, KeyPin(right) PROVE ComposeInv'
  <2>1. CASE right
    <3>1. ui' = [ui EXCEPT !.unlocked = TRUE, !.wrong = 0]
      BY <1>5, <2>1 DEF KeyPin
    <3>2. UiShape(ui') /\ ui'.open = ui.open /\ ui'.l = ui.l /\ ui'.v = ui.v
      BY <3>1 DEF UiShape
    <3>3. /\ hist' \in Histories /\ hist'.newest = hist.newest /\ hist'.excuse = hist.excuse
          /\ hist'.twice = hist.twice /\ ~hist'.locked
      <4>1. hist' = [hist EXCEPT !.locked = FALSE]
        BY <1>5, <2>1 DEF KeyPin
      <4> QED
        BY <4>1 DEF Histories
    <3>4. Locked'
      BY <3>3 DEF Locked
    <3> QED
      BY <1>5, <2>1, <3>2, <3>3, <3>4, Unmoved DEF KeyPin, Key, OfferOr
  <2>2. CASE ~right
    <3>1. PICK n, m : ui' = [ui EXCEPT !.wrong = n, !.wait = m]
      BY <1>5, <2>2 DEF KeyPin
    <3>2. UiShape(ui') /\ ui'.open = ui.open /\ ui'.l = ui.l /\ ui'.v = ui.v
      BY <3>1 DEF UiShape
    <3>3. Locked'
      BY <1>5, <2>2 DEF Locked, KeyPin
    <3> QED
      BY <1>5, <2>2, <3>2, <3>3, Unmoved DEF KeyPin, Key
  <2> QED
    BY <2>1, <2>2
<1>6. ASSUME NEW from, NEW to, Go(from, to), from \notin {"pin", "write"}, to # "write"
      PROVE  ComposeInv'
  <2>1. Locked'
    BY <1>6 DEF Locked, Go, Key
  <2> QED
    BY <1>6, <2>1, Unmoved DEF Go, Key
<1>7. CASE KeyTab
  <2>1. PICK i \in 1..4, d \in {1, 3} : Go(TabOrder[i], TabOrder[((i - 1 + d) % 4) + 1])
    BY <1>7 DEF KeyTab
  <2>2. ((i - 1 + d) % 4) + 1 \in 1..4
    OBVIOUS
  <2>3. \A j \in 1..4 : TabOrder[j] \notin {"pin", "write"}
    BY DEF TabOrder
  <2> HIDE DEF KeyTab
  <2> QED
    BY <1>6, <2>1, <2>2, <2>3
<1>8. CASE KeyMove
  <2>1. SubScreens \cap {"pin", "write"} = {}
    BY ComposeAssumption
  <2>2. PICK m \in Moves : Go(m[1], m[2])
    BY <1>8 DEF KeyMove
  <2>3. m[1] \notin {"pin", "write"} /\ m[2] # "write"
    BY <2>1 DEF Moves, Pages
  <2> QED
    BY <1>6, <2>2, <2>3
<1>9. CASE KeyFault
  <2>1. UiShape(ui') /\ ui'.open = ui.open /\ ui'.l = ui.l /\ ui'.v = ui.v
    BY <1>9 DEF KeyFault, UiShape
  <2>2. Locked'
    BY <1>9 DEF Locked, KeyFault, Key
  <2> QED
    BY <1>9, <2>1, <2>2, Unmoved DEF KeyFault, Key
<1>10. CASE PushPin
  <2>1. Locked'
    BY <1>10 DEF Locked, PushPin
  <2> QED
    BY <1>10, <2>1, Unmoved DEF PushPin
<1> QED
  BY <1>2, <1>3, <1>4, <1>5, <1>7, <1>8, <1>9, <1>10

---------------------------------------------------------------------------
(* The slot *)

\* DraftStore::Save, done, refused, or done and reported failed.
LEMMA SaveFacts ==
  ASSUME NEW s \in Draft, NEW l \in Owners, NEW v \in Versions, NEW w \in WriteOutcomes
  PROVE  /\ Save(s, l, v, w) \in Draft
         /\ w = "failed" => Save(s, l, v, w) = s
         /\ w # "failed" => Save(s, l, v, w).l = l /\ Save(s, l, v, w).v = v
         /\ w = "done" => (Save(s, l, v, w).pending <=> v > 0)
         /\ w = "unsynced" => Save(s, l, v, w).pending = s.pending
<1>1. (v > 0) \in BOOLEAN
  OBVIOUS
<1>2. CASE w = "done"
  BY <1>1, <1>2 DEF Save, Draft, Owners, Versions
<1>3. CASE w = "failed"
  BY <1>3 DEF Save
<1>4. CASE w = "unsynced"
  <2>1. Save(s, l, v, w) = [s EXCEPT !.l = l, !.v = v]
    BY <1>4 DEF Save
  <2> QED
    BY <1>4, <2>1 DEF Draft, Owners, Versions
<1> QED
  BY <1>2, <1>3, <1>4 DEF WriteOutcomes

\* DraftStore::Discard: the slot is as it was, or holds nothing.
LEMMA DiscardFacts ==
  ASSUME slot \in Draft, NEW w \in WriteOutcomes
  PROVE  /\ Discard(w) \in Draft
         /\ \/ Discard(w) = slot /\ w = "failed"
            \/ /\ Discard(w).l = None /\ Discard(w).v = 0
               /\ Discard(w).pending => slot.pending /\ slot.l # None
<1>1. Empty \in Draft /\ Empty.l = None /\ Empty.v = 0 /\ ~Empty.pending
  BY ComposeAssumption DEF Empty, Draft
<1>2. CASE w = "done" \/ slot.l = None
  BY <1>1, <1>2 DEF Discard
<1>3. CASE ~(w = "done" \/ slot.l = None) /\ w = "failed"
  BY <1>3 DEF Discard
<1>4. CASE ~(w = "done" \/ slot.l = None) /\ w # "failed"
  <2>1. Discard(w) = [l |-> None, v |-> 0, pending |-> slot.pending]
    BY <1>4 DEF Discard, Empty
  <2>2. slot.pending \in BOOLEAN
    BY DEF Draft
  <2> QED
    BY <1>4, <2>1, <2>2, ComposeAssumption DEF Draft
<1> QED
  BY <1>2, <1>3, <1>4

\* After an autosave every word is in the outbox or in the slot, whatever is
\* shown next, unless flash refused it.
LEMMA AutosaveFacts ==
  ASSUME ComposeInv, awake, step = Idle, NEW w \in WriteOutcomes, AutosaveDraft(w)
  PROVE  /\ slot' \in Draft /\ hist' \in Histories
         /\ hist'.newest = hist.newest /\ hist'.twice = hist.twice /\ hist'.locked = hist.locked
         /\ \A l \in Letters : Needed(l)' =>
              \/ Sent(l)
              \/ slot'.l = l /\ slot'.v = hist'.newest[l] /\ slot'.pending
         /\ \A l \in Letters : ui.open /\ Needed(l)' => Sent(l) \/ Open(l)
         /\ \A e \in Entered : slot'.v > 0 /\ slot'.l = e.l => e.l \in hist.twice
<1>1. /\ slot \in Draft /\ hist \in Histories /\ ui.l \in Owners /\ ui.v \in Versions
      /\ hist.newest \in [Letters -> Versions] /\ hist.excuse \in [Letters -> Excuses]
  BY UiFacts, HistFacts DEF ComposeInv, ComposeType
<1>2. CASE ~ui.open
  <2>1. slot' = slot /\ hist' = hist
    BY <1>2 DEF AutosaveDraft
  <2>2. ASSUME NEW l \in Letters, Needed(l)'
        PROVE  Sent(l) \/ (slot'.l = l /\ slot'.v = hist'.newest[l] /\ slot'.pending)
    <3>1. Needed(l)
      BY <2>1, <2>2 DEF Needed
    <3>2. Sent(l) \/ Parked(l)
      BY <1>2, <3>1 DEF ComposeInv, WordsSafe, Open
    <3> QED
      BY <2>1, <3>2 DEF Parked, InSlot
  <2> QED
    BY <1>1, <1>2, <2>1, <2>2 DEF ComposeInv, Copies
<1>3. CASE ui.open
  <2>1. /\ slot' = Save(slot, ui.l, ui.v, w)
        /\ hist' = IF w # "done" THEN IF Dirty THEN Excuse(ui.l, "write") ELSE hist
                   ELSE IF ui.v = hist.newest[ui.l] THEN Excuse(ui.l, "none") ELSE hist
    BY <1>3 DEF AutosaveDraft
  <2>2. /\ slot' \in Draft
        /\ w = "failed" => slot' = slot
        /\ w # "failed" => slot'.l = ui.l /\ slot'.v = ui.v
        /\ w = "done" => (slot'.pending <=> ui.v > 0)
        /\ w = "unsynced" => slot'.pending = slot.pending
    BY <1>1, <2>1, SaveFacts
  <2>3. ui.l \in Letters
    BY <1>3 DEF ComposeInv, Stepping
  <2>4. ASSUME NEW x \in Excuses
        PROVE  LET g == Excuse(ui.l, x)
               IN  /\ g \in Histories /\ g.newest = hist.newest /\ g.twice = hist.twice
                   /\ g.locked = hist.locked
                   /\ \A m \in Letters : g.excuse[m] = IF m = ui.l THEN x ELSE hist.excuse[m]
    BY <1>1, <2>3, ExcuseFacts DEF Excuse
  <2>5. {"write", "none"} \subseteq Excuses
    BY DEF Excuses
  <2>6. /\ hist' \in Histories /\ hist'.newest = hist.newest /\ hist'.twice = hist.twice
        /\ hist'.locked = hist.locked
        /\ \A l \in Letters : l # ui.l => hist'.excuse[l] = hist.excuse[l]
        /\ w # "done" => IF Dirty THEN hist'.excuse[ui.l] = "write"
                         ELSE hist'.excuse[ui.l] = hist.excuse[ui.l]
        /\ w = "done" => IF ui.v = hist.newest[ui.l] THEN hist'.excuse[ui.l] = "none"
                         ELSE hist'.excuse[ui.l] = hist.excuse[ui.l]
    <3>1. CASE w # "done" /\ Dirty
      BY <1>1, <2>1, <2>3, <2>4, <2>5, <3>1
    <3>2. CASE w # "done" /\ ~Dirty
      BY <1>1, <2>1, <3>2
    <3>3. CASE w = "done" /\ ui.v = hist.newest[ui.l]
      BY <1>1, <2>1, <2>3, <2>4, <2>5, <3>3
    <3>4. CASE w = "done" /\ ui.v # hist.newest[ui.l]
      BY <1>1, <2>1, <3>4
    <3> QED
      BY <3>1, <3>2, <3>3, <3>4
  <2>8. ASSUME NEW l \in Letters, Needed(l)' PROVE Sent(l) \/ Open(l)
    <3>1. CASE Needed(l)
      BY <1>3, <3>1 DEF ComposeInv, SlotIsOurs
    <3>2. CASE ~Needed(l)
      BY <1>3, <2>3, <2>6, <2>8, <3>2 DEF Needed, Open
    <3> QED
      BY <3>1, <3>2
  <2>9. ASSUME NEW l \in Letters, Needed(l)'
        PROVE  Sent(l) \/ (slot'.l = l /\ slot'.v = hist'.newest[l] /\ slot'.pending)
    <3>1. CASE Open(l) /\ w = "done"
      BY <2>2, <2>6, <2>9, <3>1 DEF Open, Needed
    <3>2. CASE Open(l) /\ w # "done"
      <4>1. ~Dirty /\ Needed(l)
        BY <2>6, <2>9, <3>2 DEF Open, Needed
      <4>2. InSlot(l, hist.newest[l])
        BY <1>3, <3>2, <4>1 DEF Dirty, Open
      <4>3. Sent(l) \/ Parked(l)
        BY <4>1, <4>2 DEF ComposeInv, SlotTrusted
      <4>4. slot'.l = slot.l /\ slot'.v = slot.v /\ slot'.pending = slot.pending
        BY <2>2, <3>2, <4>2 DEF Open, InSlot, WriteOutcomes
      <4> QED
        BY <2>6, <4>3, <4>4 DEF Parked, InSlot
    <3> QED
      BY <2>8, <2>9, <3>1, <3>2
  <2>10. ASSUME NEW e \in Entered, slot'.v > 0, slot'.l = e.l PROVE e.l \in hist.twice
    <3>1. CASE w = "failed"
      BY <2>2, <2>10, <3>1 DEF ComposeInv, Copies
    <3>2. CASE w # "failed"
      BY <1>3, <2>2, <2>10, <3>2 DEF ComposeInv, Copies
    <3> QED
      BY <3>1, <3>2
  <2> QED
    BY <2>2, <2>6, <2>8, <2>9, <2>10
<1> QED
  BY <1>2, <1>3

\* Enough for the words, where the writing screen is not needed.
LEMMA SavedSuffices ==
  SavedAll => WordsSafe /\ SlotTrusted
BY DEF SavedAll, WordsSafe, SlotTrusted

\* The values of a new App.
LEMMA AppFacts ==
  /\ UiShape(NoApp) /\ ~NoApp.open /\ NoApp.l = None /\ NoApp.v = 0
  /\ NoPending \in [kind : PendingKinds, l : Owners, v : Versions, id : Ids \cup {None}]
  /\ NoPending.kind = "none"
  /\ Idle \in [at : {"idle", "added", "saved"}, id : Ids \cup {None}] /\ Idle.at = "idle"
  /\ Empty \in Draft /\ Empty.l = None /\ Empty.v = 0 /\ ~Empty.pending
<1>1. 0 \in Versions /\ None \in Owners /\ None \in Ids \cup {None}
  BY ComposeAssumption DEF Versions, Owners
<1> QED
  BY <1>1 DEF NoApp, UiShape, NoPending, PendingKinds, Idle, Empty, Draft, Versions, Owners

\* Leaving a screen, or Tick, with the autosave.
LEMMA AutosavesKeep ==
  ASSUME ComposeInv, NEW w \in WriteOutcomes,
         TickAutosave(w) \/ KeyPickAttach(w) \/ KeyWriteBack(w) \/ SendFull(w)
  PROVE  ComposeInv'
<1>1. /\ awake /\ step = Idle /\ AutosaveDraft(w)
      /\ UNCHANGED <<awake, ui, pending, step, outbox, files, pin>>
      /\ screen' = "write" => ui.open
      /\ screen' = screen \/ screen # "pin"
  BY DEF TickAutosave, KeyPickAttach, KeyWriteBack, SendFull, Key, ComposeInv, Stepping
<1>2. /\ slot' \in Draft /\ hist' \in Histories
      /\ hist'.newest = hist.newest /\ hist'.twice = hist.twice /\ hist'.locked = hist.locked
      /\ \A l \in Letters : Needed(l)' =>
           \/ Sent(l)
           \/ slot'.l = l /\ slot'.v = hist'.newest[l] /\ slot'.pending
      /\ \A l \in Letters : ui.open /\ Needed(l)' => Sent(l) \/ Open(l)
      /\ \A e \in Entered : slot'.v > 0 /\ slot'.l = e.l => e.l \in hist.twice
  BY <1>1, AutosaveFacts
<1>3. ComposeType'
  BY <1>1, <1>2 DEF ComposeInv, ComposeType, Entered
<1>4. Asleep' /\ Locked' /\ Asked'
  BY <1>1, <1>2 DEF ComposeInv, Asleep, Locked, Asked, Entered
<1>5. Stepping'
  BY <1>1 DEF ComposeInv, Stepping, Idle
<1>6. SavedAll'
  BY <1>1, <1>2 DEF SavedAll, Sent, Parked, InSlot
<1>7. WordsSafe' /\ SlotTrusted'
  BY <1>6, SavedSuffices, PTL
<1>8. \A l \in Letters : Open(l)' <=> Open(l)
  BY <1>1, <1>2 DEF Open
<1>9. SlotIsOurs'
  BY <1>1, <1>2, <1>8 DEF SlotIsOurs, Sent
<1>10. Copies'
  BY <1>1, <1>2 DEF ComposeInv, Copies, Entered
<1> QED
  BY <1>3, <1>4, <1>5, <1>7, <1>9, <1>10 DEF ComposeInv

\* RAM goes: what is saved stays, and a boot has the entries of the files.
LEMMA Darkens ==
  ASSUME ComposeInv, Darken, slot' \in Draft, hist' \in Histories, SavedAll',
         \A e \in Entered : slot'.v > 0 /\ slot'.l = e.l => e.l \in hist'.twice,
         hist.twice \subseteq hist'.twice
  PROVE  ComposeInv'
<1>0. /\ awake' = FALSE /\ screen' = "cover" /\ ui' = NoApp /\ pending' = NoPending
      /\ step' = Idle /\ outbox' = files /\ files' = files /\ Entered' \subseteq Entered
  BY DEF Darken, Entered
<1>1. ComposeType'
  BY <1>0, AppFacts DEF ComposeInv, ComposeType
<1>2. Asleep' /\ Locked'
  BY <1>0 DEF Asleep, Locked
<1>3. Stepping'
  BY <1>0, AppFacts DEF Stepping
<1>4. Asked'
  BY <1>0, AppFacts DEF ComposeInv, Asked
<1>5. WordsSafe' /\ SlotTrusted'
  BY SavedSuffices, PTL
<1>6. SlotIsOurs'
  BY <1>0, AppFacts DEF SlotIsOurs
<1>7. Copies'
  BY <1>0, AppFacts DEF ComposeInv, Copies
<1> QED
  BY <1>1, <1>2, <1>3, <1>4, <1>5, <1>6, <1>7 DEF ComposeInv

\* Every wipe.
LEMMA WipeKeeps ==
  ASSUME ComposeInv, NEW w \in WriteOutcomes, Wipe(w)
  PROVE  ComposeInv'
<1>1. /\ awake /\ step = Idle /\ AutosaveDraft(w) /\ Darken
      /\ outbox' = files /\ files' = files
  BY DEF Wipe, Darken
<1>2. /\ slot' \in Draft /\ hist' \in Histories
      /\ hist'.newest = hist.newest /\ hist'.twice = hist.twice
      /\ \A l \in Letters : Needed(l)' =>
           \/ Sent(l)
           \/ slot'.l = l /\ slot'.v = hist'.newest[l] /\ slot'.pending
      /\ \A e \in Entered : slot'.v > 0 /\ slot'.l = e.l => e.l \in hist.twice
  BY <1>1, AutosaveFacts
<1>3. SavedAll'
  BY <1>1, <1>2 DEF SavedAll, Sent, Parked, InSlot
<1> QED
  BY <1>1, <1>2, <1>3, Darkens

\* The power goes, between two writes or not.
LEMMA PowerCutKeeps ==
  ASSUME ComposeInv, PowerCut
  PROVE  ComposeInv'
<1>1. /\ awake /\ Darken /\ awake' = FALSE /\ outbox' = files /\ files' = files
      /\ slot' = slot
      /\ hist' = IF step # Idle THEN [hist EXCEPT !.twice = @ \cup {ui.l}]
                 ELSE IF Dirty THEN ForgetUnsaved ELSE hist
  BY DEF PowerCut, Darken
<1>2. /\ slot \in Draft /\ hist \in Histories /\ ui.l \in Owners /\ ui.v \in Versions
      /\ hist.newest \in [Letters -> Versions] /\ hist.twice \subseteq Owners
  BY UiFacts, HistFacts DEF ComposeInv, ComposeType
<1>3. CASE step # Idle
  <2>1. hist' = [hist EXCEPT !.twice = hist.twice \cup {ui.l}]
    BY <1>1, <1>3
  <2>2. /\ hist' \in Histories /\ hist'.newest = hist.newest /\ hist'.excuse = hist.excuse
        /\ hist'.twice = hist.twice \cup {ui.l}
    BY <1>2, <2>1, TwiceFacts
  <2>3. ASSUME NEW l \in Letters, Needed(l)' PROVE Sent(l)' \/ Parked(l)'
    <3>1. Needed(l)
      BY <2>2, <2>3 DEF Needed
    <3>2. Sent(l) \/ Parked(l) \/ (screen = "write" /\ Open(l))
      BY <3>1 DEF ComposeInv, WordsSafe
    <3>3. step.at = "saved" => screen # "write"
      BY DEF ComposeInv, Stepping
    <3>4. step.at = "added" /\ Open(l) => Sent(l)
      BY DEF ComposeInv, Stepping, Open, Sent
    <3>5. step.at \in {"added", "saved"}
      BY <1>3 DEF ComposeInv, ComposeType, Stepping
    <3> QED
      BY <1>1, <2>2, <3>2, <3>3, <3>4, <3>5 DEF Sent, Parked, InSlot
  <2>4. SavedAll'
    BY <2>3 DEF SavedAll
  <2>5. \A e \in Entered : slot'.v > 0 /\ slot'.l = e.l => e.l \in hist'.twice
    BY <1>1, <2>2 DEF ComposeInv, Copies
  <2> QED
    BY <1>1, <1>2, <2>2, <2>4, <2>5, Darkens
<1>4. CASE step = Idle /\ ~Dirty
  <2>1. hist' = hist
    BY <1>1, <1>4
  <2>2. ASSUME NEW l \in Letters, Needed(l)' PROVE Sent(l)' \/ Parked(l)'
    <3>1. Needed(l)
      BY <2>1, <2>2 DEF Needed
    <3>2. Sent(l) \/ Parked(l) \/ (screen = "write" /\ Open(l))
      BY <3>1 DEF ComposeInv, WordsSafe
    <3>3. Open(l) => InSlot(l, hist.newest[l])
      BY <1>4 DEF Open, Dirty
    <3> QED
      BY <1>1, <2>1, <3>2, <3>3 DEF Sent, Parked, InSlot
  <2>3. SavedAll'
    BY <2>2 DEF SavedAll
  <2>4. \A e \in Entered : slot'.v > 0 /\ slot'.l = e.l => e.l \in hist'.twice
    BY <1>1, <1>4, <2>1 DEF ComposeInv, Copies
  <2> QED
    BY <1>1, <1>2, <2>1, <2>3, <2>4, Darkens
<1>5. CASE step = Idle /\ Dirty
  <2> DEFINE left == IF slot.l = ui.l THEN slot.v ELSE 0
  <2>1. ui.open /\ ui.l \in Letters /\ left \in Versions /\ "none" \in Excuses
    BY <1>2, <1>5, ComposeAssumption
       DEF Dirty, ComposeInv, Stepping, Draft, Versions, Excuses
  <2>2. hist' = [hist EXCEPT !.newest[ui.l] = left, !.excuse[ui.l] = "none"]
    BY <1>1, <1>5 DEF ForgetUnsaved
  <2> HIDE DEF left
  <2>3. /\ hist' \in Histories /\ hist'.twice = hist.twice
        /\ \A m \in Letters : /\ hist'.newest[m] = IF m = ui.l THEN left ELSE hist.newest[m]
                              /\ hist'.excuse[m] = IF m = ui.l THEN "none" ELSE hist.excuse[m]
    <3>1. hist' = Renewed(hist, ui.l, left)
      BY <2>2 DEF Renewed
    <3>2. LET g == Renewed(hist, ui.l, left)
          IN  /\ g \in Histories /\ g.twice = hist.twice
              /\ \A m \in Letters : /\ g.newest[m] = IF m = ui.l THEN left ELSE hist.newest[m]
                                    /\ g.excuse[m] = IF m = ui.l THEN "none" ELSE hist.excuse[m]
      <4>1. hist \in Histories
        BY <1>2
      <4>2. ui.l \in Letters
        BY <2>1
      <4>3. left \in Versions
        BY <2>1
      <4> QED
        BY <4>1, <4>2, <4>3, NewestFacts
    <3> QED
      BY <3>1, <3>2
  <2>4. ASSUME NEW l \in Letters, Needed(l)' PROVE Sent(l)' \/ Parked(l)'
    <3>1. CASE l = ui.l
      <4>1. hist'.newest[l] = left /\ left > 0
        BY <2>3, <2>4, <3>1 DEF Needed
      <4>2. slot.l = ui.l /\ slot.v = left
        BY <4>1 DEF left
      <4> QED
        BY <1>1, <3>1, <4>1, <4>2 DEF Parked, InSlot
    <3>2. CASE l # ui.l
      <4>1. Needed(l) /\ hist'.newest[l] = hist.newest[l]
        BY <2>3, <2>4, <3>2 DEF Needed
      <4>2. Sent(l)
        BY <2>1, <3>2, <4>1 DEF ComposeInv, SlotIsOurs, Open
      <4> QED
        BY <1>1, <4>1, <4>2 DEF Sent
    <3> QED
      BY <3>1, <3>2
  <2>5. SavedAll'
    BY <2>4 DEF SavedAll
  <2>6. \A e \in Entered : slot'.v > 0 /\ slot'.l = e.l => e.l \in hist'.twice
    BY <1>1, <1>5, <2>3 DEF ComposeInv, Copies
  <2> QED
    BY <1>1, <1>2, <2>3, <2>5, <2>6, Darkens
<1> QED
  BY <1>3, <1>4, <1>5

---------------------------------------------------------------------------
(* A session begins; a fault screen *)

\* A boot reads the slot: it is occupied if it holds words.
LEMMA StartKeeps ==
  ASSUME ComposeInv, NEW initial \in {"cover", "inbox"}, Start(initial)
  PROVE  ComposeInv'
<1>1. /\ ~awake /\ awake' = TRUE /\ slot' = [slot EXCEPT !.pending = slot.v > 0]
      /\ ui' = NoApp /\ hist' = [hist EXCEPT !.locked = PinRequired(NoApp)]
      /\ UNCHANGED <<step, outbox, files>>
  BY DEF Start, ReadSlot
<1>2. pending = NoPending /\ step = Idle /\ ui = NoApp
  BY <1>1 DEF ComposeInv, Asleep
<1>3. /\ PinRequired(NoApp) => screen' = "pin"
      /\ screen' # "write"
      /\ pending' = NoPending \/ pending' = [NoPending EXCEPT !.kind = "resume"]
  BY <1>2 DEF Start, OfferOr
<1>4. slot \in Draft /\ hist \in Histories /\ PinRequired(NoApp) \in BOOLEAN
  BY DEF ComposeInv, ComposeType, PinRequired
<1>5. /\ hist' \in Histories /\ hist'.newest = hist.newest /\ hist'.excuse = hist.excuse
      /\ hist'.twice = hist.twice /\ hist'.locked = PinRequired(NoApp)
  <2> DEFINE b == PinRequired(NoApp)
  <2>1. b \in BOOLEAN /\ hist' = [hist EXCEPT !.locked = b]
    BY <1>1, <1>4
  <2> HIDE DEF b
  <2>2. /\ hist' \in Histories /\ hist'.newest = hist.newest /\ hist'.excuse = hist.excuse
        /\ hist'.twice = hist.twice /\ hist'.locked = b
    BY <1>4, <2>1, LockedFacts
  <2> QED
    BY <2>2 DEF b
<1>6. slot' \in Draft /\ slot'.l = slot.l /\ slot'.v = slot.v /\ (slot'.pending <=> slot.v > 0)
  <2> DEFINE b == slot.v > 0
  <2>1. b \in BOOLEAN /\ slot' = [slot EXCEPT !.pending = b]
    BY <1>1
  <2> HIDE DEF b
  <2>2. slot' \in Draft /\ slot'.l = slot.l /\ slot'.v = slot.v /\ slot'.pending = b
    BY <1>4, <2>1 DEF Draft
  <2> QED
    BY <2>2 DEF b
<1>7. /\ pending' \in [kind : PendingKinds, l : Owners, v : Versions, id : Ids \cup {None}]
      /\ pending'.kind \in {"none", "resume"}
  BY <1>3, AppFacts DEF NoPending, PendingKinds
<1>8. ComposeType'
  BY <1>1, <1>2, <1>5, <1>6, <1>7, AppFacts DEF ComposeInv, ComposeType, Entered
<1>9. Asleep' /\ Locked' /\ Stepping'
  BY <1>1, <1>2, <1>3, <1>5, AppFacts DEF Asleep, Locked, Stepping
<1>10. Asked'
  BY <1>1, <1>7 DEF ComposeInv, Asked, Entered
<1>11. ASSUME NEW l \in Letters, Needed(l)' PROVE Sent(l)' \/ Parked(l)'
  <2>1. Needed(l) /\ hist'.newest[l] = hist.newest[l] /\ hist.newest[l] > 0
    BY <1>5, <1>11 DEF Needed
  <2>2. Sent(l) \/ Parked(l)
    BY <1>2, <2>1, AppFacts DEF ComposeInv, WordsSafe, Open
  <2> QED
    BY <1>1, <1>6, <2>1, <2>2 DEF Sent, Parked, InSlot
<1>12. WordsSafe' /\ SlotTrusted'
  <2>1. SavedAll'
    BY <1>11 DEF SavedAll
  <2> QED
    BY <2>1, SavedSuffices, PTL
<1>13. SlotIsOurs'
  BY <1>1, AppFacts DEF SlotIsOurs
<1>14. Copies'
  BY <1>1, <1>2, <1>5, <1>6, AppFacts DEF ComposeInv, Copies, Entered
<1> QED
  BY <1>8, <1>9, <1>10, <1>12, <1>13, <1>14 DEF ComposeInv

\* Any screen gives way; words that were not saved are excused.
LEMMA ShowFaultKeeps ==
  ASSUME ComposeInv, NEW k, ShowFault(k)
  PROVE  ComposeInv'
<1> DEFINE h == IF screen = "write" /\ Dirty THEN Excuse(ui.l, "fault") ELSE hist
<1>1. /\ awake /\ step = Idle /\ screen' = "fault" /\ ui' = [ui EXCEPT !.fault = k]
      /\ hist' = [h EXCEPT !.locked = FALSE]
      /\ UNCHANGED <<awake, pending, step, slot, outbox, files>>
  BY DEF ShowFault
<1>2. hist \in Histories /\ UiShape(ui)
  BY DEF ComposeInv, ComposeType
<1>3. UiShape(ui') /\ ui'.open = ui.open /\ ui'.l = ui.l /\ ui'.v = ui.v
  BY <1>1, <1>2 DEF UiShape
<1>4. /\ h \in Histories /\ h.newest = hist.newest /\ h.twice = hist.twice
      /\ \A m \in Letters : h.excuse[m] = hist.excuse[m] \/ h.excuse[m] = "fault"
      /\ screen = "write" /\ Dirty => h.excuse[ui.l] = "fault"
  <2>1. CASE screen = "write" /\ Dirty
    <3>1. ui.l \in Letters /\ "fault" \in Excuses /\ h = [hist EXCEPT !.excuse[ui.l] = "fault"]
      BY <2>1 DEF Dirty, Excuse, Excuses, ComposeInv, Stepping
    <3> QED
      BY <1>2, <3>1, ExcuseFacts
  <2>2. CASE ~(screen = "write" /\ Dirty)
    BY <1>2, <2>2
  <2> QED
    BY <2>1, <2>2
<1> HIDE DEF h
<1>5. /\ hist' \in Histories /\ hist'.newest = hist.newest /\ hist'.excuse = h.excuse
      /\ hist'.twice = hist.twice /\ hist'.locked = FALSE
  BY <1>1, <1>4, LockedFacts
<1>6. ComposeType'
  BY <1>1, <1>3, <1>5 DEF ComposeInv, ComposeType, Entered
<1>7. Asleep' /\ Locked'
  BY <1>1, <1>5 DEF Asleep, Locked
<1>8. Stepping'
  BY <1>1, <1>3, AppFacts DEF ComposeInv, Stepping
<1>9. Asked'
  BY <1>1, <1>3 DEF ComposeInv, Asked, Entered
<1>10. ASSUME NEW l \in Letters, Needed(l)'
       PROVE  Needed(l) /\ (screen = "write" /\ Open(l) => ~Dirty)
  BY <1>4, <1>5, <1>10 DEF Needed, Open
<1>11. ASSUME NEW l \in Letters, Needed(l)' PROVE Sent(l)' \/ Parked(l)'
  <2>1. Needed(l)
    BY <1>10, <1>11
  <2>2. Sent(l) \/ Parked(l)
    <3>1. CASE screen = "write" /\ Open(l)
      <4>1. InSlot(l, hist.newest[l])
        BY <1>10, <1>11, <3>1 DEF Dirty, Open
      <4> QED
        BY <2>1, <4>1 DEF ComposeInv, SlotTrusted
    <3>2. CASE ~(screen = "write" /\ Open(l))
      BY <2>1, <3>2 DEF ComposeInv, WordsSafe
    <3> QED
      BY <3>1, <3>2
  <2> QED
    BY <1>1, <1>5, <2>2 DEF Sent, Parked, InSlot
<1>12. WordsSafe' /\ SlotTrusted'
  <2>1. SavedAll'
    BY <1>11 DEF SavedAll
  <2> QED
    BY <2>1, SavedSuffices, PTL
<1>13. SlotIsOurs'
  <2> SUFFICES ASSUME ui'.open, NEW l \in Letters, Needed(l)' PROVE Sent(l)' \/ Open(l)'
    BY DEF SlotIsOurs
  <2>1. Needed(l) /\ ui.open
    BY <1>3, <1>10
  <2>2. Sent(l) \/ Open(l)
    BY <2>1 DEF ComposeInv, SlotIsOurs
  <2> QED
    BY <1>1, <1>3, <1>5, <2>2 DEF Sent, Open
<1>14. Copies'
  BY <1>1, <1>3, <1>5 DEF ComposeInv, Copies, Entered
<1> QED
  BY <1>6, <1>7, <1>8, <1>9, <1>12, <1>13, <1>14 DEF ComposeInv

---------------------------------------------------------------------------
(* Writing *)

\* An edit makes words the slot does not have: they are on the screen.
LEMMA EditKeeps ==
  ASSUME ComposeInv, NEW v \in 0..MaxVersion, Edit(v)
  PROVE  ComposeInv'
<1>1. /\ awake /\ step = Idle /\ screen = "write"
      /\ ui' = [ui EXCEPT !.v = v]
      /\ hist' = Renewed(hist, ui.l, v)
      /\ UNCHANGED <<awake, screen, pending, step, slot, outbox, files>>
  BY DEF Edit, Key, Renewed
<1>2. hist \in Histories /\ UiShape(ui) /\ v \in Versions
  BY DEF ComposeInv, ComposeType, Versions
<1>3. UiShape(ui') /\ ui'.open = ui.open /\ ui'.l = ui.l /\ ui'.v = v
  BY <1>1, <1>2 DEF UiShape
<1>4. ui.open /\ ui.l \in Letters
  BY <1>1 DEF ComposeInv, Stepping
<1>5. /\ hist' \in Histories /\ hist'.twice = hist.twice /\ hist'.locked = hist.locked
      /\ \A m \in Letters : /\ hist'.newest[m] = IF m = ui.l THEN v ELSE hist.newest[m]
                            /\ hist'.excuse[m] = IF m = ui.l THEN "none" ELSE hist.excuse[m]
  <2>1. ui.l \in Letters
    BY <1>4
  <2>2. hist' = Renewed(hist, ui.l, v)
    BY <1>1
  <2> QED
    BY <1>2, <2>1, <2>2, NewestFacts
<1>6. v > 0 => v # slot.v
  <2>1. CASE v = 0 /\ ui.v > 0
    BY <2>1
  <2>2. CASE FreshVersions(ui.l) # {} /\ v = Min(FreshVersions(ui.l))
    <3> DEFINE T == FreshVersions(ui.l)
    <3>1. T \subseteq Nat /\ T # {}
      BY <2>2, ComposeAssumption DEF FreshVersions
    <3> HIDE DEF T
    <3>2. \E x \in T : \A y \in T : x <= y
      BY <3>1, LeastNat
    <3>3. v \in T
      BY <2>2, <3>2 DEF Min, T
    <3> QED
      BY <3>3 DEF T, FreshVersions
  <2> QED
    BY <2>1, <2>2 DEF Edit
<1>7. ComposeType'
  BY <1>1, <1>3, <1>5 DEF ComposeInv, ComposeType, Entered
<1>8. Asleep' /\ Locked'
  BY <1>1, <1>5 DEF ComposeInv, Asleep, Locked
<1>9. Stepping'
  BY <1>1, <1>3, AppFacts DEF ComposeInv, Stepping
<1>10. Asked'
  BY <1>1, <1>3 DEF ComposeInv, Asked, Entered
<1>11. ASSUME NEW l \in Letters, l # ui.l
       PROVE  /\ Needed(l)' <=> Needed(l)
              /\ Sent(l)' <=> Sent(l)
              /\ Parked(l)' <=> Parked(l)
              /\ ~Open(l)
  BY <1>1, <1>5, <1>11 DEF Needed, Sent, Parked, InSlot, Open
<1>12. Open(ui.l)' /\ ~(Needed(ui.l)' /\ InSlot(ui.l, hist.newest[ui.l])')
  BY <1>1, <1>3, <1>4, <1>5, <1>6 DEF Open, InSlot, Needed
<1>13. WordsSafe'
  <2> SUFFICES ASSUME NEW l \in Letters, Needed(l)'
               PROVE  Sent(l)' \/ Parked(l)' \/ (screen' = "write" /\ Open(l)')
    BY DEF WordsSafe
  <2>1. CASE l = ui.l
    BY <1>1, <1>3, <1>4, <1>5, <2>1 DEF Open
  <2>2. CASE l # ui.l
    BY <1>11, <2>2 DEF ComposeInv, WordsSafe
  <2> QED
    BY <2>1, <2>2
<1>14. SlotTrusted'
  <2> SUFFICES ASSUME NEW l \in Letters, Needed(l)', InSlot(l, hist.newest[l])'
               PROVE  Sent(l)' \/ Parked(l)'
    BY DEF SlotTrusted
  <2>1. CASE l = ui.l
    BY <1>1, <1>3, <1>4, <1>5, <1>6, <2>1 DEF InSlot, Needed
  <2>2. CASE l # ui.l
    BY <1>4, <1>11, <2>2 DEF ComposeInv, SlotIsOurs
  <2> QED
    BY <2>1, <2>2
<1>15. SlotIsOurs'
  <2> SUFFICES ASSUME NEW l \in Letters, Needed(l)' PROVE Sent(l)' \/ Open(l)'
    BY DEF SlotIsOurs
  <2>1. CASE l = ui.l
    BY <1>3, <1>4, <1>5, <2>1 DEF Open
  <2>2. CASE l # ui.l
    BY <1>4, <1>11, <2>2 DEF ComposeInv, SlotIsOurs
  <2> QED
    BY <2>1, <2>2
<1>16. Copies'
  BY <1>1, <1>3, <1>5 DEF ComposeInv, Copies, Entered
<1> QED
  BY <1>7, <1>8, <1>9, <1>10, <1>13, <1>14, <1>15, <1>16 DEF ComposeInv

\* Nothing more to show where the outbox has everything that is needed.
LEMMA AllSentKeeps ==
  ASSUME ComposeType', Asleep', Locked', Stepping', Asked', Copies',
         \A l \in Letters : Needed(l)' => Sent(l)'
  PROVE  ComposeInv'
BY DEF ComposeInv, WordsSafe, SlotTrusted, SlotIsOurs

\* A slot the store takes for free: the outbox has everything, away from the
\* writing screen.
LEMMA FreeSlot ==
  ASSUME ComposeInv, awake, ~slot.pending, screen # "write"
  PROVE  \A l \in Letters : Needed(l) => Sent(l)
BY DEF ComposeInv, WordsSafe, Parked

\* A person is picked: a new letter begins, unless the slot is occupied.
LEMMA PickNewKeeps ==
  ASSUME ComposeInv, NEW l \in Letters, NEW w \in WriteOutcomes, KeyPickNew(l, w)
  PROVE  ComposeInv'
<1> DEFINE p == [NoPending EXCEPT !.kind = "new", !.l = l]
           eased == [hist EXCEPT !.excuse[l] = "none"]
<1>1. /\ awake /\ step = Idle /\ screen = "pick" /\ ~ui.open /\ Unwritten(l)
      /\ StartDraft(p, w) /\ UNCHANGED <<awake, outbox, files, pin>>
  BY DEF KeyPickNew, Key
<1>2. hist' = [eased EXCEPT !.twice = hist.twice \ {l}]
  BY DEF KeyPickNew, ComposeInv, ComposeType, Histories
<1>3. /\ hist \in Histories /\ slot \in Draft /\ UiShape(ui) /\ "none" \in Excuses
      /\ hist.twice \subseteq Owners /\ l \in Owners /\ 0 \in Versions
  BY HistFacts, ComposeAssumption DEF ComposeInv, ComposeType, Excuses, Owners, Versions
<1>4. /\ eased \in Histories /\ eased.newest = hist.newest /\ eased.twice = hist.twice
      /\ eased.locked = hist.locked
      /\ \A m \in Letters : eased.excuse[m] = IF m = l THEN "none" ELSE hist.excuse[m]
  <2>1. hist \in Histories /\ hist.excuse \in [Letters -> Excuses]
    BY <1>3, HistFacts
  <2> QED
    BY <1>3, <2>1, ExcuseFacts
<1> HIDE DEF eased
<1>5. /\ hist' \in Histories /\ hist'.newest = hist.newest /\ hist'.excuse = eased.excuse
      /\ hist'.twice = hist.twice \ {l} /\ hist'.locked = hist.locked
  BY <1>2, <1>3, <1>4, TwiceFacts
<1>6. hist.newest[l] = 0 /\ \A e \in Entered : e.l # l
  BY <1>1 DEF Unwritten
<1>7. \A m \in Letters : Needed(m)' => Needed(m) /\ m # l
  BY <1>4, <1>5, <1>6 DEF Needed
<1>8. /\ p.kind = "new" /\ p.l = l /\ p.v = 0
      /\ p \in [kind : PendingKinds, l : Owners, v : Versions, id : Ids \cup {None}]
  <2>1. p.kind = "new" /\ p.l = l /\ p.v = 0
    BY DEF NoPending
  <2>2. l \in Owners /\ 0 \in Versions /\ None \in Ids \cup {None} /\ "new" \in PendingKinds
    BY <1>3, ComposeAssumption DEF PendingKinds
  <2>3. p \in [kind : PendingKinds, l : Owners, v : Versions, id : Ids \cup {None}]
    BY <2>2 DEF NoPending
  <2> HIDE DEF p
  <2> QED
    BY <2>1, <2>3
<1> HIDE DEF p
<1>9. CASE slot.pending
  <2>1. pending' = p /\ screen' = "conflict" /\ UNCHANGED <<ui, step, slot>>
    BY <1>1, <1>9 DEF StartDraft, Pending
  <2>2. ComposeType'
    BY <1>1, <1>5, <1>8, <2>1 DEF ComposeInv, ComposeType, Entered
  <2>3. Asleep' /\ Locked' /\ Stepping'
    BY <1>1, <1>5, <2>1 DEF ComposeInv, Asleep, Locked, Stepping, Idle
  <2>4. Asked'
    BY <1>1, <1>6, <1>8, <2>1 DEF ComposeInv, Asked, Entered
  <2>5. ASSUME NEW m \in Letters, Needed(m)' PROVE Sent(m)' \/ Parked(m)'
    <3>1. Needed(m)
      BY <1>7, <2>5
    <3>2. Sent(m) \/ Parked(m)
      BY <1>1, <3>1 DEF ComposeInv, WordsSafe
    <3> QED
      BY <1>1, <1>5, <2>1, <3>2 DEF Sent, Parked, InSlot
  <2>6. WordsSafe' /\ SlotTrusted'
    BY <2>5 DEF WordsSafe, SlotTrusted
  <2>7. SlotIsOurs'
    BY <1>1, <2>1 DEF SlotIsOurs
  <2>8. Copies'
    BY <1>1, <1>5, <1>6, <2>1 DEF ComposeInv, Copies, Entered
  <2> QED
    BY <2>2, <2>3, <2>4, <2>6, <2>7, <2>8 DEF ComposeInv
<1>10. CASE ~slot.pending
  <2>1. /\ pending' = NoPending /\ slot' = Save(slot, l, 0, w) /\ step' = step
        /\ \/ ui' = ui /\ screen' = screen
           \/ ui' = [ui EXCEPT !.open = TRUE, !.l = l, !.v = 0] /\ screen' = "write"
    BY <1>1, <1>8, <1>10 DEF StartDraft, Pending, OpenCompose
  <2>2. /\ slot' \in Draft
        /\ slot' = slot \/ slot'.v = 0
    BY <1>3, <2>1, SaveFacts
  <2>3. /\ UiShape(ui')
        /\ \/ ~ui'.open /\ screen' = screen
           \/ ui'.open /\ ui'.l = l /\ screen' = "write"
    <3>1. CASE ui' = ui /\ screen' = screen
      BY <1>1, <1>3, <3>1
    <3>2. CASE ui' = [ui EXCEPT !.open = TRUE, !.l = l, !.v = 0] /\ screen' = "write"
      BY <1>3, <3>2 DEF UiShape
    <3> QED
      BY <2>1, <3>1, <3>2
  <2>4. ComposeType'
    BY <1>1, <1>5, <2>1, <2>2, <2>3, AppFacts DEF ComposeInv, ComposeType, Entered
  <2>5. Asleep' /\ Locked'
    BY <1>1, <1>5 DEF ComposeInv, Asleep, Locked
  <2>6. Stepping'
    BY <1>1, <2>1, <2>3, AppFacts DEF Stepping
  <2>7. Asked'
    BY <1>1, <2>1, AppFacts DEF ComposeInv, Asked, Entered
  <2>8. \A m \in Letters : Needed(m)' => Sent(m)'
    <3>1. \A m \in Letters : Needed(m) => Sent(m)
      BY <1>1, <1>10, FreeSlot
    <3> QED
      BY <1>1, <1>5, <1>7, <3>1 DEF Sent
  <2>9. Copies'
    BY <1>1, <1>5, <1>6, <2>1, <2>2, <2>3 DEF ComposeInv, Copies, Entered
  <2> QED
    BY <2>4, <2>5, <2>6, <2>7, <2>8, <2>9, AllSentKeeps
<1> QED
  BY <1>9, <1>10 DEF ComposeInv, ComposeType, Draft

---------------------------------------------------------------------------
(* Send *)

\* A copy that stayed behind is on record.
LEMMA CopiedFacts ==
  ASSUME hist \in Histories, NEW a \in Letters, NEW b \in BOOLEAN
  PROVE  LET c == Copied(a, b)
         IN  /\ c \in Histories /\ c.newest = hist.newest /\ c.excuse = hist.excuse
             /\ c.locked = hist.locked /\ hist.twice \subseteq c.twice
             /\ b => a \in c.twice
<1>1. hist.twice \cup {a} \in SUBSET Owners
  BY HistFacts DEF Owners
<1>2. CASE b
  <2> DEFINE T == hist.twice \cup {a}
  <2>1. Copied(a, b) = [hist EXCEPT !.twice = T]
    BY <1>2 DEF Copied
  <2> HIDE DEF T
  <2>2. T \in SUBSET Owners
    BY <1>1 DEF T
  <2> DEFINE c == Copied(a, b)
  <2> HIDE DEF c
  <2>3. c = [hist EXCEPT !.twice = T]
    BY <2>1 DEF c
  <2>4. /\ c \in Histories /\ c.newest = hist.newest /\ c.excuse = hist.excuse
        /\ c.locked = hist.locked /\ c.twice = T
    BY <2>2, <2>3, TwiceFacts
  <2> QED
    BY <2>4 DEF T, c
<1>3. CASE ~b
  BY <1>3 DEF Copied
<1> QED
  BY <1>2, <1>3

\* Send, first write: the letter is in the outbox, or only in a file that a boot
\* will read, and still in the slot.
LEMMA SendAddKeeps ==
  ASSUME ComposeInv, NEW i \in Ids, NEW w \in WriteOutcomes, SendAdd(i, w)
  PROVE  ComposeInv'
<1> DEFINE new == [id |-> i, l |-> ui.l, v |-> ui.v, rejected |-> FALSE]
           b == w = "unsynced"
<1>1. /\ awake /\ step = Idle /\ screen = "write" /\ ui.v > 0 /\ i \in FreeIds
      /\ files' = IF w = "failed" THEN files ELSE files \cup {new}
      /\ w = "done" => outbox' = outbox \cup {new} /\ step' = [at |-> "added", id |-> None]
      /\ w # "done" => outbox' = outbox /\ step' = step
      /\ hist' = Copied(ui.l, b)
      /\ UNCHANGED <<awake, screen, ui, pending, slot>>
  BY DEF SendAdd, Key, Idle
<1>2. \A e \in Entered : e.id # i
  BY <1>1 DEF FreeIds
<1>3. UiShape(ui) /\ ui.open /\ ui.l \in Letters /\ ui.v \in Versions /\ hist \in Histories
  BY <1>1, UiFacts DEF ComposeInv, ComposeType, Stepping
<1>4. /\ new \in Entries /\ new.id = i /\ new.l = ui.l /\ new.v = ui.v
  BY <1>1, <1>3, ComposeAssumption DEF Entries, Versions
<1> HIDE DEF new
<1>5. /\ hist' \in Histories /\ hist'.newest = hist.newest /\ hist'.excuse = hist.excuse
      /\ hist'.locked = hist.locked /\ hist.twice \subseteq hist'.twice
      /\ w = "unsynced" => ui.l \in hist'.twice
  <2>1. b \in BOOLEAN /\ hist' = Copied(ui.l, b)
    BY <1>1
  <2> HIDE DEF b
  <2>2. /\ hist' \in Histories /\ hist'.newest = hist.newest /\ hist'.excuse = hist.excuse
        /\ hist'.locked = hist.locked /\ hist.twice \subseteq hist'.twice
        /\ b => ui.l \in hist'.twice
    BY <1>3, <2>1, CopiedFacts
  <2> QED
    BY <2>2 DEF b
<1> HIDE DEF b
<1>6. /\ outbox \subseteq outbox' /\ files \subseteq files'
      /\ Entered' = IF w = "failed" THEN Entered ELSE Entered \cup {new}
      /\ w = "done" => new \in outbox' /\ new \in files'
  BY <1>1 DEF Entered, WriteOutcomes
<1>7. step' \in [at : {"idle", "added", "saved"}, id : Ids \cup {None}]
  BY <1>1 DEF ComposeInv, ComposeType
<1>8. ComposeType'
  BY <1>1, <1>4, <1>5, <1>6, <1>7 DEF ComposeInv, ComposeType
<1>9. Asleep' /\ Locked'
  <2>1. ~hist.locked
    BY <1>1 DEF ComposeInv, Locked
  <2> QED
    BY <1>1, <1>5, <2>1 DEF Asleep, Locked
<1>10. Stepping'
  BY <1>1, <1>3, <1>4, <1>6, AppFacts DEF ComposeInv, Stepping
<1>11. Asked'
  <2>1. \A e, f \in Entered' : e.id = f.id => e.l = f.l /\ e.v = f.v
    BY <1>2, <1>4, <1>6 DEF ComposeInv, Asked
  <2>2. pending.kind = "new" => \A e \in Entered' : e.l # pending.l
    BY <1>3, <1>4, <1>6 DEF ComposeInv, Asked
  <2>3. /\ \A e, f \in files' : e.id = f.id => e = f
        /\ \A e, f \in outbox' : e.id = f.id => e = f
    BY <1>1, <1>2, <1>4 DEF ComposeInv, Asked, Entered
  <2> QED
    BY <1>1, <1>6, <2>1, <2>2, <2>3 DEF ComposeInv, Asked
<1>12. \A l \in Letters :
         /\ Needed(l)' <=> Needed(l)
         /\ Sent(l) => Sent(l)'
         /\ Parked(l)' <=> Parked(l)
         /\ Open(l)' <=> Open(l)
         /\ InSlot(l, hist.newest[l])' <=> InSlot(l, hist.newest[l])
  BY <1>1, <1>5, <1>6 DEF Needed, Sent, Parked, Open, InSlot
<1>13. WordsSafe' /\ SlotTrusted' /\ SlotIsOurs'
  BY <1>1, <1>12 DEF ComposeInv, WordsSafe, SlotTrusted, SlotIsOurs
<1>14. Copies'
  <2>1. \A e \in Entered : ui.l = e.l => e.l \in hist'.twice
    BY <1>1, <1>3, <1>5 DEF ComposeInv, Copies
  <2>2. w = "done" => step' # Idle
    BY <1>1 DEF Idle
  <2>3. \A e \in Entered' : slot.v > 0 /\ slot.l = e.l =>
          e.l \in hist'.twice \/ (step' # Idle /\ e.l = ui.l)
    BY <1>1, <1>4, <1>5, <1>6, <2>2 DEF ComposeInv, Copies, WriteOutcomes
  <2>4. \A e, f \in Entered' : e.id # f.id /\ e.l = f.l => e.l \in hist'.twice
    BY <1>4, <1>5, <1>6, <2>1 DEF ComposeInv, Copies
  <2>5. \A e \in Entered' : step' = Idle /\ ui.l = e.l => e.l \in hist'.twice
    BY <1>4, <1>5, <1>6, <2>1, <2>2 DEF WriteOutcomes
  <2> QED
    BY <1>1, <2>3, <2>4, <2>5 DEF Copies
<1> QED
  BY <1>8, <1>9, <1>10, <1>11, <1>13, <1>14 DEF ComposeInv

\* Send, second write: the draft goes, unless flash refuses.
LEMMA SendDiscardKeeps ==
  ASSUME ComposeInv, NEW w \in WriteOutcomes, SendDiscard(w)
  PROVE  ComposeInv'
<1> DEFINE g == Renewed(hist, ui.l, ui.v)
           T == IF w = "failed" THEN hist.twice \cup {ui.l} ELSE hist.twice
<1>1. /\ step.at = "added" /\ slot' = Discard(w)
      /\ ui' = [ui EXCEPT !.open = FALSE, !.l = None, !.v = 0]
      /\ screen' = "outbox" /\ step' = Idle
      /\ UNCHANGED <<awake, pending, outbox, files>>
  BY DEF SendDiscard, Closed
<1>2. step # Idle
  BY <1>1 DEF Idle
<1>3. /\ awake /\ screen = "write" /\ ui.open /\ ui.l \in Letters
      /\ \E e \in outbox : e.l = ui.l /\ e.v = ui.v
      /\ \E e \in files : e.l = ui.l /\ e.v = ui.v
  BY <1>1, <1>2 DEF ComposeInv, Asleep, Stepping
<1>4. /\ hist \in Histories /\ slot \in Draft /\ UiShape(ui) /\ ui.v \in Versions
      /\ hist.twice \subseteq Owners /\ 0 \in Versions /\ None \in Owners
  <2>1. hist \in Histories /\ slot \in Draft /\ UiShape(ui)
    BY DEF ComposeInv, ComposeType
  <2>2. 0 \in Versions /\ None \in Owners
    BY ComposeAssumption DEF Versions, Owners
  <2> QED
    BY <2>1, <2>2, UiFacts, HistFacts
<1>5. hist' = [g EXCEPT !.twice = T]
  BY <1>4 DEF SendDiscard, Renewed, Histories
<1>6. /\ g \in Histories /\ g.twice = hist.twice /\ g.locked = hist.locked
      /\ \A m \in Letters : /\ g.newest[m] = IF m = ui.l THEN ui.v ELSE hist.newest[m]
                            /\ g.excuse[m] = IF m = ui.l THEN "none" ELSE hist.excuse[m]
  <2>1. ui.l \in Letters
    BY <1>3
  <2> QED
    BY <1>4, <2>1, NewestFacts
<1> HIDE DEF g
<1>7. T \in SUBSET Owners
  BY <1>3, <1>4 DEF Owners
<1> HIDE DEF T
<1>8. /\ hist' \in Histories /\ hist'.newest = g.newest /\ hist'.excuse = g.excuse
      /\ hist'.twice = T /\ hist'.locked = hist.locked
  BY <1>5, <1>6, <1>7, TwiceFacts
<1>9. UiShape(ui') /\ ~ui'.open
  BY <1>1, <1>4 DEF UiShape
<1>10. slot' \in Draft /\ ((slot' = slot /\ w = "failed") \/ slot'.v = 0)
  BY <1>1, <1>4, DiscardFacts
<1>11. ComposeType'
  BY <1>1, <1>8, <1>9, <1>10, AppFacts DEF ComposeInv, ComposeType, Entered
<1>12. Asleep' /\ Locked' /\ Stepping'
  BY <1>1, <1>2, <1>3, <1>8, <1>9, AppFacts DEF ComposeInv, Asleep, Locked, Stepping
<1>13. Asked'
  BY <1>1, <1>9 DEF ComposeInv, Asked, Entered
<1>14. ASSUME NEW l \in Letters, Needed(l)' PROVE Sent(l)'
  <2>1. CASE l = ui.l
    BY <1>1, <1>3, <1>6, <1>8, <2>1 DEF Sent
  <2>2. CASE l # ui.l
    <3>1. Needed(l) /\ hist'.newest[l] = hist.newest[l]
      BY <1>6, <1>8, <1>14, <2>2 DEF Needed
    <3>2. Sent(l)
      BY <1>3, <2>2, <3>1 DEF ComposeInv, SlotIsOurs, Open
    <3> QED
      BY <1>1, <3>1, <3>2 DEF Sent
  <2> QED
    BY <2>1, <2>2
<1>15. Copies'
  <2>1. hist.twice \subseteq T /\ (w = "failed" => ui.l \in T)
    BY DEF T
  <2>2. \A e \in Entered : slot'.v > 0 /\ slot'.l = e.l => e.l \in T
    BY <1>10, <2>1 DEF ComposeInv, Copies, Entered
  <2> QED
    BY <1>1, <1>8, <1>9, <2>1, <2>2 DEF ComposeInv, Copies, Entered
<1> QED
  BY <1>11, <1>12, <1>13, <1>14, <1>15, AllSentKeeps

---------------------------------------------------------------------------
(* A letter that could not be sent, taken up again *)

\* The fields of an entry.
LEMMA EntryFacts ==
  ASSUME ComposeInv, NEW e \in outbox
  PROVE  /\ e.l \in Letters /\ e.v \in 1..MaxVersion /\ e.id \in Ids
         /\ e.l \in Owners /\ e.v \in Versions /\ e.v > 0
<1>1. e.l \in Letters /\ e.v \in 1..MaxVersion /\ e.id \in Ids
  BY DEF ComposeInv, ComposeType, Entries, Entered
<1> QED
  BY <1>1, ComposeAssumption DEF Owners, Versions

\* A rejected letter is saved as the draft before its entry is touched.
LEMMA KeyOutboxKeeps ==
  ASSUME ComposeInv, NEW e \in outbox, NEW w \in WriteOutcomes, KeyOutbox(e, w)
  PROVE  ComposeInv'
<1> DEFINE p == [kind |-> "recompose", l |-> e.l, v |-> e.v, id |-> e.id]
<1>1. /\ awake /\ step = Idle /\ screen = "outbox" /\ e.rejected /\ StartDraft(p, w)
      /\ UNCHANGED <<awake, outbox, files>>
  BY DEF KeyOutbox, Key
<1>2. hist \in Histories /\ slot \in Draft /\ UiShape(ui) /\ slot.pending \in BOOLEAN
  BY DEF ComposeInv, ComposeType, Draft
<1>3. /\ e.l \in Letters /\ e.l \in Owners /\ e.v \in Versions /\ e.v > 0
      /\ e.id \in Ids
  BY EntryFacts
<1>4. /\ p.kind = "recompose" /\ p.l = e.l /\ p.v = e.v /\ p.id = e.id
      /\ p \in [kind : PendingKinds, l : Owners, v : Versions, id : Ids \cup {None}]
  BY <1>3 DEF PendingKinds
<1> HIDE DEF p
<1>5. /\ hist' \in Histories /\ hist'.newest = hist.newest /\ hist'.excuse = hist.excuse
      /\ hist'.locked = hist.locked /\ hist.twice \subseteq hist'.twice
      /\ ~slot.pending /\ w = "unsynced" => e.l \in hist'.twice
  <2> DEFINE b == ~slot.pending /\ w = "unsynced"
  <2>1. hist' = Copied(e.l, b) /\ b \in BOOLEAN
    BY DEF KeyOutbox, Pending
  <2> HIDE DEF b
  <2>2. /\ hist' \in Histories /\ hist'.newest = hist.newest /\ hist'.excuse = hist.excuse
        /\ hist'.locked = hist.locked /\ hist.twice \subseteq hist'.twice
        /\ b => e.l \in hist'.twice
    BY <1>2, <1>3, <2>1, CopiedFacts
  <2> QED
    BY <2>2 DEF b
<1>6. ~hist.locked
  BY <1>1 DEF ComposeInv, Locked
<1>7. CASE slot.pending
  <2>1. pending' = p /\ screen' = "conflict" /\ UNCHANGED <<ui, step, slot>>
    BY <1>1, <1>7 DEF StartDraft, Pending
  <2>2. ComposeType'
    BY <1>1, <1>4, <1>5, <2>1 DEF ComposeInv, ComposeType, Entered
  <2>3. Asleep' /\ Locked' /\ Stepping'
    BY <1>1, <1>5, <1>6, <2>1 DEF ComposeInv, Asleep, Locked, Stepping, Idle
  <2>4. Asked'
    BY <1>1, <1>4, <2>1 DEF ComposeInv, Asked, Entered
  <2>5. \A l \in Letters :
           /\ Needed(l)' <=> Needed(l)
           /\ Sent(l)' <=> Sent(l)
           /\ Parked(l)' <=> Parked(l)
           /\ Open(l)' <=> Open(l)
           /\ InSlot(l, hist.newest[l])' <=> InSlot(l, hist.newest[l])
    BY <1>1, <1>5, <2>1 DEF Needed, Sent, Parked, Open, InSlot
  <2>6. WordsSafe' /\ SlotTrusted' /\ SlotIsOurs'
    BY <1>1, <2>1, <2>5 DEF ComposeInv, WordsSafe, SlotTrusted, SlotIsOurs
  <2>7. Copies'
    BY <1>1, <1>5, <2>1 DEF ComposeInv, Copies, Entered
  <2> QED
    BY <2>2, <2>3, <2>4, <2>6, <2>7 DEF ComposeInv
<1>8. CASE ~slot.pending
  <2>1. /\ pending' = NoPending /\ slot' = Save(slot, e.l, e.v, w) /\ screen' = screen
        /\ w # "done" => ui' = ui /\ step' = step
        /\ w = "done" => /\ step' = [at |-> "saved", id |-> e.id]
                         /\ ui' = [ui EXCEPT !.l = e.l, !.v = e.v]
    BY <1>1, <1>4, <1>8 DEF StartDraft, Pending
  <2>2. /\ slot' \in Draft
        /\ w = "failed" => slot' = slot
        /\ w # "failed" => slot'.l = e.l /\ slot'.v = e.v
    BY <1>2, <1>3, <2>1, SaveFacts
  <2>3. \A l \in Letters : Needed(l)' => Sent(l)'
    <3>1. \A l \in Letters : Needed(l) => Sent(l)
      BY <1>1, <1>8, FreeSlot
    <3> QED
      BY <1>1, <1>5, <3>1 DEF Needed, Sent
  <2>4. Asked'
    BY <1>1, <2>1, AppFacts DEF ComposeInv, Asked, Entered
  <2>5. CASE w = "done"
    <3>1. UiShape(ui') /\ ui'.open = ui.open /\ ui'.l = e.l /\ ui'.v = e.v
      BY <1>2, <1>3, <2>1, <2>5 DEF UiShape
    <3>2. /\ step' \in [at : {"idle", "added", "saved"}, id : Ids \cup {None}]
          /\ step'.at = "saved" /\ step'.id = e.id /\ step' # Idle
      BY <1>3, <2>1, <2>5 DEF Idle
    <3>3. slot' = [l |-> ui'.l, v |-> ui'.v, pending |-> TRUE]
      BY <1>3, <2>1, <2>5, <3>1 DEF Save
    <3>4. ComposeType'
      BY <1>1, <1>5, <2>1, <2>2, <3>1, <3>2, AppFacts DEF ComposeInv, ComposeType, Entered
    <3>5. Asleep' /\ Locked'
      BY <1>1, <1>5, <1>6 DEF Asleep, Locked
    <3>6. Stepping'
      BY <1>1, <1>3, <2>1, <3>1, <3>2, <3>3 DEF Stepping
    <3>7. Copies'
      BY <1>1, <1>5, <2>2, <2>5, <3>1, <3>2 DEF ComposeInv, Copies, Entered
    <3> QED
      BY <2>3, <2>4, <3>4, <3>5, <3>6, <3>7, AllSentKeeps
  <2>6. CASE w # "done"
    <3>1. ComposeType'
      BY <1>1, <1>5, <2>1, <2>2, <2>6, AppFacts DEF ComposeInv, ComposeType, Entered
    <3>2. Asleep' /\ Locked' /\ Stepping'
      BY <1>1, <1>5, <1>6, <2>1, <2>6 DEF ComposeInv, Asleep, Locked, Stepping, Idle
    <3>3. Copies'
      BY <1>1, <1>5, <1>8, <2>1, <2>2, <2>6 DEF ComposeInv, Copies, Entered, WriteOutcomes
    <3> QED
      BY <2>3, <2>4, <3>1, <3>2, <3>3, AllSentKeeps
  <2> QED
    BY <2>5, <2>6
<1> QED
  BY <1>2, <1>7, <1>8

\* The entry goes once the slot has its words.
LEMMA RetireKeeps ==
  ASSUME ComposeInv, NEW w \in WriteOutcomes, Retire(w)
  PROVE  ComposeInv'
<1> DEFINE b == w # "done"
<1>1. /\ step.at = "saved" /\ step' = Idle /\ screen' = "write"
      /\ ui' = [ui EXCEPT !.open = TRUE, !.l = ui.l, !.v = ui.v]
      /\ files' = IF w = "failed" THEN files ELSE {f \in files : f.id # step.id}
      /\ outbox' = IF w = "done" THEN {f \in outbox : f.id # step.id} ELSE outbox
      /\ hist' = Copied(ui.l, b)
      /\ UNCHANGED <<awake, pending, slot>>
  BY DEF Retire, OpenCompose, Erase
<1>2. step # Idle
  BY <1>1 DEF Idle
<1>3. /\ awake /\ screen # "write" /\ pending = NoPending /\ ui.l \in Letters
      /\ slot.l = ui.l /\ slot.v = ui.v /\ slot.pending
      /\ ~hist.locked
  BY <1>1, <1>2 DEF ComposeInv, Asleep, Stepping, Locked
<1>4. PICK e \in outbox : e.id = step.id /\ e.l = ui.l /\ e.v = ui.v
  BY <1>1 DEF ComposeInv, Stepping
<1>5. hist \in Histories /\ UiShape(ui) /\ Entered \subseteq Entries
  BY DEF ComposeInv, ComposeType
<1>6. UiShape(ui') /\ ui'.open = TRUE /\ ui'.l = ui.l /\ ui'.v = ui.v
  BY <1>1, <1>5 DEF UiShape
<1>7. /\ hist' \in Histories /\ hist'.newest = hist.newest /\ hist'.excuse = hist.excuse
      /\ hist'.locked = hist.locked /\ hist.twice \subseteq hist'.twice
      /\ w # "done" => ui.l \in hist'.twice
  <2>1. ui.l \in Letters /\ b \in BOOLEAN
    BY <1>3
  <2> HIDE DEF b
  <2>2. /\ hist' \in Histories /\ hist'.newest = hist.newest /\ hist'.excuse = hist.excuse
        /\ hist'.locked = hist.locked /\ hist.twice \subseteq hist'.twice
        /\ b => ui.l \in hist'.twice
    BY <1>1, <1>5, <2>1, CopiedFacts
  <2> QED
    BY <2>2 DEF b
<1> HIDE DEF b
<1>8. /\ outbox' \subseteq outbox /\ files' \subseteq files
      /\ \A f \in outbox : f \in outbox' \/ (f.l = ui.l /\ f.v = ui.v)
      /\ \A f \in files : f \in files' \/ (f.l = ui.l /\ f.v = ui.v)
      /\ w = "done" => \A f \in Entered' : f.id # step.id
  BY <1>1, <1>4 DEF ComposeInv, Asked, Entered
<1>9. ComposeType'
  BY <1>1, <1>5, <1>6, <1>7, <1>8, AppFacts DEF ComposeInv, ComposeType, Entered
<1>10. Asleep' /\ Locked' /\ Stepping'
  BY <1>1, <1>3, <1>6, <1>7, AppFacts DEF Asleep, Locked, Stepping
<1>11. Asked'
  BY <1>1, <1>3, <1>8, AppFacts DEF ComposeInv, Asked, Entered
<1>12. ASSUME NEW l \in Letters, Needed(l)' PROVE Sent(l)' \/ (Open(l)' /\ Parked(l)')
  <2>1. Needed(l) /\ hist'.newest[l] = hist.newest[l]
    BY <1>7, <1>12 DEF Needed
  <2>2. Sent(l) \/ Parked(l)
    BY <1>3, <2>1 DEF ComposeInv, WordsSafe
  <2>3. CASE l = ui.l /\ hist.newest[l] = ui.v
    BY <1>1, <1>3, <1>6, <2>1, <2>3 DEF Parked, Open, InSlot
  <2>4. CASE Parked(l)
    <3>1. l = ui.l /\ hist.newest[l] = ui.v
      BY <1>3, <2>4 DEF Parked, InSlot
    <3> QED
      BY <2>3, <3>1
  <2>5. CASE Sent(l) /\ ~(l = ui.l /\ hist.newest[l] = ui.v)
    BY <1>8, <2>1, <2>5 DEF Sent
  <2> QED
    BY <2>2, <2>3, <2>4, <2>5
<1>13. WordsSafe' /\ SlotTrusted' /\ SlotIsOurs'
  BY <1>12 DEF WordsSafe, SlotTrusted, SlotIsOurs
<1>14. \A f \in Entered' : f.l = ui.l => f.l \in hist'.twice
  <2>1. CASE w = "done"
    BY <1>4, <1>7, <1>8, <2>1 DEF ComposeInv, Copies, Entered
  <2>2. CASE w # "done"
    BY <1>7, <2>2
  <2> QED
    BY <2>1, <2>2
<1>15. Copies'
  BY <1>1, <1>3, <1>6, <1>7, <1>8, <1>14 DEF ComposeInv, Copies, Entered
<1> QED
  BY <1>9, <1>10, <1>11, <1>13, <1>15 DEF ComposeInv

---------------------------------------------------------------------------
(* The prompt *)

\* KeepPendingDraft: the slot's words come back to the screen.
LEMMA ConflictKeepKeeps ==
  ASSUME ComposeInv, Named, NEW loads \in BOOLEAN, ConflictKeep(loads)
  PROVE  ComposeInv'
<1>1. /\ awake /\ step = Idle /\ screen = "conflict" /\ pending' = NoPending
      /\ UNCHANGED <<awake, step, slot, outbox, files, hist>>
  BY DEF ConflictKeep, Key
<1>2. hist \in Histories /\ UiShape(ui) /\ slot \in Draft /\ ~hist.locked
  BY <1>1 DEF ComposeInv, ComposeType, Locked
<1>3. \A m \in Letters : Needed(m) => Sent(m) \/ Parked(m)
  BY <1>1 DEF ComposeInv, WordsSafe
<1>4. Asked'
  BY <1>1, AppFacts DEF ComposeInv, Asked, Entered
<1>5. \A m \in Letters :
         /\ Needed(m)' <=> Needed(m)
         /\ Sent(m)' <=> Sent(m)
         /\ Parked(m)' <=> Parked(m)
  BY <1>1 DEF Needed, Sent, Parked, InSlot
<1>6. WordsSafe' /\ SlotTrusted'
  BY <1>3, <1>5 DEF WordsSafe, SlotTrusted
<1>7. Asleep' /\ Locked'
  BY <1>1, <1>2 DEF ComposeInv, Asleep, Locked
<1>8. CASE loads /\ slot.v > 0
  <2>1. ui' = [ui EXCEPT !.open = TRUE, !.l = slot.l, !.v = slot.v] /\ screen' = "write"
    BY <1>8 DEF ConflictKeep, OpenCompose
  <2>2. slot.l \in Letters /\ slot.l \in Owners /\ slot.v \in Versions
    BY <1>2, <1>8 DEF Named, Draft, Owners, Versions
  <2>3. UiShape(ui') /\ ui'.open = TRUE /\ ui'.l = slot.l /\ ui'.v = slot.v
    BY <1>2, <2>1, <2>2 DEF UiShape
  <2>4. ComposeType'
    BY <1>1, <2>3, AppFacts DEF ComposeInv, ComposeType, Entered
  <2>5. Stepping'
    BY <1>1, <2>1, <2>2, <2>3, AppFacts DEF Stepping
  <2>6. \A m \in Letters : Parked(m) => Open(m)'
    BY <1>1, <2>3 DEF Parked, InSlot, Open
  <2>7. SlotIsOurs'
    BY <1>3, <1>5, <2>6 DEF SlotIsOurs
  <2>8. Copies'
    BY <1>1, <1>8, <2>3 DEF ComposeInv, Copies, Entered
  <2> QED
    BY <1>4, <1>6, <1>7, <2>4, <2>5, <2>7, <2>8 DEF ComposeInv
<1>9. CASE ~(loads /\ slot.v > 0)
  <2>1. ui' = ui /\ screen' = "inbox"
    BY <1>9 DEF ConflictKeep
  <2>2. ComposeType'
    BY <1>1, <2>1, AppFacts DEF ComposeInv, ComposeType, Entered
  <2>3. Stepping'
    BY <1>1, <2>1, AppFacts DEF ComposeInv, Stepping
  <2>4. SlotIsOurs'
    BY <1>1, <1>5, <2>1 DEF ComposeInv, SlotIsOurs, Open
  <2>5. Copies'
    BY <1>1, <2>1 DEF ComposeInv, Copies, Entered
  <2> QED
    BY <1>4, <1>6, <1>7, <2>2, <2>3, <2>4, <2>5 DEF ComposeInv
<1> QED
  BY <1>8, <1>9

\* An acknowledgement while anything is on the screen: a sent letter needs no copy.
LEMMA ResolveKeeps ==
  ASSUME ComposeInv, NEW e \in outbox, NEW sent \in BOOLEAN, NEW w \in WriteOutcomes,
         Resolve(e, sent, w)
  PROVE  ComposeInv'
<1>1. /\ step = Idle /\ ~e.rejected
      /\ UNCHANGED <<awake, screen, ui, pending, step, slot>>
  BY DEF Resolve
<1>2. hist \in Histories /\ Entered \subseteq Entries /\ e \in Entries
  BY DEF ComposeInv, ComposeType, Entered
<1>3. e.l \in Letters /\ e.v > 0
  BY EntryFacts
<1>4. /\ \A f, g \in Entered : f.id = g.id => f.l = g.l /\ f.v = g.v
      /\ \A f, g \in outbox : f.id = g.id => f = g
      /\ \A f, g \in files : f.id = g.id => f = g
      /\ e \in Entered
  BY DEF ComposeInv, Asked, Entered
<1>5. ~awake => outbox = files
  BY DEF ComposeInv, Asleep
<1>6. CASE ~sent
  <2> DEFINE r == [e EXCEPT !.rejected = TRUE]
             Marked(S) == {f \in S : f.id # e.id} \cup {r}
  <2>1. /\ files' = IF w = "failed" THEN files ELSE Marked(files)
        /\ outbox' = IF awake THEN Marked(outbox) ELSE files'
        /\ hist' = hist
    BY <1>6 DEF Resolve
  <2>2. r \in Entries /\ r.id = e.id /\ r.l = e.l /\ r.v = e.v
    BY <1>2 DEF Entries
  <2> HIDE DEF r
  <2>3. /\ Entered' \subseteq Entered \cup {r}
        /\ \A f \in Entered' : \E g \in Entered : f.id = g.id /\ f.l = g.l /\ f.v = g.v
    BY <1>4, <2>1, <2>2 DEF Entered
  <2>4. /\ \A f \in outbox : \E g \in outbox' : f.l = g.l /\ f.v = g.v
        /\ \A f \in files : \E g \in files' : f.l = g.l /\ f.v = g.v
    <3>1. \A f \in Entered : f.id = e.id => f.l = r.l /\ f.v = r.v
      BY <1>4, <2>2
    <3>2. \A S \in {outbox, files} : \A f \in S : \E g \in Marked(S) : f.l = g.l /\ f.v = g.v
      BY <3>1 DEF Entered
    <3> HIDE DEF Marked
    <3> QED
      BY <1>5, <2>1, <3>2
  <2>5. ComposeType' /\ Asleep' /\ Locked'
    BY <1>1, <1>2, <2>1, <2>2, <2>3 DEF ComposeInv, ComposeType, Asleep, Locked
  <2>6. Stepping'
    BY <1>1, AppFacts DEF ComposeInv, Stepping
  <2>7. Asked'
    <3>1. \A f, g \in Entered' : f.id = g.id => f.l = g.l /\ f.v = g.v
      BY <1>4, <2>3
    <3>2. /\ \A f, g \in files' : f.id = g.id => f = g
          /\ \A f, g \in outbox' : f.id = g.id => f = g
      BY <1>4, <2>1, <2>2
    <3>3. pending.kind = "recompose" => awake
      BY AppFacts DEF ComposeInv, Asleep
    <3>4. awake => \A f \in outbox : f.rejected => f \in outbox'
      BY <1>1, <1>4, <2>1
    <3>5. \A f \in Entered' : \E g \in Entered : f.l = g.l
      BY <2>3
    <3> QED
      BY <1>1, <3>1, <3>2, <3>3, <3>4, <3>5 DEF ComposeInv, Asked
  <2>8. \A m \in Letters :
           /\ Needed(m)' <=> Needed(m)
           /\ Sent(m) => Sent(m)'
           /\ Parked(m)' <=> Parked(m)
           /\ Open(m)' <=> Open(m)
           /\ InSlot(m, hist.newest[m])' <=> InSlot(m, hist.newest[m])
    BY <1>1, <2>1, <2>4 DEF Needed, Sent, Parked, Open, InSlot
  <2>9. WordsSafe' /\ SlotTrusted' /\ SlotIsOurs'
    BY <1>1, <2>8 DEF ComposeInv, WordsSafe, SlotTrusted, SlotIsOurs
  <2>10. Copies'
    BY <1>1, <2>1, <2>3 DEF ComposeInv, Copies
  <2> QED
    BY <2>5, <2>6, <2>7, <2>9, <2>10 DEF ComposeInv
<1>7. CASE sent
  <2> DEFINE base == IF hist.newest[e.l] = e.v THEN Renewed(hist, e.l, 0) ELSE hist
             T == IF w = "done" THEN StillTwice(e) ELSE base.twice
  <2>1. /\ files' = IF w = "failed" THEN files ELSE {f \in files : f.id # e.id}
        /\ outbox' = IF ~awake THEN files'
                     ELSE IF w = "done" THEN {f \in outbox : f.id # e.id} ELSE outbox
        /\ hist' = [base EXCEPT !.twice = T]
    BY <1>7 DEF Resolve, Renewed
  <2>2. /\ base \in Histories /\ base.locked = hist.locked /\ base.twice = hist.twice
        /\ \A m \in Letters :
             /\ base.newest[m] = hist.newest[m] \/ base.newest[m] = 0
             /\ base.excuse[m] = hist.excuse[m] \/ base.newest[m] = 0
             /\ m = e.l => base.newest[m] # e.v
    <3>1. 0 \in Versions
      BY ComposeAssumption DEF Versions
    <3>2. CASE hist.newest[e.l] = e.v
      <4>1. LET g == Renewed(hist, e.l, 0)
            IN  /\ g \in Histories /\ g.locked = hist.locked /\ g.twice = hist.twice
                /\ \A m \in Letters : /\ g.newest[m] = IF m = e.l THEN 0 ELSE hist.newest[m]
                                      /\ g.excuse[m] = IF m = e.l THEN "none" ELSE hist.excuse[m]
        <5>1. hist \in Histories
          BY <1>2
        <5>2. e.l \in Letters
          BY <1>3
        <5> QED
          BY <3>1, <5>1, <5>2, NewestFacts
      <4>2. base = Renewed(hist, e.l, 0)
        BY <3>2
      <4> HIDE DEF base
      <4> QED
        BY <1>3, <4>1, <4>2
    <3>3. CASE hist.newest[e.l] # e.v
      BY <1>2, <3>3
    <3> QED
      BY <3>2, <3>3
  <2> HIDE DEF base
  <2>3. T \in SUBSET Owners
    BY <1>2, <2>2, HistFacts DEF StillTwice
  <2>4. \A f \in Entered' : f \in Entered /\ (f.l \in hist.twice => f.l \in T)
    <3>1. Entered' \subseteq Entered
      BY <2>1 DEF Entered
    <3>2. CASE w = "done"
      <4>1. \A f \in Entered' : f.id # e.id
        BY <1>5, <2>1, <3>2 DEF Entered
      <4> QED
        BY <3>1, <3>2, <4>1 DEF StillTwice
    <3>3. CASE w # "done"
      BY <2>2, <3>1, <3>3
    <3> QED
      BY <3>2, <3>3
  <2> HIDE DEF T
  <2>5. /\ hist' \in Histories /\ hist'.newest = base.newest /\ hist'.excuse = base.excuse
        /\ hist'.twice = T /\ hist'.locked = base.locked
    BY <2>1, <2>2, <2>3, TwiceFacts
  <2>6. ComposeType'
    BY <1>1, <2>4, <2>5 DEF ComposeInv, ComposeType
  <2>7. Asleep' /\ Locked' /\ Stepping'
    BY <1>1, <2>1, <2>2, <2>5, AppFacts DEF ComposeInv, Asleep, Locked, Stepping
  <2>8. Asked'
    <3>1. /\ \A f, g \in files' : f.id = g.id => f = g
          /\ \A f, g \in outbox' : f.id = g.id => f = g
          /\ \A f, g \in Entered' : f.id = g.id => f.l = g.l /\ f.v = g.v
      BY <1>4, <2>1, <2>4
    <3>2. pending.kind = "recompose" => awake
      BY AppFacts DEF ComposeInv, Asleep
    <3>3. awake => \A f \in outbox : f.rejected => f \in outbox'
      BY <1>1, <1>4, <2>1
    <3> QED
      BY <1>1, <2>4, <3>1, <3>2, <3>3 DEF ComposeInv, Asked
  <2>9. ASSUME NEW m \in Letters, Needed(m)'
        PROVE  /\ Needed(m) /\ hist'.newest[m] = hist.newest[m]
               /\ Sent(m) => Sent(m)'
               /\ Parked(m)' <=> Parked(m)
               /\ Open(m)' <=> Open(m)
               /\ InSlot(m, hist.newest[m])' <=> InSlot(m, hist.newest[m])
    <3>1. Needed(m) /\ hist'.newest[m] = hist.newest[m] /\ (m = e.l => hist.newest[m] # e.v)
      BY <2>2, <2>5, <2>9 DEF Needed
    <3>2. \A f \in Entered : f.l = m /\ f.v = hist.newest[m] => f.id # e.id
      BY <1>4, <3>1
    <3>3. Sent(m) => Sent(m)'
      BY <1>5, <2>1, <3>1, <3>2 DEF Sent, Entered
    <3> QED
      BY <1>1, <3>1, <3>3 DEF Parked, Open, InSlot
  <2>10. WordsSafe' /\ SlotTrusted' /\ SlotIsOurs'
    BY <1>1, <2>9 DEF ComposeInv, WordsSafe, SlotTrusted, SlotIsOurs
  <2>11. Copies'
    BY <1>1, <2>4, <2>5 DEF ComposeInv, Copies
  <2> QED
    BY <2>6, <2>7, <2>8, <2>10, <2>11 DEF ComposeInv
<1> QED
  BY <1>6, <1>7

\* What the child lets go is no longer needed; all else is in the outbox, or
\* in a slot that could not be discarded.
LEMMA ConflictDropKeeps ==
  ASSUME ComposeInv, Named, NEW l \in Letters, NEW d \in WriteOutcomes,
         NEW w \in WriteOutcomes, ConflictDrop(l, d, w)
  PROVE  ComposeInv'
<1> DEFINE asked == IF pending.kind = "none" THEN [NoPending EXCEPT !.l = l] ELSE pending
           after == Discard(d)
           dropped == slot.l # None /\ after.l = None
           copied == asked.kind = "recompose" /\ ~after.pending /\ w = "unsynced"
           base == IF dropped THEN Renewed(hist, slot.l, 0) ELSE hist
           T == IF copied THEN base.twice \cup {asked.l} ELSE base.twice
<1>1. /\ awake /\ step = Idle /\ screen = "conflict"
      /\ hist' = [base EXCEPT !.twice = T]
      /\ UNCHANGED <<awake, outbox, files>>
  BY DEF ConflictDrop, Key, Renewed
<1>2. /\ hist \in Histories /\ slot \in Draft /\ UiShape(ui) /\ slot.pending \in BOOLEAN
      /\ pending \in [kind : PendingKinds, l : Owners, v : Versions, id : Ids \cup {None}]
      /\ Entered \subseteq Entries
  BY DEF ComposeInv, ComposeType, Draft
<1>16. /\ asked.l \in Owners /\ asked.v \in Versions /\ asked.id \in Ids \cup {None}
       /\ asked.kind \in PendingKinds
       /\ asked.kind = "resume" <=> pending.kind = "resume"
       /\ asked.kind = "recompose" =>
            \E e \in outbox : e.id = asked.id /\ e.l = asked.l /\ e.v = asked.v
       /\ asked.kind \in {"new", "none"} =>
            asked.l \in Letters /\ asked.v = 0 /\ \A e \in Entered : e.l # asked.l
  <2>1. CASE pending.kind = "none"
    <3>1. asked = [NoPending EXCEPT !.l = l]
      BY <2>1
    <3>2. asked.kind = "none" /\ asked.l = l /\ asked.v = 0 /\ asked.id = None
      BY <3>1 DEF NoPending
    <3>3. \A e \in Entered : e.l # l
      BY <2>1 DEF ConflictDrop, Unwritten
    <3>4. 0 \in Versions /\ l \in Owners /\ "none" \in PendingKinds
      BY ComposeAssumption DEF Versions, Owners, PendingKinds
    <3> HIDE DEF asked
    <3> QED
      BY <2>1, <3>2, <3>3, <3>4
  <2>2. CASE pending.kind # "none"
    <3>1. asked = pending
      BY <2>2
    <3> HIDE DEF asked
    <3> QED
      BY <1>2, <2>2, <3>1 DEF ComposeInv, Asked
  <2> QED
    BY <2>1, <2>2
<1>3. ~hist.locked
  BY <1>1 DEF ComposeInv, Locked
<1>17. IF asked.kind = "resume"
       THEN /\ slot' = after /\ ui' = Closed /\ screen' = "inbox"
            /\ pending' = NoPending /\ UNCHANGED step
       ELSE /\ pending' = IF after.pending THEN pending ELSE NoPending
            /\ slot' = IF after.pending THEN after ELSE Save(after, asked.l, asked.v, w)
            /\ step' = IF ~after.pending /\ w = "done" /\ asked.kind = "recompose"
                       THEN [at |-> "saved", id |-> asked.id] ELSE step
            /\ ui' = IF ~after.pending /\ w = "done"
                     THEN [Closed EXCEPT !.l = asked.l, !.v = asked.v,
                             !.open = asked.kind \in {"new", "none"}] ELSE Closed
            /\ screen' = IF after.pending \/ w # "done" \/ asked.kind \notin {"new", "none"}
                         THEN "conflict" ELSE IF asked.kind = "new" THEN "write" ELSE "pick"
  BY DEF ConflictDrop
<1>4. /\ after \in Draft
      /\ \/ after = slot /\ d = "failed"
         \/ /\ after.l = None /\ after.v = 0
            /\ after.pending => slot.pending /\ slot.l # None
  BY <1>2, DiscardFacts
<1> HIDE DEF after, asked
<1>5. /\ base \in Histories /\ base.locked = hist.locked /\ base.twice = hist.twice
      /\ \A m \in Letters :
           /\ base.newest[m] = hist.newest[m] \/ base.newest[m] = 0
           /\ base.excuse[m] = hist.excuse[m] \/ base.newest[m] = 0
           /\ dropped /\ m = slot.l => base.newest[m] = 0
  <2>1. CASE dropped
    <3>1. 0 \in Versions /\ slot.l \in Letters
      BY <1>2, <2>1, ComposeAssumption DEF Versions, Draft
    <3>2. LET g == Renewed(hist, slot.l, 0)
          IN  /\ g \in Histories /\ g.locked = hist.locked /\ g.twice = hist.twice
              /\ \A m \in Letters : /\ g.newest[m] = IF m = slot.l THEN 0 ELSE hist.newest[m]
                                    /\ g.excuse[m] = IF m = slot.l THEN "none" ELSE hist.excuse[m]
      <4>1. hist \in Histories
        BY <1>2
      <4>2. slot.l \in Letters
        BY <3>1
      <4> QED
        BY <3>1, <4>1, <4>2, NewestFacts
    <3>3. base = Renewed(hist, slot.l, 0)
      BY <2>1
    <3> HIDE DEF base
    <3> QED
      BY <3>2, <3>3
  <2>2. CASE ~dropped
    BY <1>2, <2>2
  <2> QED
    BY <2>1, <2>2
<1>6. T \in SUBSET Owners /\ base.twice \subseteq T /\ (copied => asked.l \in T)
  <2>1. base.twice \subseteq Owners /\ asked.l \in Owners
    BY <1>5, <1>16, HistFacts
  <2> HIDE DEF base, copied
  <2> QED
    BY <2>1
<1> HIDE DEF base, T
<1>7. /\ hist' \in Histories /\ hist'.newest = base.newest /\ hist'.excuse = base.excuse
      /\ hist'.twice = T /\ hist'.locked = base.locked
  BY <1>1, <1>5, <1>6, TwiceFacts
<1>8. ASSUME NEW m \in Letters, Needed(m)'
      PROVE  Sent(m)' \/ (after = slot /\ InSlot(m, hist'.newest[m]) /\ after.pending)
  <2>1. Needed(m) /\ hist'.newest[m] = hist.newest[m] /\ ~(dropped /\ m = slot.l)
    BY <1>5, <1>7, <1>8 DEF Needed
  <2>2. Sent(m) \/ Parked(m)
    BY <1>1, <2>1 DEF ComposeInv, WordsSafe
  <2>3. CASE Sent(m)
    BY <1>1, <2>1, <2>3 DEF Sent
  <2>4. CASE Parked(m)
    <3>1. slot.l = m /\ slot.v = hist.newest[m] /\ slot.pending /\ m # None
      BY <1>1, <2>4, ComposeAssumption DEF Parked, InSlot
    <3>2. after = slot
      BY <1>4, <2>1, <3>1
    <3> QED
      BY <2>1, <3>1, <3>2 DEF InSlot
  <2> QED
    BY <2>2, <2>3, <2>4
<1>9. Asleep' /\ Locked'
  BY <1>1, <1>3, <1>5, <1>7 DEF ComposeInv, Asleep, Locked
<1>10. after.v > 0 => after = slot
  BY <1>4
<1>11. \A e, f \in Entered : e.id # f.id /\ e.l = f.l => e.l \in hist'.twice
  BY <1>5, <1>6, <1>7 DEF ComposeInv, Copies
<1>12. \A e \in Entered : slot.v > 0 /\ slot.l = e.l => e.l \in hist'.twice
  BY <1>1, <1>5, <1>6, <1>7 DEF ComposeInv, Copies
<1>13. UiShape(Closed) /\ ~Closed.open /\ Closed.l = None /\ Closed.v = 0
  <2>1. None \in Owners /\ 0 \in Versions
    BY ComposeAssumption DEF Owners, Versions
  <2>2. Closed = [ui EXCEPT !.open = FALSE, !.l = None, !.v = 0]
    BY DEF Closed
  <2> QED
    BY <1>2, <2>1, <2>2 DEF UiShape
<1>14. CASE asked.kind = "resume" \/ after.pending
  <2>1. /\ slot' = after /\ ui' = Closed /\ screen' \in {"inbox", "conflict"} /\ step' = step
        /\ pending' = NoPending \/ pending' = pending
    BY <1>14, <1>17
  <2>2. ComposeType'
    BY <1>1, <1>2, <1>4, <1>7, <1>13, <2>1, AppFacts DEF ComposeInv, ComposeType, Entered
  <2>3. Stepping'
    BY <1>1, <1>13, <2>1, AppFacts DEF Stepping
  <2>4. Asked'
    BY <1>1, <1>13, <2>1, AppFacts DEF ComposeInv, Asked, Entered
  <2>5. SavedAll'
    BY <1>1, <1>8, <2>1 DEF SavedAll, Parked, InSlot
  <2>6. WordsSafe' /\ SlotTrusted'
    BY <2>5, SavedSuffices, PTL
  <2>7. SlotIsOurs'
    BY <1>13, <2>1 DEF SlotIsOurs
  <2>8. Copies'
    BY <1>1, <1>10, <1>11, <1>12, <1>13, <2>1 DEF Copies, Entered
  <2> QED
    BY <1>9, <2>2, <2>3, <2>4, <2>6, <2>7, <2>8 DEF ComposeInv
<1>15. CASE asked.kind # "resume" /\ ~after.pending
  <2> DEFINE opens == asked.kind \in {"new", "none"}
  <2>1. /\ pending' = NoPending /\ slot' = Save(after, asked.l, asked.v, w)
        /\ step' = IF w = "done" /\ asked.kind = "recompose"
                   THEN [at |-> "saved", id |-> asked.id] ELSE step
        /\ ui' = IF w = "done" THEN [Closed EXCEPT !.l = asked.l, !.v = asked.v,
                                       !.open = opens] ELSE Closed
        /\ screen' \in {"conflict", "write", "pick"}
        /\ screen' = "write" => w = "done" /\ opens
        /\ w = "done" /\ ~opens => screen' = "conflict"
    BY <1>15, <1>17
  <2>2. \A m \in Letters : Needed(m)' => Sent(m)'
    BY <1>8, <1>15
  <2>3. Asked'
    BY <1>1, <2>1, AppFacts DEF ComposeInv, Asked, Entered
  <2>4. opens \in BOOLEAN
    OBVIOUS
  <2> HIDE DEF opens
  <2>5. /\ slot' \in Draft
        /\ w = "failed" => slot' = after
        /\ w # "failed" => slot'.l = asked.l /\ slot'.v = asked.v
    BY <1>4, <1>16, <2>1, SaveFacts
  <2>6. /\ UiShape(ui')
        /\ w = "done" => ui'.l = asked.l /\ ui'.v = asked.v /\ ui'.open = opens
        /\ w # "done" => ~ui'.open
    <3>1. CASE w = "done"
      <4>1. ui' = [Closed EXCEPT !.l = asked.l, !.v = asked.v, !.open = opens]
        BY <2>1, <3>1
      <4>2. UiShape(ui') /\ ui'.l = asked.l /\ ui'.v = asked.v /\ ui'.open = opens
        BY <1>13, <1>16, <2>4, <4>1 DEF UiShape
      <4> QED
        BY <3>1, <4>2
    <3>2. CASE w # "done"
      BY <1>13, <2>1, <3>2
    <3> QED
      BY <3>1, <3>2
  <2>7. CASE w = "done" /\ asked.kind = "recompose"
    <3>1. PICK e \in outbox : e.id = asked.id /\ e.l = asked.l /\ e.v = asked.v
      BY <1>16, <2>7
    <3>2. e.l \in Letters /\ e.v > 0
      BY EntryFacts
    <3>3. /\ step' \in [at : {"idle", "added", "saved"}, id : Ids \cup {None}]
          /\ step'.at = "saved" /\ step'.id = asked.id /\ step' # Idle
      BY <1>16, <2>1, <2>7 DEF Idle
    <3>4. slot' = [l |-> ui'.l, v |-> ui'.v, pending |-> TRUE]
      BY <2>1, <2>6, <2>7, <3>1, <3>2 DEF Save
    <3>5. ComposeType'
      BY <1>1, <1>2, <1>7, <2>1, <2>5, <2>6, <3>3, AppFacts DEF ComposeInv, ComposeType, Entered
    <3>6. ~opens
      BY <2>7 DEF opens
    <3>7. Stepping'
      BY <1>1, <2>1, <2>6, <2>7, <3>1, <3>2, <3>3, <3>4, <3>6 DEF Stepping
    <3>8. Copies'
      BY <1>1, <1>11, <2>5, <2>6, <2>7, <3>3 DEF Copies, Entered
    <3> QED
      BY <1>9, <2>2, <2>3, <3>5, <3>7, <3>8, AllSentKeeps
  <2>8. CASE ~(w = "done" /\ asked.kind = "recompose")
    <3>1. step' = Idle
      BY <1>1, <2>1, <2>8
    <3>2. ComposeType'
      BY <1>1, <1>2, <1>7, <2>1, <2>5, <2>6, <3>1, AppFacts DEF ComposeInv, ComposeType, Entered
    <3>3. ui'.open => asked.l \in Letters /\ ui'.l = asked.l
      BY <1>16, <2>6 DEF opens
    <3>4. Stepping'
      BY <1>1, <2>1, <2>6, <3>1, <3>3, AppFacts DEF Stepping
    <3>5. ui'.open => \A e \in Entered : e.l # ui'.l
      BY <1>16, <2>6, <3>3 DEF opens
    <3>6. \A e \in Entered : slot'.v > 0 /\ slot'.l = e.l => e.l \in hist'.twice
      <4>1. CASE w = "failed"
        BY <1>10, <1>12, <2>5, <4>1
      <4>2. CASE w # "failed" /\ asked.kind # "recompose"
        BY <1>15, <1>16, <2>5, <4>2 DEF PendingKinds
      <4>3. CASE w = "unsynced" /\ asked.kind = "recompose"
        BY <1>6, <1>7, <1>15, <2>5, <4>3
      <4> QED
        BY <2>8, <4>1, <4>2, <4>3 DEF WriteOutcomes
    <3>7. Copies'
      BY <1>1, <1>11, <3>1, <3>5, <3>6 DEF Copies, Entered
    <3> QED
      BY <1>9, <2>2, <2>3, <3>2, <3>4, <3>7, AllSentKeeps
  <2> QED
    BY <2>7, <2>8
<1> QED
  BY <1>14, <1>15

---------------------------------------------------------------------------
(* Every step *)

\* Every write of the slot and every prompt names its letter.
LEMMA NamedKeeps ==
  ASSUME ComposeInv, Named, Next
  PROVE  Named'
<1>1. slot \in Draft /\ UiShape(ui) /\ ui.l \in Owners /\ ui.v \in Versions
      /\ pending \in [kind : PendingKinds, l : Owners, v : Versions, id : Ids \cup {None}]
  BY UiFacts DEF ComposeInv, ComposeType
<1>2. NoPending.v = 0 /\ [NoPending EXCEPT !.kind = "resume"].kind = "resume"
  BY DEF NoPending
<1>3. ASSUME NEW s \in Draft, NEW l \in Owners, NEW v \in Versions, NEW w \in WriteOutcomes,
             s.v > 0 => s.l # None, v > 0 => l # None, slot' = Save(s, l, v, w)
      PROVE  slot'.v > 0 => slot'.l # None
  BY <1>3, SaveFacts
<1>4. ASSUME NEW w \in WriteOutcomes, AutosaveDraft(w)
      PROVE  slot'.v > 0 => slot'.l # None
  <2>1. CASE ~ui.open
    BY <1>4, <2>1 DEF AutosaveDraft, Named
  <2>2. CASE ui.open
    <3>1. ui.l # None
      BY <2>2, ComposeAssumption DEF ComposeInv, Stepping
    <3>2. slot' = Save(slot, ui.l, ui.v, w)
      BY <1>4, <2>2 DEF AutosaveDraft
    <3> QED
      BY <1>1, <1>3, <3>1, <3>2 DEF Named
  <2> QED
    BY <2>1, <2>2
<1>5. ASSUME NEW p, NEW w \in WriteOutcomes, StartDraft(p, w), p.kind # "none",
             p.l \in Letters, p.v \in Versions
      PROVE  Named'
  <2>1. CASE slot.pending
    BY <1>5, <2>1 DEF StartDraft, Pending, Named
  <2>2. CASE ~slot.pending
    <3>1. pending' = NoPending /\ slot' = Save(slot, p.l, p.v, w)
      BY <1>5, <2>2 DEF StartDraft, Pending
    <3>2. p.l \in Owners /\ p.l # None
      BY <1>5, ComposeAssumption DEF Owners
    <3> QED
      BY <1>1, <1>2, <1>3, <1>5, <3>1, <3>2 DEF Named
  <2> QED
    BY <2>1, <2>2
<1>6. CASE slot' = slot /\ (pending' = pending \/ pending' = NoPending
                              \/ pending' = [NoPending EXCEPT !.kind = "resume"])
  BY <1>2, <1>6 DEF Named
<1>7. ASSUME NEW initial \in {"cover", "inbox"}, Start(initial) PROVE Named'
  <2>1. slot' = [slot EXCEPT !.pending = slot.v > 0]
    BY <1>7 DEF Start, ReadSlot
  <2>2. slot'.l = slot.l /\ slot'.v = slot.v
    BY <1>1, <2>1 DEF Draft
  <2>3. pending' = pending \/ pending' = [NoPending EXCEPT !.kind = "resume"]
    BY <1>7 DEF Start, OfferOr
  <2> QED
    BY <1>2, <2>2, <2>3 DEF Named
<1>8. CASE \/ PowerCut \/ TickUnlock \/ TickBackoff \/ (\E k \in Faults : ShowFault(k))
           \/ KeyCover \/ (\E right \in BOOLEAN : KeyPin(right)) \/ KeyTab \/ KeyMove
           \/ KeyFault \/ (\E v \in 0..MaxVersion : Edit(v)) \/ PushPin
           \/ (\E loads \in BOOLEAN : ConflictKeep(loads))
  <2>1. slot' = slot /\ (pending' = pending \/ pending' = NoPending
                           \/ pending' = [NoPending EXCEPT !.kind = "resume"])
    BY <1>8 DEF PowerCut, Darken, TickUnlock, TickBackoff, ShowFault, KeyCover, KeyPin, KeyTab,
                KeyMove, Go, KeyFault, Edit, PushPin, OfferOr, ConflictKeep
  <2> QED
    BY <1>6, <2>1
<1>9. ASSUME NEW w \in WriteOutcomes,
             Wipe(w) \/ TickAutosave(w) \/ KeyPickAttach(w) \/ KeyWriteBack(w) \/ SendFull(w)
      PROVE  Named'
  <2>1. AutosaveDraft(w) /\ (pending' = pending \/ pending' = NoPending)
    BY <1>9 DEF Wipe, Darken, TickAutosave, KeyPickAttach, KeyWriteBack, SendFull
  <2> QED
    BY <1>2, <1>4, <2>1 DEF Named
<1>10. ASSUME NEW w \in WriteOutcomes, NEW l \in Letters, KeyPickNew(l, w) PROVE Named'
  <2> DEFINE p == [NoPending EXCEPT !.kind = "new", !.l = l]
  <2>1. StartDraft(p, w) /\ p.kind = "new" /\ p.l = l /\ p.v = 0 /\ 0 \in Versions
    BY <1>10, ComposeAssumption DEF KeyPickNew, NoPending, Versions
  <2> HIDE DEF p
  <2> QED
    BY <1>5, <2>1
<1>11. ASSUME NEW w \in WriteOutcomes, NEW e \in outbox, KeyOutbox(e, w) PROVE Named'
  <2> DEFINE p == [kind |-> "recompose", l |-> e.l, v |-> e.v, id |-> e.id]
  <2>1. /\ StartDraft(p, w) /\ p.kind = "recompose" /\ p.l = e.l /\ p.v = e.v
        /\ e.l \in Letters /\ e.v \in Versions
    BY <1>11, EntryFacts DEF KeyOutbox
  <2> HIDE DEF p
  <2> QED
    BY <1>5, <2>1
<1>12. ASSUME NEW w \in WriteOutcomes, SendDiscard(w) PROVE Named'
  <2>1. slot' = Discard(w) /\ pending' = pending
    BY <1>12 DEF SendDiscard
  <2>2. slot' = slot \/ slot'.v = 0
    BY <1>1, <2>1, DiscardFacts
  <2> QED
    BY <2>1, <2>2 DEF Named
<1>13. ASSUME NEW l \in Letters, NEW w \in WriteOutcomes, NEW d \in WriteOutcomes,
              ConflictDrop(l, d, w)
       PROVE  Named'
  <2> DEFINE after == Discard(d)
             asked == IF pending.kind = "none" THEN [NoPending EXCEPT !.l = l] ELSE pending
  <2>1. /\ slot' = after \/ (asked.kind # "resume" /\ slot' = Save(after, asked.l, asked.v, w))
        /\ pending' = NoPending \/ pending' = pending
    BY <1>13 DEF ConflictDrop
  <2>2. after \in Draft /\ (after = slot \/ after.v = 0)
    BY <1>1, DiscardFacts
  <2> HIDE DEF after
  <2>3. after.v > 0 => after.l # None
    BY <2>2 DEF Named
  <2>4. /\ asked.l \in Owners /\ asked.v \in Versions
        /\ asked.kind # "resume" => (asked.v > 0 => asked.l # None)
    <3>1. CASE pending.kind = "recompose"
      BY <1>1, <3>1, EntryFacts, ComposeAssumption DEF ComposeInv, Asked
    <3>2. CASE pending.kind = "new"
      BY <1>1, <3>2 DEF ComposeInv, Asked
    <3>3. CASE pending.kind = "none"
      <4>1. asked = [NoPending EXCEPT !.l = l]
        BY <3>3
      <4>2. asked.l = l /\ asked.v = 0
        BY <4>1 DEF NoPending
      <4> QED
        BY <4>2, ComposeAssumption DEF Owners, Versions
    <3>4. CASE pending.kind = "resume"
      BY <1>1, <3>4
    <3> QED
      BY <1>1, <3>1, <3>2, <3>3, <3>4 DEF PendingKinds
  <2> HIDE DEF asked
  <2>5. slot'.v > 0 => slot'.l # None
    <3>1. CASE slot' = after
      BY <2>3, <3>1
    <3>2. CASE asked.kind # "resume" /\ slot' = Save(after, asked.l, asked.v, w)
      BY <1>3, <2>2, <2>3, <2>4, <3>2
    <3> QED
      BY <2>1, <3>1, <3>2
  <2> QED
    BY <1>2, <2>1, <2>5 DEF Named
<1>14. ASSUME NEW w \in WriteOutcomes,
              \/ \E i \in Ids : SendAdd(i, w)
              \/ Retire(w) \/ \E e \in outbox, sent \in BOOLEAN : Resolve(e, sent, w)
       PROVE  Named'
  <2>1. slot' = slot /\ pending' = pending
    BY <1>14 DEF SendAdd, Retire, Resolve
  <2> QED
    BY <1>6, <2>1
<1>15. ASSUME NEW w \in WriteOutcomes,
              \/ Wipe(w) \/ TickAutosave(w) \/ KeyPickAttach(w)
              \/ \E l \in Letters : KeyPickNew(l, w)
              \/ KeyWriteBack(w) \/ SendFull(w) \/ SendDiscard(w) \/ Retire(w)
              \/ \E i \in Ids : SendAdd(i, w)
              \/ \E e \in outbox : KeyOutbox(e, w) \/ \E sent \in BOOLEAN : Resolve(e, sent, w)
              \/ \E d \in WriteOutcomes, l \in Letters : ConflictDrop(l, d, w)
       PROVE  Named'
  BY <1>9, <1>10, <1>11, <1>12, <1>13, <1>14, <1>15
<1> QED
  BY <1>7, <1>8, <1>15 DEF Next

\* A device that was never switched on.
LEMMA ComposeInit ==
  Init => ComposeInv /\ Named
<1> SUFFICES ASSUME Init PROVE ComposeInv /\ Named
  OBVIOUS
<1>1. /\ awake = FALSE /\ screen = "cover" /\ ui = NoApp /\ pending = NoPending
      /\ step = Idle /\ slot = Empty /\ outbox = {} /\ files = {}
      /\ hist = [newest |-> [l \in Letters |-> 0], excuse |-> [l \in Letters |-> "none"],
                 locked |-> FALSE, twice |-> {}]
  BY DEF Init
<1>2. hist \in Histories /\ \A l \in Letters : hist.newest[l] = 0
  <2>1. [l \in Letters |-> 0] \in [Letters -> Versions]
    BY ComposeAssumption DEF Versions
  <2>2. [l \in Letters |-> "none"] \in [Letters -> Excuses]
    BY DEF Excuses
  <2> QED
    BY <1>1, <2>1, <2>2 DEF Histories
<1>3. ComposeType
  BY <1>1, <1>2, AppFacts DEF ComposeType, Entered
<1>4. Asleep /\ Locked /\ Stepping /\ Asked /\ Copies
  BY <1>1, AppFacts DEF Asleep, Locked, Stepping, Asked, Copies, Entered
<1>5. WordsSafe /\ SlotTrusted /\ SlotIsOurs
  BY <1>2 DEF WordsSafe, SlotTrusted, SlotIsOurs, Needed
<1>6. Named
  BY <1>1, AppFacts DEF Named, NoPending
<1> QED
  BY <1>3, <1>4, <1>5, <1>6 DEF ComposeInv

\* One case per handler.
LEMMA ComposeStep ==
  ComposeInv /\ Named /\ [Next]_vars => (ComposeInv /\ Named)'
<1> SUFFICES ASSUME ComposeInv, Named, [Next]_vars PROVE (ComposeInv /\ Named)'
  OBVIOUS
<1>1. CASE UNCHANGED vars
  BY <1>1 DEF vars, ComposeInv, Named, ComposeType, Asleep, Locked, Stepping, Asked, WordsSafe,
              SlotTrusted, SlotIsOurs, Copies, Needed, Sent, Parked, Open, InSlot, Entered
<1>2. CASE Next
  <2>1. Named'
    BY <1>2, NamedKeeps
  <2>2. ComposeInv'
    BY <1>2, StartKeeps, PowerCutKeeps, MovesKeep, ShowFaultKeeps, EditKeeps, SendAddKeeps,
       WipeKeeps, AutosavesKeep, PickNewKeeps, SendDiscardKeeps, KeyOutboxKeeps,
       ConflictDropKeeps, RetireKeeps, ConflictKeepKeeps, ResolveKeeps DEF Next
  <2> QED
    BY <2>1, <2>2
<1> QED
  BY <1>1, <1>2

\* Through every key, fault screen, wipe, failed write, acknowledgement and
\* power cut the invariant holds.
THEOREM ComposeInductive == Spec => [](ComposeInv /\ Named)
<1> QED
  BY ComposeInit, ComposeStep, PTL DEF Spec

\* The child's newest words are in the slot, in the outbox or on the screen,
\* unless the power, flash or a fault screen took them before they were saved.
THEOREM WordsKeptAlways == Spec => []WordsKept
<1>1. ComposeInv => WordsKept
  BY DEF ComposeInv, WordsKept, WordsSafe, Needed, Sent, Parked, Open, Held
<1> QED
  BY <1>1, ComposeInductive, PTL

\* A letter is in the outbox, or in a file of it, and in the slot only where one
\* of the two writes of Send or of a recompose failed, or the power went between.
THEOREM OneCopyAlways == Spec => []OneCopy
<1>1. ComposeInv => OneCopy
  BY DEF ComposeInv, OneCopy, Copies
<1> QED
  BY <1>1, ComposeInductive, PTL

\* A session that began locked shows what anybody may see.
THEOREM LockGuards == Spec => []GuardedScreens
<1>1. ComposeInv => GuardedScreens
  <2> SUFFICES ASSUME ComposeInv, awake /\ hist.locked PROVE Rebuild(screen) \subseteq Public
    BY DEF GuardedScreens
  <2>1. screen = "pin"
    BY DEF ComposeInv, Locked
  <2>2. Rebuild(screen) = BuildPin
    BY <2>1 DEF Rebuild
  <2> QED
    BY <2>2 DEF Public
<1> QED
  BY <1>1, ComposeInductive, PTL
=============================================================================
