------------------------------ MODULE Compose ------------------------------
(***************************************************************************)
(* The screens of components/ui/ui.cpp over the draft slot (draft.cpp) and *)
(* the outbox, as far as the child's words are concerned: who holds the    *)
(* newest text of each letter, through keys, fault screens, wipes, failed  *)
(* writes, background acknowledgements and power cuts.                     *)
(*                                                                         *)
(* A letter is a model value; its text is a version number, 0 when empty.  *)
(* Every edit makes a new version.  The selected row is abstracted: a key  *)
(* that acts on the selection acts on some row.  Steps that write twice    *)
(* (Send, a recompose) stop between the writes, where the power may go.    *)
(* A write of the slot or of an outbox entry may fail with or without      *)
(* effect: the outbox keeps its entries in RAM, and a boot reads them from *)
(* its files.                                                              *)
(***************************************************************************)
EXTENDS Integers, FiniteSets, FiniteSetsExt

\* ui::FaultKind, without kNone.
FaultKinds == {"cantReachHome", "askGuardians", "roadBusy", "chargeMe"}

CONSTANTS Letters,       \* the letters a child writes
          None,
          SubScreens,    \* the screens that hold no draft and lead back, as many as wanted
          Faults,        \* the fault screens shown, a subset of FaultKinds
          OutboxCap,     \* store::kOutboxCap
          MaxVersion,    \* bound: edits per letter
          Ids,           \* bound: the ids of the entries there are at a time
          MaxWrong       \* bound: wrong PIN entries that still lengthen the wait

ASSUME ComposeAssumption ==
  /\ None \notin Letters \cup Ids /\ Faults \subseteq FaultKinds
  /\ SubScreens \subseteq {"read", "contacts", "log", "about"}
  /\ {OutboxCap, MaxVersion, MaxWrong} \subseteq Nat \ {0}

Tabs == {"inbox", "pick", "outbox", "settings"}
Screens == Tabs \cup SubScreens \cup {"cover", "pin", "write", "fault", "conflict"}
PendingKinds == {"none", "resume", "new", "recompose"}
Draft == [l : Letters \cup {None}, v : 0..MaxVersion, pending : BOOLEAN]
Empty == [l |-> None, v |-> 0, pending |-> FALSE]

\* What a durable write came to: WriteAtomic and Remove report failure also
\* when only the directory could not be synced after the change was made.
WriteOutcomes == {"done", "failed", "unsynced"}

VARIABLES
  awake,    \* a session is running: App exists
  screen,
  ui,       \* AppImpl: draft_open_, the text, the fault, unlocked_
  pending,  \* pending_: what was asked for when the slot was occupied
  step,     \* between two durable writes of one key: after Add, or after the
            \* save that lets entry id be retired
  slot,     \* the draft file, and pending_: what DraftStore takes for its state
  outbox,   \* FileOutbox::entries_: [id, l, v, rejected]
  files,    \* its files, which a boot reads; asleep, the two are the same
  pin,      \* settings pin_enabled, pushed and cleared from home
  hist      \* newest text and excuse per letter, the letters with two copies, and
            \* the lock no fault screen has replaced; read only by the properties

vars == <<awake, screen, ui, pending, step, slot, outbox, files, pin, hist>>

NoApp == [open |-> FALSE, l |-> None, v |-> 0, fault |-> "none",
          unlocked |-> FALSE, wrong |-> 0, wait |-> 0]
NoPending == [kind |-> "none", l |-> None, v |-> 0, id |-> None]
Idle == [at |-> "idle", id |-> None]

Init ==
  /\ awake = FALSE /\ screen = "cover" /\ ui = NoApp /\ pending = NoPending
  /\ step = Idle /\ slot = Empty /\ outbox = {} /\ files = {}
  /\ pin = FALSE
  /\ hist = [newest |-> [l \in Letters |-> 0], excuse |-> [l \in Letters |-> "none"],
             locked |-> FALSE, twice |-> {}]

---------------------------------------------------------------------------
(* draft.cpp and the outbox, as the screens use them *)

\* DraftStore: pending_ follows the writes that were reported done; a boot
\* reads it from the file.
Pending == slot.pending
Save(s, l, v, w) ==
  CASE w = "done" -> [l |-> l, v |-> v, pending |-> v > 0]
    [] w = "failed" -> s
    [] w = "unsynced" -> [s EXCEPT !.l = l, !.v = v]
Discard(w) ==
  IF w = "done" \/ slot.l = None THEN Empty
  ELSE IF w = "failed" THEN slot ELSE [Empty EXCEPT !.pending = slot.pending]

\* An entry anywhere: one may be on flash only, after an Add that reported
\* failure, or in RAM only, after such an Erase.
Entered == outbox \cup files

\* Erase: the file goes, then the entry in RAM.
Erase(i, w) ==
  /\ files' = IF w = "failed" THEN files ELSE {f \in files : f.id # i}
  /\ outbox' = IF w = "done" THEN {e \in outbox : e.id # i} ELSE outbox

\* The slot holds this text.
InSlot(l, v) == slot.l = l /\ slot.v = v

\* The open text is newer than the slot.
Dirty == ui.open /\ ~InSlot(ui.l, ui.v)

\* A power cut takes the open text: what the slot holds is the newest now.
ForgetUnsaved == [hist EXCEPT !.newest[ui.l] = IF slot.l = ui.l THEN slot.v ELSE 0,
                              !.excuse[ui.l] = "none"]

\* A letter nobody holds a copy of: the next one the child starts.
Unwritten(l) ==
  /\ hist.newest[l] = 0 /\ l \notin {slot.l, ui.l, pending.l}
  /\ \A e \in Entered : e.l # l

\* Texts of l that no copy holds: the next edit makes one of them.
FreshVersions(l) ==
  1..MaxVersion \ ({ui.v, hist.newest[l], pending.v} \cup {slot.v} \cup {e.v : e \in Entered})

Excuse(l, why) == [hist EXCEPT !.excuse[l] = why]
Copied(l, failed) == IF failed THEN [hist EXCEPT !.twice = @ \cup {l}] ELSE hist

\* Letters with more than one copy once entry e is gone.
StillTwice(e) ==
  IF \E f \in Entered : f.id # e.id /\ f.l = e.l THEN hist.twice ELSE hist.twice \ {e.l}

\* The high-water counter gives no entry the id of another.
FreeIds == Ids \ {e.id : e \in Entered}
SendableCount == Cardinality({e \in outbox : ~e.rejected})

\* Mutant: a wipe saves whatever the screen holds, nothing included.
AutosaveAlways(w) == slot' = Save(slot, ui.l, ui.v, w) /\ UNCHANGED hist

\* AutosaveDraft: nothing is saved while nothing is open; the result of Save
\* is not looked at.
AutosaveDraft(w) ==
  IF ~ui.open THEN UNCHANGED <<slot, hist>>
  ELSE /\ slot' = Save(slot, ui.l, ui.v, w)
       /\ hist' = IF w # "done" THEN IF Dirty THEN Excuse(ui.l, "write") ELSE hist
                  ELSE IF ui.v = hist.newest[ui.l] THEN Excuse(ui.l, "none") ELSE hist

OpenCompose(l, v) ==
  /\ ui' = [ui EXCEPT !.open = TRUE, !.l = l, !.v = v]
  /\ screen' = "write"

Closed == [ui EXCEPT !.open = FALSE, !.l = None, !.v = 0]

---------------------------------------------------------------------------
(* Sessions *)

PinRequired(u) == pin /\ ~u.unlocked

\* OfferPendingDraft, or the screen asked for.
OfferOr(s, offer) ==
  /\ screen' = IF offer THEN "conflict" ELSE s
  /\ pending' = IF offer THEN [NoPending EXCEPT !.kind = "resume"] ELSE pending

\* FileDraftStore's constructor: the file is read and decoded.
ReadSlot == [slot EXCEPT !.pending = slot.v > 0]

\* Mutant: the pending draft is offered before the PIN is asked for.
StartOffers(initial) ==
  /\ ~awake /\ awake' = TRUE
  /\ slot' = ReadSlot
  /\ OfferOr(IF PinRequired(NoApp) THEN "pin" ELSE initial, ReadSlot.pending)
  /\ ui' = NoApp
  /\ hist' = [hist EXCEPT !.locked = PinRequired(NoApp)]
  /\ UNCHANGED <<step, outbox, files, pin>>

Start(initial) ==
  /\ ~awake /\ awake' = TRUE
  /\ slot' = ReadSlot
  /\ IF PinRequired(NoApp) THEN screen' = "pin" /\ UNCHANGED pending
     ELSE IF initial = "cover" THEN screen' = "cover" /\ UNCHANGED pending
     ELSE OfferOr(initial, ReadSlot.pending)
  /\ ui' = NoApp
  /\ hist' = [hist EXCEPT !.locked = PinRequired(NoApp)]
  /\ UNCHANGED <<step, outbox, files, pin>>

\* RAM is gone; the next boot scans the files of the outbox.
Darken ==
  /\ awake' = FALSE /\ screen' = "cover" /\ ui' = NoApp /\ pending' = NoPending
  /\ step' = Idle /\ outbox' = files
  /\ UNCHANGED <<files, pin>>

\* Every wipe trigger: timeout, put-away, low battery.  AutosaveDraft, then
\* the session is over and RAM with it.
Wipe(w) ==
  /\ awake /\ step = Idle
  /\ AutosaveDraft(w)
  /\ Darken

PowerCut ==
  /\ awake
  /\ Darken
  /\ hist' = IF step # Idle THEN [hist EXCEPT !.twice = @ \cup {ui.l}]
             ELSE IF Dirty THEN ForgetUnsaved ELSE hist
  /\ UNCHANGED slot

\* ShowFault: any screen gives way, and nothing is saved.
ShowFault(k) ==
  /\ awake /\ step = Idle
  /\ screen' = "fault"
  /\ ui' = [ui EXCEPT !.fault = k]
  /\ hist' = [IF screen = "write" /\ Dirty THEN Excuse(ui.l, "fault") ELSE hist
                EXCEPT !.locked = FALSE]
  /\ UNCHANGED <<awake, pending, step, slot, outbox, files, pin>>

---------------------------------------------------------------------------
(* Tick *)

\* A PIN cleared at home opens the lock from inside; the count of wrong
\* entries is not looked at again in this session.
TickUnlock ==
  /\ awake /\ step = Idle /\ screen = "pin" /\ ~PinRequired(ui)
  /\ ui' = [ui EXCEPT !.unlocked = TRUE, !.wrong = 0, !.wait = 0]
  /\ OfferOr("inbox", Pending)
  /\ hist' = [hist EXCEPT !.locked = FALSE]
  /\ UNCHANGED <<awake, step, slot, outbox, files, pin>>

\* The autosave of an open draft, from any screen.
TickAutosave(w) ==
  /\ awake /\ step = Idle /\ ui.open
  /\ AutosaveDraft(w)
  /\ UNCHANGED <<awake, screen, ui, pending, step, outbox, files, pin>>

TickBackoff ==
  /\ awake /\ step = Idle /\ screen = "pin" /\ ui.wait > 0
  /\ ui' = [ui EXCEPT !.wait = @ - 1]
  /\ UNCHANGED <<awake, screen, pending, step, slot, outbox, files, pin, hist>>

---------------------------------------------------------------------------
(* Keys *)

Key(s) == awake /\ step = Idle /\ screen = s
Go(from, to) ==
  /\ Key(from)
  /\ screen' = to
  /\ UNCHANGED <<awake, ui, pending, step, slot, outbox, files, pin, hist>>

\* Any key on the cover.
KeyCover ==
  /\ Key("cover")
  /\ IF PinRequired(ui) THEN screen' = "pin" /\ UNCHANGED pending ELSE OfferOr("inbox", Pending)
  /\ hist' = [hist EXCEPT !.locked = PinRequired(ui)]
  /\ UNCHANGED <<awake, ui, step, slot, outbox, files, pin>>

\* Enter on the PIN screen once the back-off has run out.  The wait doubles
\* and stops growing; nothing is ever destroyed.
BackoffMs(n) == 2 ^ ((IF n < MaxWrong THEN n ELSE MaxWrong) - 1)

KeyPin(right) ==
  /\ Key("pin") /\ ui.wait = 0
  /\ IF right
       THEN /\ ui' = [ui EXCEPT !.unlocked = TRUE, !.wrong = 0]
            /\ OfferOr("inbox", Pending)
            /\ hist' = [hist EXCEPT !.locked = FALSE]
       ELSE /\ ui' = [ui EXCEPT !.wrong = IF @ < MaxWrong THEN @ + 1 ELSE @,
                                !.wait = BackoffMs(ui.wrong + 1)]
            /\ UNCHANGED <<screen, pending, hist>>
  /\ UNCHANGED <<awake, step, slot, outbox, files, pin>>

\* Left and right cycle the four top-level screens.
TabOrder == <<"inbox", "pick", "outbox", "settings">>
KeyTab ==
  \E i \in 1..4, d \in {1, 3} : Go(TabOrder[i], TabOrder[((i - 1 + d) % 4) + 1])

\* Keys that move without touching the child's words: Enter on a row of the
\* inbox or of the settings and back, Back on the other tabs.
Pages == SubScreens \ {"read"}
Moves ==
  {<<"inbox", s>> : s \in SubScreens \cap {"read"}} \cup {<<"settings", s>> : s \in Pages}
  \cup {<<s, IF s = "read" THEN "inbox" ELSE "settings">> : s \in SubScreens}
  \cup {<<s, "inbox">> : s \in {"pick", "outbox", "settings"}}
KeyMove == \E m \in Moves : Go(m[1], m[2])

\* KeyFault: charge-me keeps the screen, every other fault goes to the inbox.
KeyFault ==
  /\ Key("fault") /\ ui.fault # "chargeMe"
  /\ ui' = [ui EXCEPT !.fault = "none"]
  /\ screen' = "inbox"
  /\ UNCHANGED <<awake, pending, step, slot, outbox, files, pin, hist>>

\* StartDraft: the slot is never overwritten; what was asked waits for the
\* child's answer.  A recompose retires the outbox entry after the save.
StartDraft(p, w) ==
  IF Pending
    THEN /\ pending' = p /\ screen' = "conflict"
         /\ UNCHANGED <<ui, step, slot>>
    ELSE /\ pending' = NoPending
         /\ slot' = Save(slot, p.l, p.v, w)
         /\ IF w # "done" THEN UNCHANGED <<ui, step, screen>>
            ELSE IF p.kind = "recompose"
              THEN /\ step' = [at |-> "saved", id |-> p.id]
                   /\ ui' = [ui EXCEPT !.l = p.l, !.v = p.v] /\ UNCHANGED screen
              ELSE OpenCompose(p.l, p.v) /\ UNCHANGED step

\* Enter on a person: a draft that is open keeps its text and gets the person;
\* otherwise a new letter begins.
KeyPickAttach(w) ==
  /\ Key("pick") /\ ui.open
  /\ AutosaveDraft(w)
  /\ screen' = "write"
  /\ UNCHANGED <<awake, ui, pending, step, outbox, files, pin>>

KeyPickNew(l, w) ==
  /\ Key("pick") /\ ~ui.open /\ Unwritten(l)
  /\ StartDraft([NoPending EXCEPT !.kind = "new", !.l = l], w)
  /\ hist' = [hist EXCEPT !.excuse[l] = "none", !.twice = @ \ {l}]
  /\ UNCHANGED <<awake, outbox, files, pin>>

\* KeyWrite: an edit makes a text nobody has saved; erasing may empty it.
Edit(v) ==
  /\ Key("write")
  /\ \/ v = 0 /\ ui.v > 0
     \/ FreshVersions(ui.l) # {} /\ v = Min(FreshVersions(ui.l))
  /\ ui' = [ui EXCEPT !.v = v]
  /\ hist' = [hist EXCEPT !.newest[ui.l] = v, !.excuse[ui.l] = "none"]
  /\ UNCHANGED <<awake, screen, pending, step, slot, outbox, files, pin>>

KeyWriteBack(w) ==
  /\ Key("write")
  /\ AutosaveDraft(w)
  /\ screen' = "pick"
  /\ UNCHANGED <<awake, ui, pending, step, outbox, files, pin>>

\* Send with the outbox at its cap: the finished letter parks as the draft.
SendFull(w) ==
  /\ Key("write") /\ ui.v > 0 /\ SendableCount >= OutboxCap
  /\ AutosaveDraft(w)
  /\ screen' = "outbox"
  /\ UNCHANGED <<awake, ui, pending, step, outbox, files, pin>>

\* Send: Add, then Discard of the draft, whose result is not looked at.  An Add
\* that reports failure keeps the draft and the screen, whether or not the file
\* of the entry is in place; it is not in entries_, and its id is used up.
SendAdd(i, w) ==
  LET e == [id |-> i, l |-> ui.l, v |-> ui.v, rejected |-> FALSE]
  IN  /\ Key("write") /\ ui.v > 0 /\ SendableCount < OutboxCap /\ i \in FreeIds
      /\ files' = IF w = "failed" THEN files ELSE files \cup {e}
      /\ IF w = "done"
           THEN outbox' = outbox \cup {e} /\ step' = [Idle EXCEPT !.at = "added"]
           ELSE UNCHANGED <<outbox, step>>
      /\ hist' = Copied(ui.l, w = "unsynced")
      /\ UNCHANGED <<awake, screen, ui, pending, slot, pin>>

\* Mutant: the draft stays behind.
SendKeeps(w) ==
  /\ step.at = "added"
  /\ ui' = Closed /\ screen' = "outbox" /\ step' = Idle
  /\ UNCHANGED <<awake, pending, slot, outbox, files, pin, hist>>

SendDiscard(w) ==
  /\ step.at = "added"
  /\ slot' = Discard(w)
  /\ hist' = [hist EXCEPT !.newest[ui.l] = ui.v, !.excuse[ui.l] = "none",
                          !.twice = IF w = "failed" THEN @ \cup {ui.l} ELSE @]
  /\ ui' = Closed /\ screen' = "outbox" /\ step' = Idle
  /\ UNCHANGED <<awake, pending, outbox, files, pin>>

\* Enter on a letter that could not be sent.
KeyOutbox(e, w) ==
  /\ Key("outbox") /\ e \in outbox /\ e.rejected
  /\ StartDraft([kind |-> "recompose", l |-> e.l, v |-> e.v, id |-> e.id], w)
  /\ hist' = Copied(e.l, ~Pending /\ w = "unsynced")
  /\ UNCHANGED <<awake, outbox, files, pin>>

Retire(w) ==
  /\ step.at = "saved"
  /\ Erase(step.id, w)
  /\ hist' = Copied(ui.l, w # "done")
  /\ OpenCompose(ui.l, ui.v) /\ step' = Idle
  /\ UNCHANGED <<awake, pending, slot, pin>>

\* KeepPendingDraft: the slot is loaded over whatever the screen held.
ConflictKeep(loads) ==
  /\ Key("conflict")
  /\ pending' = NoPending
  /\ IF loads /\ slot.v > 0 THEN OpenCompose(slot.l, slot.v)
     ELSE screen' = "inbox" /\ UNCHANGED ui
  /\ UNCHANGED <<awake, step, slot, outbox, files, pin, hist>>

\* DropPendingDraft: the child lets the draft go, then gets what was asked.
\* The result of Discard is not looked at: StartDraft asks again if the store
\* still takes the slot for occupied.  A save that fails leaves the prompt with
\* nothing asked for; dropping once more then begins a letter l to nobody yet.
ConflictDrop(l, d, w) ==
  LET asked == IF pending.kind = "none" THEN [NoPending EXCEPT !.l = l] ELSE pending
      after == Discard(d)
      starts == ~after.pending /\ w = "done"
      opens == asked.kind \in {"new", "none"}
      gone == [hist EXCEPT !.newest[slot.l] = 0, !.excuse[slot.l] = "none"]
      copied == asked.kind = "recompose" /\ ~after.pending /\ w = "unsynced"
  IN /\ Key("conflict")
     /\ pending.kind = "none" => Unwritten(l)
     /\ hist' = [IF slot.l # None /\ after.l = None THEN gone ELSE hist
                   EXCEPT !.twice = IF copied THEN @ \cup {asked.l} ELSE @]
     /\ IF asked.kind = "resume"
          THEN /\ slot' = after /\ ui' = Closed /\ screen' = "inbox"
               /\ pending' = NoPending /\ UNCHANGED step
          ELSE /\ pending' = IF after.pending THEN pending ELSE NoPending
               /\ slot' = IF after.pending THEN after ELSE Save(after, asked.l, asked.v, w)
               /\ step' = IF starts /\ asked.kind = "recompose"
                          THEN [at |-> "saved", id |-> asked.id] ELSE step
               /\ ui' = IF starts THEN [Closed EXCEPT !.l = asked.l, !.v = asked.v,
                                          !.open = opens] ELSE Closed
               /\ screen' = IF ~starts \/ ~opens THEN "conflict"
                            ELSE IF asked.kind = "new" THEN "write" ELSE "pick"
     /\ UNCHANGED <<awake, outbox, files, pin>>

---------------------------------------------------------------------------
(* The world: a sync acknowledges an entry, home sets or clears the PIN *)

\* The entry is erased, or marked in RAM and then on flash.  With no session on,
\* the background sync's RAM goes when it is done.
Resolve(e, sent, w) ==
  LET marked(S) == {f \in S : f.id # e.id} \cup {[e EXCEPT !.rejected = TRUE]}
  IN  /\ step = Idle /\ e \in outbox /\ ~e.rejected
      /\ IF sent
         THEN /\ files' = IF w = "failed" THEN files ELSE {f \in files : f.id # e.id}
              /\ outbox' = IF ~awake THEN files'
                           ELSE IF w = "done" THEN {f \in outbox : f.id # e.id} ELSE outbox
         ELSE /\ files' = IF w = "failed" THEN files ELSE marked(files)
              /\ outbox' = IF awake THEN marked(outbox) ELSE files'
      /\ hist' = IF ~sent THEN hist
                 ELSE [IF hist.newest[e.l] = e.v
                         THEN [hist EXCEPT !.newest[e.l] = 0, !.excuse[e.l] = "none"] ELSE hist
                       EXCEPT !.twice = IF w = "done" THEN StillTwice(e) ELSE @]
      /\ UNCHANGED <<awake, screen, ui, pending, step, slot, pin>>

\* While another screen shows, a push takes effect at the next Start or cover.
PushPin ==
  /\ step = Idle /\ (awake => screen \in {"cover", "pin"})
  /\ pin' = ~pin
  /\ UNCHANGED <<awake, screen, ui, pending, step, slot, outbox, files, hist>>

Next ==
  \/ \E s \in {"cover", "inbox"} : Start(s)
  \/ PowerCut \/ TickUnlock \/ TickBackoff
  \/ \E k \in Faults : ShowFault(k)
  \/ KeyCover \/ (\E right \in BOOLEAN : KeyPin(right)) \/ KeyTab \/ KeyMove \/ KeyFault
  \/ \E v \in 0..MaxVersion : Edit(v)
  \/ PushPin
  \/ \E w \in WriteOutcomes :
       \/ Wipe(w) \/ TickAutosave(w) \/ KeyPickAttach(w)
       \/ \E l \in Letters : KeyPickNew(l, w)
       \/ KeyWriteBack(w) \/ SendFull(w) \/ SendDiscard(w) \/ Retire(w)
       \/ \E i \in Ids : SendAdd(i, w)
       \/ \E e \in outbox : KeyOutbox(e, w) \/ \E sent \in BOOLEAN : Resolve(e, sent, w)
       \/ \E d \in WriteOutcomes, l \in Letters : ConflictDrop(l, d, w)
  \/ \E loads \in BOOLEAN : ConflictKeep(loads)

Spec == Init /\ [][Next]_vars

---------------------------------------------------------------------------
(* What each screen draws, as kinds of content: the wording and the layout *)
(* are left out, what a bystander could learn is kept.  "text" is the      *)
(* product's own fixed strings.                                            *)

RenderCover == {"wordmark", "battery", "flag"}
BuildPin == {"text", "digitCount"}
BuildInbox == {"text", "names", "subjects", "dates", "unread"}
BuildRead == {"text", "names", "letter", "pageCount"}
BuildPick == {"text", "names"}
BuildWrite == {"text", "names", "draft", "letterCap"}
BuildOutbox == {"text", "names", "subjects", "sendState"}
BuildSettings == {"text", "settings"}
BuildContacts == {"text", "names", "nickname"}
BuildLog == {"text", "health", "dates"}
BuildAbout == {"text", "version", "battery", "signal"}
BuildFault == {"text", "diagnostic"}
BuildConflict == {"text", "draftExists"}

Rebuild(s) ==
  CASE s = "cover" -> RenderCover
    [] s = "pin" -> BuildPin
    [] s = "inbox" -> BuildInbox
    [] s = "read" -> BuildRead
    [] s = "pick" -> BuildPick
    [] s = "write" -> BuildWrite
    [] s = "outbox" -> BuildOutbox
    [] s = "settings" -> BuildSettings
    [] s = "contacts" -> BuildContacts
    [] s = "log" -> BuildLog
    [] s = "about" -> BuildAbout
    [] s = "fault" -> BuildFault
    [] s = "conflict" -> BuildConflict

\* What anybody may see of a locked device.
Public == RenderCover \cup BuildPin \cup BuildFault

---------------------------------------------------------------------------
(* Properties *)

\* The records of the screens, the slot and the outbox keep their shapes.
TypeOK ==
  /\ awake \in BOOLEAN /\ screen \in Screens /\ pin \in BOOLEAN
  /\ ui \in [open : BOOLEAN, l : Letters \cup {None}, v : 0..MaxVersion,
             fault : FaultKinds \cup {"none"}, unlocked : BOOLEAN,
             wrong : 0..MaxWrong, wait : 0..(2 ^ (MaxWrong - 1))]
  /\ pending \in [kind : PendingKinds, l : Letters \cup {None}, v : 0..MaxVersion,
                id : Ids \cup {None}]
  /\ step \in [at : {"idle", "added", "saved"}, id : Ids \cup {None}] /\ slot \in Draft
  /\ Entered \subseteq [id : Ids, l : Letters, v : 1..MaxVersion, rejected : BOOLEAN]

\* The newest text of l is in the slot, in a file of the outbox or on the open
\* screen.
Held(l) ==
  LET v == hist.newest[l]
  IN \/ InSlot(l, v)
     \/ ui.open /\ ui.l = l /\ ui.v = v
     \/ \E e \in files : e.l = l /\ e.v = v

\* The child's newest words survive every key, wipe, conflict prompt, full
\* outbox, rejection and crash between two writes, unless the power went or
\* flash refused a write while they were unsaved, or a fault screen took the
\* writing screen away before they were saved (ui.cpp, ShowFault).
WordsKept == \A l \in Letters : hist.newest[l] > 0 /\ hist.excuse[l] = "none" => Held(l)

\* Nothing the child wrote is lost because a screen was left: a fault screen
\* is no excuse ("Every path that leaves the writing screen saves first").
NothingWrittenIsLost ==
  \A l \in Letters : hist.newest[l] > 0 /\ hist.excuse[l] \in {"none", "fault"} => Held(l)

\* A letter handed to the runner is no longer offered as a draft: both copies
\* exist only after a power cut between the two writes of Send or of a
\* recompose, after the second write failed, or after a first write that took
\* effect and reported failure (an entry whose directory could not be synced is
\* on flash, so a boot sends it, and the child is asked to send it again).
OneCopy ==
  \A e \in Entered :
    step = Idle /\ slot.v > 0 /\ slot.l = e.l => e.l \in hist.twice

\* A session that began locked shows nothing but what the cover, the PIN screen
\* and a fault draw until the PIN is right or is cleared at home; a fault screen that
\* takes the place of the PIN screen is the exception (ui.cpp, KeyFault).
GuardedScreens ==
  awake /\ hist.locked => Rebuild(screen) \subseteq Public
=============================================================================
