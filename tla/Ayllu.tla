-------------------------------- MODULE Ayllu --------------------------------
(***************************************************************************)
(* The device's contact list: components/ayllu/ayllu.cpp (the server's     *)
(* snapshot and the child's overlay, two files), and the contacts screen   *)
(* of components/ui/ui.cpp that edits the overlay from a copy of the       *)
(* merged list.  A sync may replace the snapshot while the copy is on the  *)
(* screen; every write may fail, before the file is replaced or after it   *)
(* (only the directory could not be synced); the power may go at any time. *)
(*                                                                         *)
(* Names and nicknames are numbers, 0 the empty string; Unset is an absent *)
(* overlay field.  A file is the sequence of <<key, value>> pairs that     *)
(* fsutil's record codec stores (module Records checks the codec itself).  *)
(***************************************************************************)
EXTENDS Integers, Sequences, SequencesExt

CONSTANTS Unset,       \* an absent field
          Ids,         \* contact ids, numbers: ties in the order break on the id
          Sys,         \* wire::kSysContactId, one of Ids
          Snapshots,   \* the lists a guardian may have, each a set of AylluContacts
          MaxName      \* bound: names and nicknames are 1..MaxName

ASSUME AylluAssumption ==
  /\ Ids \subseteq Nat /\ Sys \in Ids /\ MaxName \in Nat
  /\ \A s \in Snapshots : s \subseteq [id : Ids, name : 0..MaxName, active : BOOLEAN,
                                        pinned : BOOLEAN, order : 0..1]

NoOverlay == [nickname |-> Unset, pinned |-> Unset, order |-> Unset]
Contact(c, name, pinned, order) ==
  [id |-> c.id, name |-> name, serverName |-> c.name, active |-> c.active,
   pinned |-> pinned, order |-> order]

VARIABLES
  snap,      \* snapshot_: the contacts in RAM
  overlays,  \* overlays_: rows [id, o], in the order they were added
  snapFile, overFile,
  unsynced,  \* the files a write reported as failed has replaced, read only by
             \* the properties
  ui,        \* the contacts screen: open, roster_, Sel(), editing_, edit_buf_
  hist       \* what the child chose per contact, in force and in the file,
             \* read only by the properties

files == <<snapFile, overFile, unsynced>>
vars == <<snap, overlays, files, ui, hist>>

\* fsutil::WriteAtomic reports failure also when the file has been replaced.
WriteOutcomes == {"done", "failed", "unsynced"}
WriteFile(file, data, w) == IF w = "failed" THEN file ELSE data
Unsynced(name, w) ==
  CASE w = "done" -> unsynced \ {name}
    [] w = "failed" -> unsynced
    [] w = "unsynced" -> unsynced \cup {name}

---------------------------------------------------------------------------
(* The two files *)

EncodeSnapshot(cs) ==
  FlattenSeq([i \in 1..Len(cs) |->
    << <<"contact.id", cs[i].id>>, <<"contact.name", cs[i].name>>,
       <<"contact.active", cs[i].active>>, <<"contact.pinned", cs[i].pinned>>,
       <<"contact.order", cs[i].order>> >>])

NewContact(id) == [id |-> id, name |-> 0, active |-> FALSE, pinned |-> FALSE, order |-> 0]
LastOf(rows) == rows[Len(rows)]

\* A repeated id opens a record; the keys after it belong to it.
DecodeSnapshot(file) ==
  LET Take(cs, kv) ==
        IF kv[1] = "contact.id" THEN Append(cs, NewContact(kv[2]))
        ELSE IF cs = <<>> THEN cs
        ELSE LET c == LastOf(cs)
             IN [cs EXCEPT ![Len(cs)] =
                   CASE kv[1] = "contact.name" -> [c EXCEPT !.name = kv[2]]
                     [] kv[1] = "contact.active" -> [c EXCEPT !.active = kv[2]]
                     [] kv[1] = "contact.pinned" -> [c EXCEPT !.pinned = kv[2]]
                     [] kv[1] = "contact.order" -> [c EXCEPT !.order = kv[2]]]
  IN FoldLeft(Take, <<>>, file)

\* Only the fields that are set are written.
EncodeOverlays(rows) ==
  LET Field(key, v) == IF v = Unset THEN <<>> ELSE << <<key, v>> >>
  IN FlattenSeq([i \in 1..Len(rows) |->
       << <<"overlay.id", rows[i].id>> >>
       \o Field("overlay.nickname", rows[i].o.nickname)
       \o Field("overlay.pinned", rows[i].o.pinned)
       \o Field("overlay.order", rows[i].o.order)])

DecodeOverlays(file) ==
  LET Take(rows, kv) ==
        IF kv[1] = "overlay.id" THEN Append(rows, [id |-> kv[2], o |-> NoOverlay])
        ELSE IF rows = <<>> THEN rows
        ELSE LET n == Len(rows)
             IN CASE kv[1] = "overlay.nickname" -> [rows EXCEPT ![n].o.nickname = kv[2]]
                  [] kv[1] = "overlay.pinned" -> [rows EXCEPT ![n].o.pinned = kv[2]]
                  [] kv[1] = "overlay.order" -> [rows EXCEPT ![n].o.order = kv[2]]
  IN FoldLeft(Take, <<>>, file)

---------------------------------------------------------------------------
(* The merged view *)

OverlayFor(rows, id) ==
  LET at == {i \in 1..Len(rows) : rows[i].id = id}
  IN IF at = {} THEN NoOverlay ELSE rows[CHOOSE i \in at : TRUE].o

Merge(rows, c) ==
  LET o == OverlayFor(rows, c.id)
      Or(mine, theirs) == IF mine = Unset THEN theirs ELSE mine
  IN Contact(c, IF o.nickname \in {Unset, 0} THEN c.name ELSE o.nickname,
             Or(o.pinned, c.pinned), Or(o.order, c.order))

ChildOrder(a, b) ==
  IF a.pinned # b.pinned THEN a.pinned
  ELSE IF a.order # b.order THEN a.order < b.order
  ELSE IF a.name # b.name THEN a.name < b.name
  ELSE a.id < b.id

Merged(cs, rows) == SetToSortSeq({Merge(rows, cs[i]) : i \in DOMAIN cs}, ChildOrder)

Composable ==
  SetToSortSeq({Merge(overlays, c) : c \in {snap[i] : i \in {j \in DOMAIN snap :
                                    snap[j].active /\ snap[j].id # Sys}}}, ChildOrder)

\* A miss is not an error: the label falls back, the letter stays.
Lookup(id) == {Merge(overlays, snap[i]) : i \in {j \in DOMAIN snap : snap[j].id = id}}

---------------------------------------------------------------------------
(* Store operations: RAM changes only if the write reports success *)

NoScreen == [open |-> FALSE, roster |-> <<>>, sel |-> 1, editing |-> FALSE, buf |-> 0]

\* The child's last choices for a contact, each field by itself: the nickname she
\* typed, the pin she set; and what the screen showed beside them: whether the
\* guardian's name was the same as the nickname at an edit since (`met`), and, if
\* she has set no pin, the pin of the row she last wrote a nickname on (`kept`).
Untouched == [nickname |-> Unset, pinned |-> Unset, met |-> FALSE, kept |-> Unset]
Chose(id, choice, w) ==
  hist' = IF w = "failed" THEN hist
          ELSE LET new == [hist.chosen EXCEPT ![id] = choice]
               IN [chosen |-> IF w = "done" THEN new ELSE hist.chosen, filed |-> new]

Init ==
  /\ snap = <<>> /\ overlays = <<>> /\ snapFile = <<>> /\ overFile = <<>>
  /\ unsynced = {}
  /\ ui = NoScreen
  /\ hist = LET none == [id \in Ids |-> Untouched] IN [chosen |-> none, filed |-> none]

ApplySnapshot(s, w) ==
  LET a == SetToSortSeq(s, LAMBDA x, y : x.id < y.id)
  IN /\ snapFile' = WriteFile(snapFile, EncodeSnapshot(a), w)
     /\ snap' = IF w = "done" THEN a ELSE snap
     /\ unsynced' = Unsynced("snap", w)
     /\ UNCHANGED <<overlays, overFile, ui, hist>>

\* The rows with id's overlay set to o.
WithOverlay(id, o) ==
  IF \E i \in DOMAIN overlays : overlays[i].id = id
    THEN [i \in DOMAIN overlays |->
            IF overlays[i].id = id THEN [id |-> id, o |-> o] ELSE overlays[i]]
    ELSE Append(overlays, [id |-> id, o |-> o])

\* Mutant: the row is not put back when the write fails.
SetOverlayNoRollback(id, o, w) ==
  /\ overlays' = WithOverlay(id, o)
  /\ overFile' = WriteFile(overFile, EncodeOverlays(WithOverlay(id, o)), w)
  /\ unsynced' = Unsynced("over", w)

SetOverlay(id, o, w) ==
  /\ overlays' = IF w = "done" THEN WithOverlay(id, o) ELSE overlays
  /\ overFile' = WriteFile(overFile, EncodeOverlays(WithOverlay(id, o)), w)
  /\ unsynced' = Unsynced("over", w)

\* A failed write puts the row back at the end.  Nothing in this build calls it;
\* the contacts screen has no key for it.
ClearOverlay(id, w) ==
  LET keep == SelectSeq(overlays, LAMBDA row : row.id # id)
      gone == SelectSeq(overlays, LAMBDA row : row.id = id)
  IN /\ gone # <<>> /\ ~ui.open
     /\ overlays' = IF w = "done" THEN keep ELSE keep \o gone
     /\ overFile' = WriteFile(overFile, EncodeOverlays(keep), w)
     /\ unsynced' = Unsynced("over", w)
     /\ Chose(id, Untouched, w)
     /\ UNCHANGED <<snap, snapFile, ui>>

\* FileStore: a boot reads both files.  An edit that was reported as failed
\* and had replaced the file is the child's choice from here on.
Open ==
  /\ snap' = DecodeSnapshot(snapFile) /\ overlays' = DecodeOverlays(overFile)
  /\ ui' = NoScreen
  /\ unsynced' = {}
  /\ hist' = [hist EXCEPT !.chosen = hist.filed]
  /\ UNCHANGED <<snapFile, overFile>>

---------------------------------------------------------------------------
(* The contacts screen *)

\* Go(kSettingsContacts): ReloadContacts copies the merged list.
OpenScreen ==
  /\ ~ui.open
  /\ ui' = [NoScreen EXCEPT !.open = TRUE, !.roster = Merged(snap, overlays)]
  /\ UNCHANGED <<snap, overlays, files, hist>>

CloseScreen ==
  /\ ui.open /\ ~ui.editing
  /\ ui' = NoScreen
  /\ UNCHANGED <<snap, overlays, files, hist>>

OnRoster == ui.open /\ ui.sel \in DOMAIN ui.roster
Selected == ui.roster[ui.sel]

Move ==
  /\ ui.open /\ ~ui.editing
  /\ \E n \in DOMAIN ui.roster : n \in {ui.sel - 1, ui.sel + 1} /\ ui' = [ui EXCEPT !.sel = n]
  /\ UNCHANGED <<snap, overlays, files, hist>>

\* The overlay is rebuilt from the merged row: a nickname that equals the
\* server's name reads as unset, pinned is always set, order is dropped.
OverlayOf(c) ==
  [nickname |-> IF c.name # c.serverName THEN c.name ELSE Unset,
   pinned |-> c.pinned, order |-> Unset]

\* The roster is read again after the store has changed; Rebuild clamps Sel.
Reload ==
  LET now == Merged(snap, overlays')
  IN ui' = [ui EXCEPT !.roster = now, !.editing = FALSE, !.buf = 0,
                      !.sel = IF @ <= Len(now) THEN @ ELSE IF now = <<>> THEN 1 ELSE Len(now)]

\* What the child chooses on the selected row: the other field is not hers to
\* move, the guardian's name may be the one she had chosen.
ChoosePin(w) ==
  LET old == hist.chosen[Selected.id]
  IN Chose(Selected.id, [old EXCEPT !.pinned = ~Selected.pinned, !.kept = Unset,
                           !.met = @ \/ Selected.serverName = old.nickname], w)

ChooseNickname(w) ==
  LET old == hist.chosen[Selected.id]
  IN Chose(Selected.id, [old EXCEPT !.nickname = IF ui.buf = 0 THEN Unset ELSE ui.buf,
                           !.kept = IF old.pinned = Unset THEN Selected.pinned ELSE Unset,
                           !.met = ui.buf = Selected.serverName], w)

\* Mutant: only the pin is written, the nickname goes.
TogglePinnedOnly(w) ==
  /\ OnRoster /\ ~ui.editing
  /\ SetOverlay(Selected.id, [NoOverlay EXCEPT !.pinned = ~Selected.pinned], w)
  /\ Reload
  /\ ChoosePin(w)
  /\ UNCHANGED <<snap, snapFile>>

TogglePinned(w) ==
  /\ OnRoster /\ ~ui.editing
  /\ SetOverlay(Selected.id, [OverlayOf(Selected) EXCEPT !.pinned = ~Selected.pinned], w)
  /\ Reload
  /\ ChoosePin(w)
  /\ UNCHANGED <<snap, snapFile>>

KeyEnter ==
  /\ OnRoster /\ ~ui.editing
  /\ ui' = [ui EXCEPT !.editing = TRUE, !.buf = Selected.name]
  /\ UNCHANGED <<snap, overlays, files, hist>>

\* Characters typed and erased: the buffer becomes any text; back on an empty
\* buffer gives the edit up.
KeyNicknameEdit(n) ==
  /\ ui.open /\ ui.editing
  /\ \/ n # ui.buf /\ ui' = [ui EXCEPT !.buf = n]
     \/ n = 0 /\ ui.buf = 0 /\ ui' = [ui EXCEPT !.editing = FALSE]
  /\ UNCHANGED <<snap, overlays, files, hist>>

CommitNickname(w) ==
  LET c == Selected
      n == IF ui.buf # 0 /\ ui.buf # c.serverName THEN ui.buf ELSE Unset
  IN /\ OnRoster /\ ui.editing
     /\ SetOverlay(c.id, [OverlayOf(c) EXCEPT !.nickname = n], w)
     /\ Reload
     /\ ChooseNickname(w)
     /\ UNCHANGED <<snap, snapFile>>

Next ==
  \/ Open \/ OpenScreen \/ CloseScreen \/ Move \/ KeyEnter
  \/ \E n \in 0..MaxName : KeyNicknameEdit(n)
  \/ \E w \in WriteOutcomes :
       \/ \E s \in Snapshots : ApplySnapshot(s, w)
       \/ \E id \in Ids : ClearOverlay(id, w)
       \/ TogglePinned(w) \/ CommitNickname(w)

Spec == Init /\ [][Next]_vars

---------------------------------------------------------------------------
(* Properties *)

\* RAM and flash never disagree, whatever write failed: a boot at this moment
\* would find the same contacts and the same decoration.  The exception lasts
\* from a write that failed after it had replaced the file to the next that
\* succeeds.
RamIsDisk ==
  /\ "snap" \notin unsynced => DecodeSnapshot(snapFile) = snap
  /\ "over" \notin unsynced =>
       /\ \A id \in Ids : OverlayFor(DecodeOverlays(overFile), id) = OverlayFor(overlays, id)
       /\ Len(DecodeOverlays(overFile)) = Len(overlays)

\* Snapshots come and go, contacts vanish and return, edits are made from a list
\* that is out of date, and writes fail on either side of the rename: each contact
\* still shows the nickname and the pin the child last chose, and the guardian's
\* where she chose none.  Two edits reach the other field, and no further: one made
\* while the guardian's name is the same as the nickname gives the nickname up for
\* the guardian's name; a nickname written where she had set no pin keeps the pin
\* that row showed.
DecorationKept ==
  \A i \in DOMAIN snap :
    LET c == Merge(overlays, snap[i])
        mine == hist.chosen[c.id]
    IN /\ c.name = IF mine.nickname = Unset \/ mine.met THEN snap[i].name ELSE mine.nickname
       /\ c.pinned = CASE mine.pinned # Unset -> mine.pinned
                       [] mine.pinned = Unset /\ mine.kept # Unset -> mine.kept
                       [] OTHER -> snap[i].pinned

\* "Editing one field does not silently clear another": moving the pin on the
\* contacts screen leaves the overlay's nickname as it was.
NicknameSurvivesPins ==
  [][\A id \in Ids :
       ui'.open /\ hist'.chosen[id].pinned # hist.chosen[id].pinned
         => OverlayFor(overlays', id).nickname = OverlayFor(overlays, id).nickname]_vars

\* "An unset field means use the server's value": a contact the child never
\* pinned or unpinned shows the guardian's pin.  CommitNickname sets it.
PinShowsThrough ==
  \A i \in DOMAIN snap :
    hist.chosen[snap[i].id].pinned = Unset
      => Merge(overlays, snap[i]).pinned = snap[i].pinned
=============================================================================
