------------------------------- MODULE Pages -------------------------------
(***************************************************************************)
(* Words on the glass: the writing and reading screens of ui.cpp over      *)
(* Layout, the settings file (store/settings.cpp) that gives them their    *)
(* font and their cap, the health log (kipu.cpp), and Paint, which puts a  *)
(* view on the rows of the panel.                                          *)
(*                                                                         *)
(* One text stands for the letter: it is typed a code point at a time,     *)
(* saved in records and read back in pages.  The record keys are bytes.    *)
(***************************************************************************)
EXTENDS Layout

CONSTANTS Keys,            \* the code points the child types
          Configs,         \* config blocks a sync may bring; Absent where a field is not sent
          Absent,
          DefaultMaxChars, \* wire::kDefaultMaxLetterChars
          MinInterval,     \* store::kMinSyncIntervalS
          FontSteps, LightSteps,
          LogCapacity,     \* kipu::kLogCapacity
          MaxWork          \* bound: code points in the text, settings writes and log records together

ASSUME PagesAssumption ==
  /\ {DefaultMaxChars, MinInterval, FontSteps, LightSteps, LogCapacity} \subseteq Nat \ {0}
  /\ MaxWork \in Nat /\ \A cp \in Keys : ClassOf(cp) \in BoundClasses

VARIABLES
  settings,   \* s_, in RAM
  file,       \* the settings file, the decoded pairs; none at first
  unsynced,   \* a write reported as failed has replaced the file
  screen,     \* "write", "read", "settings", "log"
  text,       \* the letter's bytes
  cap,        \* compose_max_, captured when the letter was opened
  book,       \* pages_ and page_ (the first page is 1)
  ring,       \* kipu's entries_ and oldest_
  changes,    \* settings writes and log records so far
  hist        \* every health block recorded, read only by the properties

disk == <<file, unsynced>>
vars == <<settings, disk, screen, text, cap, book, ring, changes, hist>>

---------------------------------------------------------------------------
(* settings.cpp *)

Defaults == [font |-> 0, light |-> 0, maxChars |-> DefaultMaxChars, interval |-> MinInterval,
             pin |-> FALSE]

Clamp(n, lo, hi) == IF n < lo THEN lo ELSE IF n > hi THEN hi ELSE n

Sanitise(s) ==
  [s EXCEPT !.maxChars = IF @ <= 0 THEN DefaultMaxChars ELSE @,
            !.interval = IF @ < MinInterval THEN MinInterval ELSE @,
            !.font = Clamp(@, 0, FontSteps - 1),
            !.light = IF @ < 0 THEN 0 ELSE @]

EncodeSettings(s) ==
  << <<"font_step", s.font>>, <<"frontlight_step", s.light>>, <<"max_letter_chars", s.maxChars>>,
     <<"sync_interval_s", s.interval>>, <<"pin_enabled", s.pin>> >>

\* Per field tolerant: a missing key keeps the default.
DecodeSettings(r) ==
  LET Get(key, default) ==
        LET at == {i \in DOMAIN r : r[i][1] = key}
        IN IF at = {} THEN default ELSE r[CHOOSE i \in at : TRUE][2]
  IN [font |-> Get("font_step", Defaults.font), light |-> Get("frontlight_step", Defaults.light),
      maxChars |-> Get("max_letter_chars", Defaults.maxChars),
      interval |-> Get("sync_interval_s", Defaults.interval),
      pin |-> Get("pin_enabled", Defaults.pin)]

HasRoom == Len(Decoded(text)) + changes < MaxWork

\* fsutil::WriteAtomic reports failure also when only the directory could not
\* be synced after the file was replaced.
WriteOutcomes == {"done", "failed", "unsynced"}
WriteAtomic(data, w) ==
  /\ file' = IF w = "failed" THEN file ELSE data
  /\ unsynced' = IF w = "failed" THEN unsynced ELSE w = "unsynced"

\* Mutant: what is written is not what is kept.
CommitRaw(next, w) ==
  /\ HasRoom /\ changes' = changes + 1
  /\ WriteAtomic(EncodeSettings(next), w)
  /\ settings' = IF w = "done" THEN next ELSE settings

Commit(next, w) ==
  /\ HasRoom /\ changes' = changes + 1
  /\ WriteAtomic(EncodeSettings(Sanitise(next)), w)
  /\ settings' = IF w = "done" THEN Sanitise(next) ELSE settings

\* ApplyConfig: field by field, absent means untouched.
ApplyConfig(c, w) ==
  LET Or(pushed, mine) == IF pushed = Absent THEN mine ELSE pushed
  IN /\ Commit([settings EXCEPT !.maxChars = Or(c.maxChars, @), !.interval = Or(c.interval, @)],
               w)
     /\ UNCHANGED <<screen, text, cap, book, ring, hist>>

SetPinEnabled(w) ==
  /\ Commit([settings EXCEPT !.pin = ~@], w)
  /\ UNCHANGED <<screen, text, cap, book, ring, hist>>

---------------------------------------------------------------------------
(* The reading screen *)

\* AppImpl::Paginate: there is always a page.
PagesFor(body, font) ==
  LET Some(pages) == IF pages = <<>> THEN << <<>> >> ELSE pages IN Some(Paginate(body, font))

OpenSelectedLetter ==
  /\ screen = "write" /\ text # <<>>
  /\ book' = [pages |-> PagesFor(text, settings.font), page |-> 1]
  /\ screen' = "read"
  /\ UNCHANGED <<settings, disk, text, cap, ring, changes, hist>>

KeyRead(d) ==
  /\ screen = "read" /\ book.page + d \in 1..Len(book.pages)
  /\ book' = [book EXCEPT !.page = @ + d]
  /\ UNCHANGED <<settings, disk, screen, text, cap, ring, changes, hist>>

\* Mutant: the page is not brought back into range.
CycleFontFar(w) ==
  /\ screen = "settings"
  /\ Commit([settings EXCEPT !.font = (@ + 1) % FontSteps], w)
  /\ book' = IF book.pages = <<>> THEN book
             ELSE [book EXCEPT !.pages = PagesFor(text, settings'.font)]
  /\ UNCHANGED <<screen, text, cap, ring, hist>>

\* CycleFont repaginates the letter that was last opened, whatever the write did.
CycleFont(w) ==
  /\ screen = "settings"
  /\ Commit([settings EXCEPT !.font = (@ + 1) % FontSteps], w)
  /\ \/ book.pages = <<>> /\ UNCHANGED book
     \/ /\ book.pages # <<>>
        /\ \E pages \in {PagesFor(text, settings'.font)} :
             book' = [pages |-> pages,
                      page |-> IF book.page > Len(pages) THEN Len(pages) ELSE book.page]
  /\ UNCHANGED <<screen, text, cap, ring, hist>>

CycleFrontlight(w) ==
  /\ screen = "settings"
  /\ Commit([settings EXCEPT !.light = (@ + 1) % LightSteps], w)
  /\ UNCHANGED <<screen, text, cap, book, ring, hist>>

---------------------------------------------------------------------------
(* The writing screen *)

\* KeyWrite, kChar: at the cap the key is refused, and a cluster that appeared
\* past the cap is taken back.
KeyWrite(cp) ==
  LET typed == AppendCodepoint(text, cp)
  IN /\ screen = "write" /\ CountGraphemes(text) < cap /\ HasRoom
     /\ text' = IF CountGraphemes(typed) > cap THEN TruncateGraphemes(typed, cap) ELSE typed
     /\ UNCHANGED <<settings, disk, screen, cap, book, ring, changes, hist>>

KeyErase ==
  /\ screen = "write" /\ text # <<>>
  /\ text' = EraseLastGrapheme(text)
  /\ UNCHANGED <<settings, disk, screen, cap, book, ring, changes, hist>>

\* OpenCompose: the cap is read here and not again while writing.
OpenCompose ==
  /\ screen = "settings"
  /\ screen' = "write" /\ cap' = settings.maxChars
  /\ book' = [pages |-> <<>>, page |-> 1]
  /\ UNCHANGED <<settings, disk, text, ring, changes, hist>>

\* Back from reading or from the log, and on to the settings.
KeyBack ==
  /\ screen \in {"read", "write", "log"} /\ screen' = "settings"
  /\ UNCHANGED <<settings, disk, text, cap, book, ring, changes, hist>>

---------------------------------------------------------------------------
(* kipu.cpp *)

BuildKipu(battery, rssi, queued) ==
  [battery |-> Clamp(battery, 0, 100), rssi |-> Clamp(rssi, -199, 99),
   queued |-> Clamp(queued, 0, 9999)]

\* Mutant: the oldest index does not move when the ring is full.
RecordStuck(e) ==
  ring' = IF Len(ring.entries) < LogCapacity THEN [ring EXCEPT !.entries = Append(@, e)]
          ELSE [ring EXCEPT !.entries[ring.oldest + 1] = e]

Record(e) ==
  ring' = IF Len(ring.entries) < LogCapacity THEN [ring EXCEPT !.entries = Append(@, e)]
          ELSE [entries |-> [ring.entries EXCEPT ![ring.oldest + 1] = e],
                oldest |-> (ring.oldest + 1) % LogCapacity]

\* Newest first.
Recent(n) ==
  LET have == Len(ring.entries)
      count == IF n < have THEN n ELSE have
  IN [i \in 1..count |-> ring.entries[((ring.oldest + have - i) % have) + 1]]

\* A sync recorded its health block.
SyncRecorded(battery) ==
  LET e == BuildKipu(battery, 0, changes)
  IN /\ HasRoom /\ changes' = changes + 1
     /\ Record(e)
     /\ hist' = Append(hist, e)
     /\ UNCHANGED <<settings, disk, screen, text, cap, book>>

OpenLog ==
  /\ screen = "settings" /\ screen' = "log"
  /\ UNCHANGED <<settings, disk, text, cap, book, ring, changes, hist>>

---------------------------------------------------------------------------
(* The view and its rows *)

\* BuildRead, BuildWrite and BuildLog, as far as their lines go; the title
\* takes a row, the footer another.
BuildRead == book.pages[book.page]
BuildWrite == BreakLines(text, CharsPerLine(settings.font))
BuildLog == Recent(LogCapacity)

ViewLines ==
  CASE screen = "read" -> BuildRead
    [] screen = "write" -> BuildWrite
    [] screen = "log" -> BuildLog
    [] OTHER -> <<>>

\* Paint: LinesPerPage rows, the title on the first, the last kept for the footer.
Painted ==
  LET rows == LinesPerPage(settings.font)
      room == IF rows < 2 THEN 0 ELSE rows - 2
      Top(lines) == SubSeq(lines, 1, IF Len(lines) < room THEN Len(lines) ELSE room)
  IN Top(ViewLines)

---------------------------------------------------------------------------

Init ==
  /\ settings = Defaults /\ file = <<>> /\ unsynced = FALSE
  /\ screen = "write" /\ text = <<>> /\ cap = DefaultMaxChars
  /\ book = [pages |-> <<>>, page |-> 1]
  /\ ring = [entries |-> <<>>, oldest |-> 0]
  /\ changes = 0 /\ hist = <<>>

\* A boot: the settings are read back, the log is empty, the letter is kept.
Reopen ==
  /\ settings' = Sanitise(DecodeSettings(file))
  /\ screen' = "settings" /\ book' = [pages |-> <<>>, page |-> 1]
  /\ ring' = [entries |-> <<>>, oldest |-> 0] /\ hist' = <<>>
  /\ unsynced' = FALSE
  /\ UNCHANGED <<file, text, cap, changes>>

Next ==
  \/ Reopen \/ OpenSelectedLetter \/ OpenCompose \/ KeyBack \/ KeyErase \/ OpenLog
  \/ \E d \in {-1, 1} : KeyRead(d)
  \/ \E cp \in Keys : KeyWrite(cp)
  \/ SyncRecorded(101)
  \/ \E w \in WriteOutcomes :
       \/ \E c \in Configs : ApplyConfig(c, w)
       \/ SetPinEnabled(w) \/ CycleFont(w) \/ CycleFrontlight(w)

Spec == Init /\ [][Next]_vars

---------------------------------------------------------------------------
(* Properties *)

\* The stateful segmenter of utf8proc, fed as layout.cpp feeds it, cuts the
\* text where the rules of UAX #29 do, seen from the whole text at once.
ClustersAreWhole ==
  {GraphemeBoundaries(text)[i] : i \in DOMAIN GraphemeBoundaries(text)}
    = ReferenceBoundaries(Decoded(text)) \cup {Len(text)}

Blanks(c) == IsNewlineCluster(c) \/ IsSpaceCluster(c)
Visible(s) == SelectSeq(Clusters(s), LAMBDA c : ~Blanks(c))

\* At every font, no line is wider than the panel and the lines hold every
\* visible cluster of the text, whole and in order, whatever was wrapped.
LinesFit ==
  \A font \in 0..(FontSteps - 1) :
    \A lines \in {BreakLines(text, CharsPerLine(font))} :
      /\ \A i \in DOMAIN lines : CountGraphemes(lines[i]) <= CharsPerLine(font)
      /\ FlattenSeq([i \in DOMAIN lines |-> Visible(lines[i])]) = Visible(text)

\* The reading screen stands on a page of the letter, and the pages are its
\* lines at the font in force, through page turns and font changes.
PagesWhole ==
  book.pages # <<>> =>
    /\ book.page \in DOMAIN book.pages
    /\ FlattenSeq(book.pages) = BreakLines(text, CharsPerLine(settings.font))
    /\ \A i \in DOMAIN book.pages : Len(book.pages[i]) <= LinesPerPage(settings.font)

\* A record reads back as it was written, newlines, backslashes and all; cut
\* anywhere by the power, it reads back as its first fields and nothing else.
CutRecordsDecode ==
  LET r == << <<115, <<Equals, LF>> >>, <<98, text>> >>
      enc == EncodeRecord(r)
      back == [i \in DOMAIN r |-> <<(<<r[i][1]>>), r[i][2]>>]
  IN \A n \in 0..Len(enc) :
       LET d == DecodeRecord(SubSeq(enc, 1, n))
       IN d = SubSeq(back, 1, Len(d)) /\ (n = Len(enc) => d = back)

\* A boot at this moment finds the settings in force, unless the last write
\* failed after it had replaced the file; and those in force and those on the
\* file are usable: a letter may be written, the radio is not up all the time.
SettingsSurvive ==
  LET booted == Sanitise(DecodeSettings(file))
  IN /\ unsynced \/ booted = settings
     /\ \A s \in {settings, DecodeSettings(file)} :
          s.maxChars > 0 /\ s.interval >= MinInterval /\ s.font \in 0..(FontSteps - 1)

\* What "what my Chaski tells home" lists is the latest health blocks, newest first.
LogIsTheLatest ==
  LET k == Len(Recent(LogCapacity))
  IN /\ k = IF Len(hist) < LogCapacity THEN Len(hist) ELSE LogCapacity
     /\ \A i \in 1..k : Recent(LogCapacity)[i] = hist[Len(hist) + 1 - i]

\* "Page is one screenful of already-broken lines": every line of the page that
\* is open is on the glass.  Paint takes the title and the footer out of
\* LinesPerPage, which has already left them out.
WholePageShown == screen = "read" => Painted = ViewLines
=============================================================================
