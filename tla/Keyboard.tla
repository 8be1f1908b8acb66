----------------------------- MODULE Keyboard -----------------------------
(***************************************************************************)
(* components/input: the KeebDeck source (keebdeck.cpp) turns level        *)
(* readings of one held cap into events, with debounce and repeat.  A      *)
(* Reading of the bus is a scancode or "error".  Time is in ticks and kept *)
(* as ages: how long the candidate has held, how long until a repeat.      *)
(***************************************************************************)
EXTENDS Integers, Sequences, SequencesExt

CONSTANTS Debounce, RepeatDelay, RepeatInterval,  \* kDebounceMs and the two repeat times
          PendingCapacity,                        \* kPendingCapacity
          MaxDrainPerPump,                        \* kMaxDrainPerPump
          WatchdogTimeout                         \* kWatchdogTimeoutMs

ASSUME KeyboardAssumption ==
  {Debounce, RepeatDelay, RepeatInterval, PendingCapacity, MaxDrainPerPump, WatchdogTimeout}
    \subseteq Nat \ {0}

\* Key, "none" included.
InputKeys == {"none", "up", "down", "left", "right", "enter", "back", "putAway", "sync",
              "frontlight", "char", "erase"}

\* DecodeKeebDeck: a scancode is named by its cap; a cap of no known meaning
\* is no key.
DecodeKeebDeck(scan) ==
  IF scan \in InputKeys \ {"char"} THEN scan
  ELSE IF scan \in {"ascii", "enye", "enyeUpper"} THEN "char" ELSE "none"

Repeatable(key) == key \in {"erase", "char", "up", "down", "left", "right"}

\* KeebDeckSource's members at boot.
SourceAtBoot ==
  [candidate |-> "none", age |-> 0, accepted |-> "none", armed |-> FALSE, due |-> 0,
   repeat |-> "none"]

\* Mutant: an unreadable bus is taken for a release.
PollReleases(kb, raw) ==
  LET seen == IF raw = "error" THEN "none" ELSE raw
  IN IF raw = "error" THEN [kb |-> [kb EXCEPT !.armed = FALSE, !.accepted = "none",
                                              !.candidate = "none"], event |-> "none"]
     ELSE IF seen # kb.candidate
       THEN [kb |-> [kb EXCEPT !.candidate = seen, !.age = 0], event |-> "none"]
     ELSE IF seen = kb.accepted \/ kb.age < Debounce THEN [kb |-> kb, event |-> "none"]
     ELSE [kb |-> [kb EXCEPT !.accepted = seen, !.armed = FALSE], event |-> DecodeKeebDeck(seen)]

\* KeebDeckSource::Repeat: scheduled from now, never owed.
Repeat(kb) ==
  IF kb.armed /\ kb.due = 0 THEN [kb |-> [kb EXCEPT !.due = RepeatInterval], event |-> kb.repeat]
  ELSE [kb |-> kb, event |-> "none"]

\* KeebDeckSource::Poll: one bus reading, at most one event.
Poll(kb, raw) ==
  IF raw = "error"
    THEN [kb |-> [kb EXCEPT !.armed = FALSE, !.due = 0, !.candidate = kb.accepted, !.age = 0],
          event |-> "none"]
  ELSE IF raw # kb.candidate
    THEN [kb |-> [kb EXCEPT !.candidate = raw, !.age = 0], event |-> "none"]
  ELSE IF raw = kb.accepted THEN Repeat(kb)
  ELSE IF kb.age < Debounce THEN [kb |-> kb, event |-> "none"]
  ELSE LET key == DecodeKeebDeck(raw)
           settled == [kb EXCEPT !.accepted = raw, !.armed = FALSE, !.due = 0, !.age = 0]
       IN [kb |-> IF Repeatable(key)
                    THEN [settled EXCEPT !.armed = TRUE, !.due = RepeatDelay, !.repeat = key]
                    ELSE settled,
           event |-> key]

\* A tick of monotonic_ms, as the ages see it; the age of a candidate that is
\* already the accepted key is never read.
Aged(kb) ==
  [kb EXCEPT !.age = IF @ < Debounce /\ kb.candidate # kb.accepted THEN @ + 1 ELSE @,
             !.due = IF @ > 0 THEN @ - 1 ELSE 0]

---------------------------------------------------------------------------
(* The dispatcher's backlog (input.cpp) *)

\* Push drops the newest when full.
Push(pending, key) == IF Len(pending) = PendingCapacity THEN pending ELSE Append(pending, key)

\* Watchdog::Overdue, for the ticks since the last feed.
Overdue(unfed) == unfed >= WatchdogTimeout
=============================================================================
