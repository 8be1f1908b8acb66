------------------------------ MODULE MCCompose ------------------------------
(* Two letters, an outbox of one, so that a letter is parked, rejected and  *)
(* written again while another is in the slot.                              *)
EXTENDS Compose, TLC

CONSTANTS l1, l2, e1, e2

MCLetters == {l1, l2}
MCIds == {e1, e2}
Sym == Permutations(MCLetters) \cup Permutations(MCIds)

\* Past the lock, neither the PIN nor what was entered for it is read until the
\* next Start, before which home may push either value; what excuses a letter is
\* not read while it has no words, and is set anew with them.  States that differ
\* only in these have the same future.
PastLock == awake /\ screen \notin {"cover", "pin"} /\ ~hist.locked
Read == [hist EXCEPT !.excuse =
           [l \in Letters |-> IF hist.newest[l] = 0 THEN "none" ELSE hist.excuse[l]]]
View ==
  IF PastLock
    THEN <<screen, [ui EXCEPT !.unlocked = FALSE, !.wrong = 0, !.wait = 0],
           pending, step, slot, outbox, files, Read>>
    ELSE <<awake, screen, ui, pending, step, slot, outbox, files, pin, Read>>
=============================================================================
