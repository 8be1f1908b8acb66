--------------------------- MODULE OutboxPromise ---------------------------
(***************************************************************************)
(* What the child is promised about a letter, whatever the radio, the      *)
(* power and the two processes do: a letter that was put in the bag stays  *)
(* there until the mail relay has taken it or until it comes back to the   *)
(* child as undeliverable, text intact.  Nothing here says how the device  *)
(* and the server keep the promise; Outbound implements it.                *)
(***************************************************************************)
EXTENDS Naturals

VARIABLES
  written,    \* the letters that were put in the bag, numbered from 1
  held,       \* letters waiting in the bag
  returned,   \* letters that came back as "couldn't send"
  delivered   \* letters the mail relay has accepted at least once

vars == <<written, held, returned, delivered>>

Init ==
  /\ written = 0
  /\ held = {}
  /\ returned = {}
  /\ delivered = {}

\* The child puts a new letter in the bag.
Write ==
  /\ written' = written + 1
  /\ held' = held \cup {written + 1}
  /\ UNCHANGED <<returned, delivered>>

\* The relay accepts a letter; a repeat changes nothing here.
Deliver(n) ==
  /\ delivered' = delivered \cup {n}
  /\ UNCHANGED <<written, held, returned>>

\* A letter leaves the bag for good only once the relay has it.
Retire(n) ==
  /\ n \in delivered
  /\ held' = held \ {n}
  /\ returned' = returned \ {n}
  /\ UNCHANGED <<written, delivered>>

\* A letter comes back to the child: one that was waiting, or one the relay
\* took although no answer said so.
Return(n) ==
  /\ n \in held \cup delivered
  /\ held' = held \ {n}
  /\ returned' = returned \cup {n}
  /\ UNCHANGED <<written, delivered>>

\* The child reopens a returned letter as a draft.
TakeBack(n) ==
  /\ n \in returned
  /\ returned' = returned \ {n}
  /\ UNCHANGED <<written, held, delivered>>

\* A power cut may forget that letters came back; they wait in the bag again.
Forget(S) ==
  /\ held' = held \cup S
  /\ returned' = returned \ S
  /\ UNCHANGED <<written, delivered>>

Next ==
  \/ Write
  \/ \E S \in SUBSET returned : Forget(S)
  \/ \E n \in 1..written :
       Deliver(n) \/ Retire(n) \/ Return(n) \/ TakeBack(n)

Spec == Init /\ [][Next]_vars
============================================================================
