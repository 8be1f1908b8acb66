----------------------------- MODULE MCDelivery -----------------------------
(***************************************************************************)
(* Delivery on small instances: who sends which letter.                    *)
(***************************************************************************)
EXTENDS Delivery

OneSender == <<1, 1>>

\* late and shutOut are read by RemovedStaysOut alone; no property or action tells
\* skipped and beyond apart.
View ==
  <<mailVars, contacts, started, highWater, pass, syncVars, deviceVars, boundVars,
    got, skipped \cup beyond, settled>>
=============================================================================
