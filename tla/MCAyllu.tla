------------------------------- MODULE MCAyllu -------------------------------
(* One friend and the system contact: the guardian renames and pins the     *)
(* friend, the system contact comes as a tombstone and goes again.          *)
EXTENDS Ayllu

C(id, name, active, pinned) ==
  [id |-> id, name |-> name, active |-> active, pinned |-> pinned, order |-> 0]

MCSnapshots ==
  { {C(1, 1, TRUE, FALSE)}, {C(1, 2, TRUE, TRUE), C(3, 1, FALSE, FALSE)} }
=============================================================================
