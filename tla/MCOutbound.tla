----------------------------- MODULE MCOutbound -----------------------------
(* Small instances of Outbound for TLC. *)
EXTENDS Outbound

CONSTANTS c1, h1, h2

OneContact == {c1}
OneHandler == {h1}
TwoHandlers == {h1, h2}

Good == [to |-> c1, valid |-> TRUE]
Overlong == [to |-> c1, valid |-> FALSE]
Misaddressed == [to |-> NoContact, valid |-> TRUE]

AllKinds == {Good, Overlong, Misaddressed}
GoodOnly == {Good}
=============================================================================
