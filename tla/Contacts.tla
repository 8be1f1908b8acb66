------------------------------ MODULE Contacts ------------------------------
(***************************************************************************)
(* The contact table of internal/ayllu, as values: how an address resolves *)
(* and what each mutation makes of the table.  Rows are never deleted, and *)
(* an address a row leaves stays among its past ones.                      *)
(*                                                                         *)
(* A table is a function from the ids in use to rows.  Ids are numbers     *)
(* only because resolution scans them in sorted order; addresses are taken *)
(* as normalised.  Names, portraits and the rest of the youth's overlay    *)
(* decide nothing here and are left out.                                   *)
(***************************************************************************)
EXTENDS Integers, FiniteSets

CONSTANTS
  Ids,          \* contact ids that may be drawn
  Addrs,        \* addresses a contact may have
  MaxContacts   \* ayllu.max_contacts, tombstones included

ASSUME ContactsAssumptions ==
  /\ Ids \in SUBSET Nat
  /\ MaxContacts \in Nat

Row == [addr : Addrs, past : SUBSET Addrs, active : BOOLEAN]
Tables == UNION {[S -> Row] : S \in SUBSET Ids}

EmptyTable == [i \in {} |-> [addr |-> 0, past |-> {}, active |-> FALSE]]

FirstOf(S) == {i \in S : \A j \in S : i <= j}

\* Rows that are, or once were, at address a.
RowsAt(t, a) == {i \in DOMAIN t : t[i].addr = a \/ a \in t[i].past}

\* The row a sender resolves to in the full table, as a set of at most one id.
Resolve(t, a) == FirstOf(RowsAt(t, a))

\* The same over the active rows, by current address alone.
ResolveActive(t, a) == FirstOf({i \in DOMAIN t : t[i].active /\ t[i].addr = a})

\* A row moved to address a: retainPast keeps the old one, and only it.
Moved(r, a) ==
  IF r.addr = a THEN r
  ELSE [r EXCEPT !.addr = a, !.past = (@ \cup {r.addr}) \ {a}]

\* The tables each mutation may lead to: none when it is refused.
AfterAdd(t, a) ==
  IF RowsAt(t, a) # {}
  THEN {[t EXCEPT ![i] = [Moved(@, a) EXCEPT !.active = TRUE]] : i \in Resolve(t, a)}
  ELSE {[j \in DOMAIN t \cup {i} |->
           IF j = i THEN [addr |-> a, past |-> {}, active |-> TRUE] ELSE t[j]] :
          i \in IF Cardinality(DOMAIN t) < MaxContacts THEN Ids \ DOMAIN t ELSE {}}

AfterDeactivate(t, i) == {[t EXCEPT ![j].active = FALSE] : j \in {i} \cap DOMAIN t}

AfterReactivate(t, i) == {[t EXCEPT ![j].active = TRUE] : j \in {i} \cap DOMAIN t}

AfterReaddress(t, i, a) ==
  {[t EXCEPT ![j] = Moved(@, a)] : j \in {k \in {i} \cap DOMAIN t : t[k].addr # a}}

\* Every change a guardian can make to the table.
Changes(t) ==
  (UNION {AfterAdd(t, a) : a \in Addrs})
    \cup (UNION {AfterDeactivate(t, i) : i \in Ids})
    \cup (UNION {AfterReactivate(t, i) : i \in Ids})
    \cup (UNION {AfterReaddress(t, i, a) : i \in Ids, a \in Addrs})
=============================================================================
