-------------------------------- MODULE Wire --------------------------------
(***************************************************************************)
(* components/wire: what one sync carries, and how the device reads it.  A *)
(* JSON value is [t |-> its type, v |-> its value]; an object's value is a *)
(* function from the field names it has.                                   *)
(***************************************************************************)
EXTENDS Integers, Sequences, SequencesExt

Str(v) == [t |-> "string", v |-> v]
Bool(v) == [t |-> "bool", v |-> v]
Arr(v) == [t |-> "array", v |-> v]
Obj(v) == [t |-> "object", v |-> v]

AckStatuses == {"sent", "rejected_inactive", "rejected_unknown_contact", "invalid",
                "rejected_undeliverable", "unknown"}

ParseAckStatus(s) == IF s \in AckStatuses \ {"unknown"} THEN s ELSE "unknown"

---------------------------------------------------------------------------
(* Field readers: a missing or wrong-typed field is its default. *)

FieldOr(o, key, type, def) == IF key \in DOMAIN o /\ o[key].t = type THEN o[key].v ELSE def

StringOr(o, key, def) == FieldOr(o, key, "string", def)
Int64Or(o, key, def) == FieldOr(o, key, "number", def)
Uint64Or(o, key, def) == LET n == Int64Or(o, key, def) IN IF n < 0 THEN def ELSE n
BoolOr(o, key, def) == FieldOr(o, key, "bool", def)
Has(o, key, type) == key \in DOMAIN o /\ o[key].t = type
RequiredString(o, key) == Has(o, key, "string")
RequiredId(o, key) == RequiredString(o, key) /\ o[key].v # ""

---------------------------------------------------------------------------
(* Acks, letters, contacts, config *)

IsAck(j) == j.t = "object" /\ RequiredId(j.v, "local_id") /\ RequiredString(j.v, "status")
DecodeAck(o) == [local_id |-> o["local_id"].v, status |-> ParseAckStatus(o["status"].v)]

IsLetter(j) == j.t = "object" /\ RequiredId(j.v, "id")
DecodeLetter(o) ==
  [id |-> o["id"].v, contact_id |-> StringOr(o, "contact_id", ""),
   subject |-> StringOr(o, "subject", ""), date |-> Int64Or(o, "date", 0),
   body |-> StringOr(o, "body", ""),
   flags |-> {f \in {"trimmed", "truncated", "degraded"} : BoolOr(o, f, FALSE)}]

IsContact(j) == j.t = "object" /\ RequiredId(j.v, "id")
DecodeContact(o) ==
  [id |-> o["id"].v, name |-> StringOr(o, "name", ""), active |-> BoolOr(o, "active", FALSE),
   pinned |-> BoolOr(o, "pinned", FALSE), order |-> Int64Or(o, "order", 0),
   portrait |-> StringOr(o, "portrait", "")]

\* What the block carried, and nothing else: an absent field stays absent.
DecodeConfig(o) ==
  LET carried == {k \in {"max_letter_chars", "sync_interval_s"} : Has(o, k, "number")}
                 \cup {k \in {"rat", "cover"} : Has(o, k, "string")}
  IN [k \in carried |-> o[k].v]

Items(o, key) == FieldOr(o, key, "array", <<>>)
IsArray(v) == Len(v) \in Nat /\ DOMAIN v = 1..Len(v)
All(items, Is(_)) == \A i \in DOMAIN items : Is(items[i])
Each(items, decode(_)) == [i \in DOMAIN items |-> decode(items[i].v)]

Rejected == [ok |-> FALSE]

\* Mutant: an item that cannot be read is left out and the rest is kept.
DecodeResponseLoose(j) ==
  IF j.t # "object" \/ ~RequiredString(j.v, "cursor") THEN Rejected
  ELSE [ok |-> TRUE, cursor |-> j.v["cursor"].v, server_time |-> 0, pututu_counter |-> 0,
        more |-> BoolOr(j.v, "more", FALSE),
        acks |-> Each(SelectSeq(Items(j.v, "acks"), IsAck), DecodeAck),
        letters |-> Each(SelectSeq(Items(j.v, "letters"), IsLetter), DecodeLetter),
        ayllu |-> <<>>, config |-> <<>>]

\* All or nothing: one item that cannot be read refuses the response.  The
\* ayllu and the config are <<>> when absent and a sequence of one otherwise.
DecodeResponse(j) ==
  LET o == j.v
      ayllu == FieldOr(o, "ayllu", "object", <<>>)
      contacts == IF Has(o, "ayllu", "object") THEN Items(ayllu, "contacts") ELSE <<>>
  IN IF \/ j.t # "object" \/ ~RequiredString(o, "cursor")
        \/ ~All(Items(o, "acks"), IsAck) \/ ~All(Items(o, "letters"), IsLetter)
        \/ ~All(contacts, IsContact)
       THEN Rejected
     ELSE [ok |-> TRUE, cursor |-> o["cursor"].v,
           server_time |-> Int64Or(o, "server_time", 0),
           pututu_counter |-> Uint64Or(o, "pututu_counter", 0),
           more |-> BoolOr(o, "more", FALSE),
           acks |-> Each(Items(o, "acks"), DecodeAck),
           letters |-> Each(Items(o, "letters"), DecodeLetter),
           ayllu |-> IF ~Has(o, "ayllu", "object") THEN <<>>
                     ELSE <<[version |-> Int64Or(ayllu, "version", 0),
                             contacts |-> Each(contacts, DecodeContact)]>>,
           config |-> IF Has(o, "config", "object") THEN <<DecodeConfig(o["config"].v)>> ELSE <<>>]
=============================================================================
