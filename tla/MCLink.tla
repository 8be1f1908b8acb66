------------------------------- MODULE MCLink -------------------------------
(* Three answers: a good one that says more, one whose second ack has no    *)
(* local id, and a 401.                                                     *)
EXTENDS Link

Ack(id) == Obj([local_id |-> Str(id), status |-> Str("sent")])
Body(acks, more) ==
  Obj([cursor |-> Str("c"), acks |-> Arr(acks), more |-> Bool(more), server_time |-> Str("late")])
Reply(status, body) == [outcome |-> "ok", status |-> status, retry |-> -1, body |-> body]

MCAnswers ==
  { Reply(200, Body(<<Ack("o1")>>, TRUE)), Reply(200, Body(<<Ack("o1"), Ack("")>>, FALSE)),
    Reply(401, Str("")) }
=============================================================================
