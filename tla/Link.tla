-------------------------------- MODULE Link --------------------------------
(***************************************************************************)
(* One cable, two readers: the bench command loop (main/bench_control.cpp) *)
(* and the sync transport (usbbridge.cpp) take turns reading the same pipe *)
(* with a decoder each, while the host bridge (tools/chaskibridge, outside *)
(* the device) writes commands and the answers of requests it forwarded.   *)
(* The sync engine's retry state (syncengine.cpp) decides what an answer   *)
(* does to the next attempt.                                               *)
(*                                                                         *)
(* Requests and events leave the device whole; the pipe to the device is   *)
(* read in chunks of any size.                                             *)
(***************************************************************************)
EXTENDS Frames, Wire

CONSTANTS Commands,       \* the verbs the host sends
          Answers,        \* what a request may be answered with: [outcome, status, retry, body]
          MaxDrainRounds, \* Options::max_drain_rounds
          ReadCells,      \* the most one read of the driver returns
          MaxCommands,    \* bound: commands
          MaxLate         \* bound: requests given up whose answer is still to come

ASSUME LinkAssumption ==
  /\ {MaxDrainRounds, ReadCells, MaxCommands, MaxLate} \subseteq Nat \ {0}
  /\ \A a \in Answers : a.outcome \in WireOutcomes /\ a.retry \in Int
  /\ \A a \in Answers, key \in {"acks", "letters"} :
       a.body.t = "object" => IsArray(Items(a.body.v, key))

VARIABLES
  pipe,       \* cells on the way to the device
  host,       \* [waiting, sent]: the command the host waits on (0 none), commands so far
  inflight,   \* requests at the bridge, not yet answered
  serve,      \* the command loop's decoder, at a frame when it has one
  dev,        \* what the device does: [at, job, seq, req, rounds, dec, era]
  engine,     \* consecutive_failures_, retry_after_ms_, halted_
  applied     \* the answer the last step applied and the request it was for, for the properties

vars == <<pipe, host, inflight, serve, dev, engine, applied>>

---------------------------------------------------------------------------
(* syncengine.cpp: faults and the ladder *)

Faults == {"none", "noSignal", "cantReachHome", "provisioningFault", "roadBusy", "serverFault"}
LadderMs == <<30000, 120000, 600000>>
NextScheduledWake == 0
Halted == -1

FaultFor(a) ==
  CASE a.outcome = "tlsTrustFail" -> "cantReachHome"
    [] a.outcome = "transportFail" -> "noSignal"
    [] OTHER -> CASE a.status = 200 -> "none" [] a.status = 401 -> "provisioningFault"
                  [] a.status = 503 -> "roadBusy" [] OTHER -> "serverFault"

Fresh == [failures |-> 0, retryMs |-> 0, halted |-> FALSE]

NoteFailure(e, fault, retryS) ==
  IF fault = "provisioningFault" THEN [e EXCEPT !.halted = TRUE, !.retryMs = 0]
  ELSE IF fault = "roadBusy" /\ retryS > 0
    THEN [e EXCEPT !.retryMs = 1000 * (IF retryS < 86400 THEN retryS ELSE 86400)]
  ELSE [e EXCEPT !.retryMs = 0, !.failures = @ + 1]

NextBackoffMs(e) ==
  IF e.halted THEN Halted
  ELSE IF e.retryMs > 0 THEN e.retryMs
  ELSE IF e.failures \in DOMAIN LadderMs THEN LadderMs[e.failures] ELSE NextScheduledWake

---------------------------------------------------------------------------
(* The host *)

NoRequest == [seq |-> 0, req |-> 0, era |-> 0]
Nothing == [for |-> NoRequest, by |-> NoRequest, sent |-> Str(""), took |-> Rejected]
NoBytes == [buf |-> <<>>, frame |-> <<>>]
Quiet == applied' = Nothing

\* One command at a time: the host waits for the event that carries its id.
HostSends(cmd) ==
  /\ host.waiting = 0 /\ host.sent < MaxCommands
  /\ host' = [waiting |-> host.sent + 1, sent |-> host.sent + 1]
  /\ pipe' = pipe \o Encode([type |-> "command", cmd |-> cmd, id |-> host.sent + 1])
  /\ Quiet /\ UNCHANGED <<inflight, serve, dev, engine>>

\* The bridge forwards a request and writes what came back, however late.
BridgeAnswers(r, a) ==
  /\ r \in inflight
  /\ inflight' = inflight \ {r}
  /\ pipe' = pipe \o Encode([type |-> "response", seq |-> r.seq, req |-> r, answer |-> a])
  /\ Quiet /\ UNCHANGED <<host, serve, dev, engine>>

Heard(id) == host' = [host EXCEPT !.waiting = IF @ = id THEN 0 ELSE @]

---------------------------------------------------------------------------
(* The transport *)

\* The sequence number has sixteen bits.
SeqSpace == 65536

\* UsbBridgeTransport::Sync, up to the write: a new sequence number.
Request(d) ==
  LET r == [seq |-> (d.seq + 1) % SeqSpace, req |-> d.req + 1, era |-> d.era]
  IN /\ inflight' = inflight \cup {r}
     /\ dev' = [d EXCEPT !.at = "sync", !.seq = r.seq, !.req = r.req]

\* What RunOnce ends with: the event the command asked for, or the boot's hello.
Ended(d) == [d EXCEPT !.at = "serve", !.job = 0, !.rounds = 0]

SyncEnds(d, e) == dev' = Ended(d) /\ engine' = e /\ Heard(d.job) /\ UNCHANGED inflight

SyncReads(n) ==
  /\ dev.at = "sync" /\ n \in 1..Len(pipe) /\ dev.dec.frame = <<>>
  /\ dev' = [dev EXCEPT !.dec = DecoderNext(@.buf \o SubSeq(pipe, 1, n))]
  /\ pipe' = SubSeq(pipe, n + 1, Len(pipe))
  /\ Quiet /\ UNCHANGED <<host, inflight, serve, engine>>

\* Mutant: the sequence number is not compared.
IsOursLoose(frame) == frame.type = "response"

\* A command, or the answer of an exchange that was given up, is not ours.
IsOurs(frame) == frame.type = "response" /\ frame.seq = dev.seq

\* A frame is decoded: not ours is dropped; ours ends the exchange, and RunOnce
\* goes on to the next round, or ends.
SyncFrame ==
  LET frame == dev.dec.frame[1]
      read == [dev EXCEPT !.dec = DecoderNext(@.buf)]
      d == [read EXCEPT !.rounds = @ + 1]
      fault == FaultFor(frame.answer)
      body == DecodeResponse(frame.answer.body)
  IN /\ dev.at = "sync" /\ dev.dec.frame # <<>>
     /\ IF ~IsOurs(frame)
          THEN dev' = read /\ Quiet /\ UNCHANGED <<host, inflight, engine>>
        ELSE IF fault # "none"
          THEN /\ SyncEnds(d, NoteFailure(engine, fault,
                                          ParseRetryAfterSeconds(frame.answer.retry)))
               /\ Quiet
        ELSE IF ~body.ok
          THEN SyncEnds(d, NoteFailure(engine, "serverFault", 0)) /\ Quiet
        ELSE /\ applied' = [for |-> frame.req, by |-> [seq |-> dev.seq, req |-> dev.req,
                                                       era |-> dev.era],
                            sent |-> frame.answer.body, took |-> body]
             /\ \/ /\ body.more /\ d.rounds < MaxDrainRounds
                   /\ Request(d) /\ UNCHANGED <<host, engine>>
                \/ SyncEnds(d, Fresh)     \* no more, or a write failed (apply_incomplete)
     /\ UNCHANGED <<pipe, serve>>

\* The deadline passes with no frame of ours: no signal.  Its answer may still
\* come, or never.
SyncTimesOut ==
  /\ dev.at = "sync" /\ dev.dec.frame = <<>>
  /\ dev' = Ended(dev)
  /\ engine' = NoteFailure(engine, "noSignal", 0) /\ Heard(dev.job)
  /\ inflight' \in {s \in {inflight, {r \in inflight : r.req # dev.req}} : Cardinality(s) <= MaxLate}
  /\ Quiet /\ UNCHANGED <<pipe, serve>>

---------------------------------------------------------------------------
(* The command loop *)

ServeReads(n) ==
  /\ dev.at = "serve" /\ n \in 1..Len(pipe) /\ serve.frame = <<>>
  /\ serve' = DecoderNext(serve.buf \o SubSeq(pipe, 1, n))
  /\ pipe' = SubSeq(pipe, n + 1, Len(pipe))
  /\ Quiet /\ UNCHANGED <<host, inflight, dev, engine>>

\* Mutant: the halt is not looked at.
RunSyncAnyway(trigger, id) ==
  /\ Request([dev EXCEPT !.job = id])
  /\ engine' = IF trigger = "userKey" THEN Fresh ELSE engine
  /\ UNCHANGED host

\* RunSync: a halt lets only the deliberate press through, which also clears it.
RunSync(trigger, id) ==
  IF trigger # "userKey" /\ NextBackoffMs(engine) = Halted
    THEN Heard(id) /\ UNCHANGED <<inflight, dev, engine>>
    ELSE /\ Request([dev EXCEPT !.job = id])
         /\ engine' = IF trigger = "userKey" THEN Fresh ELSE engine
         /\ UNCHANGED host

\* BuildEngine makes a transport and an engine anew, after SetDeviceToken and
\* after Reformat; a token that cannot be written changes nothing and is
\* answered too.
BuildEngine ==
  /\ dev' = [dev EXCEPT !.seq = 0, !.dec = NoBytes, !.era = @ + 1]
  /\ engine' = Fresh

SetDeviceToken(id) ==
  Heard(id) /\ UNCHANGED inflight /\ (BuildEngine \/ UNCHANGED <<dev, engine>>)

Reformat(id) == Heard(id) /\ UNCHANGED inflight /\ BuildEngine

\* esp_restart, after the verb that asks for it: the boot syncs, then says hello.
\* A restart at an armed cut inside ApplyResponse is not a step of this module.
\* What the driver had buffered is lost, the rest of the pipe is not.
Restart(d, buf, keep) ==
  /\ pipe' = SubSeq(pipe, Len(pipe) - keep + 1, Len(pipe))
  /\ serve' = NoBytes
  /\ Request([d EXCEPT !.seq = 0, !.dec = NoBytes, !.era = @ + 1, !.rounds = 0, !.job = buf])
  /\ engine' = Fresh /\ Quiet /\ UNCHANGED host

\* The verbs that only report: they read the stores and change nothing.  One it
\* does not know is answered too, with an error.
Reports == {"hello", "state", "letters", "letter", "outbox", "unknown"}

\* The verbs that write to a store, which this module does not keep: answered
\* whether the write worked or not.
Writes == {"compose", "mark_read", "clear_cursor"}

\* The trigger field of a sync command is part of its verb here.
SyncVerbs == {"sync", "syncUser", "syncDoorbell", "syncOutbound"}
TriggerNamed(verb) ==
  CASE verb = "syncUser" -> "userKey" [] verb = "syncDoorbell" -> "pututu"
    [] verb = "syncOutbound" -> "outboundQueued" [] OTHER -> "scheduled"

ASSUME CommandsAssumption ==
  Commands \subseteq SyncVerbs \cup Reports \cup Writes \cup {"provision", "factory_reset", "reboot"}

\* Dispatch: one command, one event with its id, or a reboot whose hello the host takes for it.
ServeFrame ==
  LET frame == serve.frame[1]
  IN /\ dev.at = "serve" /\ serve.frame # <<>>
     /\ IF frame.type # "command"
          THEN serve' = DecoderNext(serve.buf) /\ Quiet /\ UNCHANGED <<pipe, host, inflight, dev, engine>>
        ELSE IF frame.cmd = "reboot"
          THEN \E keep \in 0..Len(pipe) : Restart(dev, frame.id, keep)
        ELSE /\ serve' = DecoderNext(serve.buf) /\ Quiet /\ UNCHANGED pipe
             /\ CASE frame.cmd \in SyncVerbs -> RunSync(TriggerNamed(frame.cmd), frame.id)
                  [] frame.cmd = "provision" -> SetDeviceToken(frame.id)
                  [] frame.cmd = "factory_reset" -> Reformat(frame.id)
                  [] frame.cmd \in Reports \cup Writes ->
                       Heard(frame.id) /\ UNCHANGED <<inflight, dev, engine>>

---------------------------------------------------------------------------

Init ==
  /\ pipe = <<>> /\ host = [waiting |-> 0, sent |-> 0] /\ inflight = {} /\ serve = NoBytes
  /\ dev = [at |-> "serve", job |-> 0, seq |-> 0, req |-> 0, rounds |-> 0, dec |-> NoBytes, era |-> 1]
  /\ engine = Fresh
  /\ applied = Nothing

DeviceReads == \E n \in 1..ReadCells : SyncReads(n) \/ ServeReads(n)

DeviceStep == DeviceReads \/ SyncFrame \/ SyncTimesOut \/ ServeFrame

Next ==
  \/ \E cmd \in Commands : HostSends(cmd)
  \/ \E r \in inflight, a \in Answers : BridgeAnswers(r, a)
  \/ DeviceStep

\* The device's one thread runs; the host and the bridge owe nothing.
Fairness == WF_vars(DeviceStep)

Spec == Init /\ [][Next]_vars /\ Fairness

---------------------------------------------------------------------------
(* Properties *)

\* An answer that is applied was computed for the request it is applied to,
\* cursor and all, however late the answers of earlier ones arrive; unless the
\* numbering began again, at a boot or a new token, in between.
StaleExcused == applied.for # applied.by => applied.for.era # applied.by.era

\* An answer reaches ApplyResponse whole: every ack and every letter it carries
\* is read, or the answer is refused.
WholeOrNothing ==
  applied.took.ok =>
    /\ Len(applied.took.acks) = Len(Items(applied.sent.v, "acks"))
    /\ Len(applied.took.letters) = Len(Items(applied.sent.v, "letters"))

\* After a 401 no request leaves the device until the deliberate press, a new
\* token or a boot.
HaltHolds ==
  [][(engine.halted /\ dev.req # dev'.req) => ~engine'.halted]_vars

\* The head of a frame whose tail the other reader took.
HeadHeld(dec) == dec.frame = <<>> /\ dec.buf # <<>>

\* Every command is answered, unless a reader holds the head of a frame that
\* the other one read the rest of.
CommandAnswered ==
  (host.waiting # 0) ~> (host.waiting = 0 \/ (pipe = <<>> /\ HeadHeld(serve)))

\* "The device answers every command with exactly one event carrying the same
\* id, and the host waits for it" (bench_control.h), with no exception.
EveryCommandAnswered == (host.waiting # 0) ~> (host.waiting = 0)

\* "Matching the sequence is what makes 'one request, one response' true of a
\* shared byte pipe" (frame.h), with no exception.
OneRequestOneResponse == applied.for = applied.by
=============================================================================
