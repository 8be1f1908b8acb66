----------------------------- MODULE LinkProofs -----------------------------
(***************************************************************************)
(* Link: whose answer is applied, that it is applied whole, and that a     *)
(* halt holds.  For every set of answers, every size of frames and reads,  *)
(* and any number of commands, rounds and late answers.                    *)
(***************************************************************************)
EXTENDS Link, SieveFacts, SequenceTheorems

---------------------------------------------------------------------------
(* What is on the cable *)

SeqNumbers == 0..(SeqSpace - 1)

Requests == [seq : SeqNumbers, req : Nat, era : Nat]

AllFrames ==
  [type : {"command"}, cmd : Commands, id : Nat]
    \cup [type : {"response"}, seq : SeqNumbers, req : Requests, answer : Answers]

\* A request of this numbering: its distance from the last one is what the
\* sequence numbers say, or they have gone round in between.
Fits(q) ==
  /\ q \in Requests
  /\ q.era <= dev.era
  /\ q.era = dev.era =>
       LET gone == (dev.req - q.req) - (dev.seq - q.seq)
       IN  gone = 0 \/ gone >= SeqSpace

\* A response carries the sequence number of the request it answers.
Sound == {f \in AllFrames : f.type = "response" => f.seq = f.req.seq /\ Fits(f.req)}

\* What is decoded from cells of these frames: cells of them, and a frame of them.
Cells(F) == [frame : F, i : Nat]
Decodes(dec, F) == dec.buf \in Seq(Cells(F)) /\ dec.frame \in Seq(F)

Decoders == [buf : Seq(Cells(AllFrames)), frame : Seq(AllFrames)]

Devices == [at : {"serve", "sync"}, job : Nat, seq : SeqNumbers, req : Nat, rounds : Nat,
            dec : Decoders, era : Nat]
Engines == [failures : Nat, retryMs : Int, halted : BOOLEAN]

LinkType ==
  /\ host \in [waiting : Nat, sent : Nat]
  /\ dev \in Devices
  /\ engine \in Engines

\* Only what the host and the bridge wrote is on the cable or in a decoder.
Genuine ==
  /\ \A r \in inflight : Fits(r)
  /\ pipe \in Seq(Cells(Sound))
  /\ Decodes(serve, Sound)
  /\ Decodes(dev.dec, Sound)

\* A halted engine has no exchange under way.
HaltedRests == engine.halted => dev.at = "serve"

\* The sequence numbers went round between the request that was answered and the
\* one the answer was applied to.
WentRound == applied.by.req - applied.for.req >= SeqSpace

LinkInv == LinkType /\ Genuine /\ HaltedRests /\ (StaleExcused \/ WentRound) /\ WholeOrNothing
---------------------------------------------------------------------------
(* The decoder *)

\* The bytes of a frame are cells of it.
LEMMA EncodeFacts ==
  ASSUME NEW F, NEW f \in F
  PROVE  Encode(f) \in Seq(Cells(F))
<1>1. SizeOf(f) \in Nat
  BY FramesAssumption DEF SizeOf
<1>2. Encode(f) \in [1..SizeOf(f) -> Cells(F)]
  BY DEF Encode, Cells
<1> QED
  BY <1>1, <1>2

\* What it keeps and what it hands out was read, whatever was lost of it.
LEMMA DecoderFacts ==
  ASSUME NEW F, NEW buf \in Seq(Cells(F))
  PROVE  /\ DecoderNext(buf) \in [buf : Seq(Cells(F)), frame : Seq(F)]
         /\ Decodes(DecoderNext(buf), F)
<1> DEFINE i == Min(Stops(buf))
<1>1. CASE Stops(buf) = {}
  BY <1>1 DEF DecoderNext, Decodes
<1>2. CASE Stops(buf) # {}
  <2>1. Stops(buf) \subseteq 1..Len(buf) /\ Len(buf) \in Nat
    BY DEF Stops
  <2>2. \E x \in Stops(buf) : \A y \in Stops(buf) : x <= y
    BY <1>2, <2>1, LeastNat
  <2>3. i \in Stops(buf)
    BY <2>2 DEF Min
  <2> HIDE DEF i
  <2>4. i \in 1..Len(buf) /\ buf[i] \in Cells(F)
    BY <2>1, <2>3
  <2>5. buf[i].frame \in F /\ SizeOf(buf[i].frame) \in Nat \ {0}
    BY <2>4, FramesAssumption DEF Cells, SizeOf
  <2>6. ASSUME NEW m \in Nat \ {0} PROVE SubSeq(buf, m, Len(buf)) \in Seq(Cells(F))
    BY <2>1, <2>6, SubSeqProperties
  <2>7. CASE Complete(buf, i)
    <3> DEFINE m == i + SizeOf(buf[i].frame)
    <3>1. m \in Nat \ {0}
      BY <2>4, <2>5
    <3> HIDE DEF m
    <3>2. SubSeq(buf, m, Len(buf)) \in Seq(Cells(F)) /\ <<buf[i].frame>> \in Seq(F)
      BY <2>5, <2>6, <3>1
    <3>3. DecoderNext(buf) = [buf |-> SubSeq(buf, m, Len(buf)), frame |-> <<buf[i].frame>>]
      BY <1>2, <2>7 DEF DecoderNext, m, i
    <3> QED
      BY <3>2, <3>3 DEF Decodes
  <2>8. CASE ~Complete(buf, i)
    <3>1. SubSeq(buf, i, Len(buf)) \in Seq(Cells(F)) /\ <<>> \in Seq(F)
      BY <2>4, <2>6
    <3>2. DecoderNext(buf) = [buf |-> SubSeq(buf, i, Len(buf)), frame |-> <<>>]
      BY <1>2, <2>8 DEF DecoderNext, i
    <3> QED
      BY <3>1, <3>2 DEF Decodes
  <2> QED
    BY <2>7, <2>8
<1> QED
  BY <1>1, <1>2

\* A read takes the first cells of the pipe and leaves the others.
LEMMA ReadFacts ==
  ASSUME NEW C, NEW s \in Seq(C), NEW t \in Seq(C), NEW n \in 1..Len(t)
  PROVE  /\ s \o SubSeq(t, 1, n) \in Seq(C)
         /\ SubSeq(t, n + 1, Len(t)) \in Seq(C)
<1>1. Len(t) \in Nat /\ n \in Nat /\ n + 1 \in Nat \ {0}
  OBVIOUS
<1>2. SubSeq(t, 1, n) \in Seq(C)
  BY <1>1, SubSeqProperties
<1>3. SubSeq(t, n + 1, Len(t)) \in Seq(C)
  BY <1>1, SubSeqProperties
<1> QED
  BY <1>2, <1>3

---------------------------------------------------------------------------
(* The numbering *)

\* The next sequence number.
LEMMA NextSeq ==
  ASSUME NEW n \in SeqNumbers
  PROVE  /\ (n + 1) % SeqSpace = IF n = SeqSpace - 1 THEN 0 ELSE n + 1
         /\ (n + 1) % SeqSpace \in SeqNumbers
         /\ n \in Nat /\ SeqSpace \in Nat /\ SeqSpace > n
<1>1. SeqSpace \in Nat /\ SeqSpace > 0
  BY DEF SeqSpace
<1>2. n \in Nat /\ n < SeqSpace
  BY <1>1 DEF SeqNumbers
<1>3. CASE n = SeqSpace - 1
  <2>1. (n + 1) % SeqSpace = 0
    BY <1>1, <1>3 DEF SeqSpace
  <2> QED
    BY <1>1, <1>2, <1>3, <2>1 DEF SeqNumbers
<1>4. CASE n # SeqSpace - 1
  <2>1. n + 1 \in Nat /\ n + 1 < SeqSpace
    BY <1>1, <1>2, <1>4
  <2>2. (n + 1) % SeqSpace = n + 1
    BY <2>1 DEF SeqSpace
  <2> QED
    BY <1>1, <1>2, <1>4, <2>1, <2>2 DEF SeqNumbers
<1> QED
  BY <1>3, <1>4

\* A step of the numbering: nothing, a request, or a new engine.
Advances ==
  \/ dev'.era = dev.era /\ dev'.req = dev.req /\ dev'.seq = dev.seq
  \/ dev'.era = dev.era /\ dev'.req = dev.req + 1 /\ dev'.seq = (dev.seq + 1) % SeqSpace
  \/ dev'.era > dev.era

\* The fields the numbering is about.
LEMMA DevFields ==
  ASSUME LinkType
  PROVE  dev.era \in Nat /\ dev.req \in Nat /\ dev.seq \in SeqNumbers /\ dev.seq \in Nat
<1>1. dev.era \in Nat /\ dev.req \in Nat /\ dev.seq \in SeqNumbers
  BY DEF LinkType, Devices
<1> QED
  BY <1>1, NextSeq

\* What fits before such a step fits after it.
LEMMA StillFits ==
  ASSUME LinkType, dev'.era \in Nat, Advances, NEW q, Fits(q)
  PROVE  Fits(q)'
<1>1. dev.era \in Nat /\ dev.req \in Nat /\ dev.seq \in SeqNumbers /\ dev.seq \in Nat
  BY DevFields
<1>2. q \in Requests /\ q.era \in Nat /\ q.req \in Nat /\ q.seq \in SeqNumbers
  BY DEF Fits, Requests
<1>3. q.seq \in Nat /\ SeqSpace \in Nat
  BY <1>2, NextSeq
<1>4. q.era <= dev.era /\ q.era <= dev'.era
  BY <1>1, <1>2 DEF Advances, Fits
<1>5. ASSUME q.era = dev'.era
      PROVE  LET gone == (dev'.req - q.req) - (dev'.seq - q.seq)
             IN  gone = 0 \/ gone >= SeqSpace
  <2>1. q.era = dev.era /\ dev'.era = dev.era
    BY <1>1, <1>2, <1>4, <1>5 DEF Advances
  <2>2. LET gone == (dev.req - q.req) - (dev.seq - q.seq)
        IN  gone = 0 \/ gone >= SeqSpace
    BY <2>1 DEF Fits
  <2>3. CASE dev'.req = dev.req /\ dev'.seq = dev.seq
    BY <2>2, <2>3
  <2>4. CASE dev'.req = dev.req + 1 /\ dev'.seq = (dev.seq + 1) % SeqSpace
    <3>1. (dev'.seq = 0 /\ dev.seq = SeqSpace - 1) \/ dev'.seq = dev.seq + 1
      BY <1>1, <2>4, NextSeq
    <3> QED
      BY <1>1, <1>2, <1>3, <2>2, <2>4, <3>1
  <2> QED
    BY <1>1, <2>1, <2>3, <2>4 DEF Advances
<1> QED
  BY <1>2, <1>4, <1>5 DEF Fits

\* What was written before stays genuine while the numbering advances.
LEMMA StillSound ==
  ASSUME LinkType, dev'.era \in Nat, Advances
  PROVE  Sound \subseteq Sound'
BY StillFits DEF Sound

---------------------------------------------------------------------------
(* The steps *)

\* A step that adds nothing unsound to the cable, the decoders and the bridge.
LEMMA StaysGenuine ==
  ASSUME LinkType, LinkType', Advances, Genuine,
         \A r \in inflight' : r \in inflight \/ Fits(r)',
         pipe' \in Seq(Cells(Sound)), Decodes(serve', Sound), Decodes(dev'.dec, Sound)
  PROVE  Genuine'
<1>1. dev'.era \in Nat
  BY DEF LinkType, Devices
<1>2. Sound \subseteq Sound'
  BY <1>1, StillSound
<1>3. \A r \in inflight' : Fits(r)'
  <2> SUFFICES ASSUME NEW r \in inflight' PROVE Fits(r)'
    OBVIOUS
  <2>1. CASE r \in inflight
    <3>1. Fits(r)
      BY <2>1 DEF Genuine
    <3> QED
      BY <1>1, <3>1, StillFits
  <2> QED
    BY <2>1
<1>4. Cells(Sound) \subseteq Cells(Sound')
  BY <1>2 DEF Cells
<1>5. ASSUME NEW A, NEW B, A \subseteq B, NEW x \in Seq(A) PROVE x \in Seq(B)
  BY <1>5
<1>6. pipe' \in Seq(Cells(Sound'))
  BY <1>4, <1>5
<1>7. Decodes(serve', Sound') /\ Decodes(dev'.dec, Sound')
  BY <1>2, <1>4, <1>5 DEF Decodes
<1> QED
  BY <1>3, <1>6, <1>7 DEF Genuine, Decodes, Cells

\* A step that applies nothing.
LEMMA QuietHolds ==
  ASSUME Quiet
  PROVE  (StaleExcused \/ WentRound)' /\ WholeOrNothing'
BY DEF Quiet, StaleExcused, WholeOrNothing, Nothing, Rejected

\* A request leaves: the new one fits the numbering as it is now.
LEMMA RequestFacts ==
  ASSUME NEW d \in Devices, Request(d)
  PROVE  /\ dev' \in Devices /\ dev'.at = "sync" /\ dev'.dec = d.dec /\ dev'.era = d.era
         /\ dev'.req = d.req + 1 /\ dev'.seq = (d.seq + 1) % SeqSpace
         /\ \A r \in inflight' : r \in inflight \/ Fits(r)'
<1> DEFINE new == [seq |-> (d.seq + 1) % SeqSpace, req |-> d.req + 1, era |-> d.era]
<1>1. /\ inflight' = inflight \cup {new}
      /\ dev' = [d EXCEPT !.at = "sync", !.seq = new.seq, !.req = new.req]
  BY DEF Request
<1>2. d.seq \in SeqNumbers /\ d.req \in Nat /\ d.era \in Nat
  BY DEF Devices
<1>3. (d.seq + 1) % SeqSpace \in SeqNumbers
  BY <1>2, NextSeq
<1>4. new \in Requests /\ new.seq = (d.seq + 1) % SeqSpace /\ new.req = d.req + 1 /\ new.era = d.era
  BY <1>2, <1>3 DEF Requests
<1>5. new.seq \in Nat
  BY <1>3, <1>4, NextSeq
<1> HIDE DEF new
<1>6. /\ dev' \in Devices /\ dev'.at = "sync" /\ dev'.dec = d.dec /\ dev'.era = d.era
      /\ dev'.req = new.req /\ dev'.seq = new.seq
  <2>1. new.seq \in SeqNumbers /\ new.req \in Nat
    BY <1>2, <1>3, <1>4
  <2> DEFINE s == new.seq
             r == new.req
  <2>2. dev' = [d EXCEPT !.at = "sync", !.seq = s, !.req = r]
    BY <1>1
  <2> HIDE DEF s, r
  <2>3. dev' \in Devices
    BY <2>1, <2>2 DEF Devices, s, r
  <2>4. /\ dev'.at = "sync" /\ dev'.dec = d.dec /\ dev'.era = d.era
        /\ dev'.req = r /\ dev'.seq = s
    BY <2>2 DEF Devices
  <2> QED
    BY <2>3, <2>4 DEF s, r
<1>7. Fits(new)'
  BY <1>2, <1>4, <1>5, <1>6 DEF Fits
<1> QED
  BY <1>1, <1>4, <1>6, <1>7

\* What NoteFailure and NextBackoffMs make of the retry state.
LEMMA EngineFacts ==
  /\ Fresh \in Engines /\ ~Fresh.halted
  /\ \A e \in Engines, fault \in Faults, s \in Int : NoteFailure(e, fault, s) \in Engines
  /\ \A e \in Engines : NextBackoffMs(e) = Halted <=> e.halted
<1>1. Fresh \in Engines /\ ~Fresh.halted
  BY DEF Fresh, Engines
<1>2. ASSUME NEW e \in Engines, NEW fault \in Faults, NEW s \in Int
      PROVE  NoteFailure(e, fault, s) \in Engines
  <2>1. e.failures + 1 \in Nat /\ 1000 * (IF s < 86400 THEN s ELSE 86400) \in Int
    BY DEF Engines
  <2>2. CASE fault = "provisioningFault"
    <3>1. NoteFailure(e, fault, s) = [e EXCEPT !.halted = TRUE, !.retryMs = 0]
      BY <2>2 DEF NoteFailure
    <3>2. e.failures \in Nat
      BY DEF Engines
    <3>3. NoteFailure(e, fault, s) = [failures |-> e.failures, retryMs |-> 0, halted |-> TRUE]
      BY <3>1 DEF Engines
    <3> QED
      BY <3>2, <3>3 DEF Engines
  <2>3. CASE fault # "provisioningFault" /\ fault = "roadBusy" /\ s > 0
    BY <2>1, <2>3 DEF NoteFailure, Engines
  <2>4. CASE fault # "provisioningFault" /\ ~(fault = "roadBusy" /\ s > 0)
    <3>1. NoteFailure(e, fault, s) = [e EXCEPT !.retryMs = 0, !.failures = e.failures + 1]
      BY <2>4 DEF NoteFailure, Engines
    <3>2. e.halted \in BOOLEAN
      BY DEF Engines
    <3>3. NoteFailure(e, fault, s) = [failures |-> e.failures + 1, retryMs |-> 0, halted |-> e.halted]
      BY <3>1 DEF Engines
    <3> QED
      BY <2>1, <3>2, <3>3 DEF Engines
  <2> QED
    BY <2>2, <2>3, <2>4
<1>3. ASSUME NEW e \in Engines PROVE NextBackoffMs(e) = Halted <=> e.halted
  <2>1. LadderMs[1] # -1 /\ LadderMs[2] # -1 /\ LadderMs[3] # -1 /\ DOMAIN LadderMs = 1..3
    BY DEF LadderMs
  <2>2. e.failures \in DOMAIN LadderMs => LadderMs[e.failures] # -1
    BY <2>1
  <2>3. e.retryMs \in Int /\ e.halted \in BOOLEAN
    BY DEF Engines
  <2> QED
    BY <2>2, <2>3 DEF NextBackoffMs, Halted, NextScheduledWake
<1> QED
  BY <1>1, <1>2, <1>3

\* Hearing of an event leaves the host typed.
LEMMA HeardFacts ==
  ASSUME host \in [waiting : Nat, sent : Nat], NEW id, Heard(id)
  PROVE  host' \in [waiting : Nat, sent : Nat]
BY DEF Heard

\* A decoder of sound cells.
LEMMA DecoderStep ==
  ASSUME NEW buf \in Seq(Cells(Sound))
  PROVE  DecoderNext(buf) \in Decoders /\ Decodes(DecoderNext(buf), Sound)
<1>1. Sound \subseteq AllFrames
  BY DEF Sound
<1>2. Cells(Sound) \subseteq Cells(AllFrames)
  BY <1>1 DEF Cells
<1>3. buf \in Seq(Cells(AllFrames))
  BY <1>2
<1> QED
  BY <1>3, DecoderFacts DEF Decoders

\* The records the device becomes.
Same(d, e) == e.era = d.era /\ e.req = d.req /\ e.seq = d.seq

\* What the assignments to the device's fields leave.
LEMMA DeviceFacts ==
  ASSUME NEW d \in Devices
  PROVE  /\ \A x \in Decoders :
              LET e == [d EXCEPT !.dec = x]
              IN  e \in Devices /\ Same(d, e) /\ e.dec = x /\ e.at = d.at
         /\ LET e == [d EXCEPT !.rounds = @ + 1]
            IN  e \in Devices /\ Same(d, e) /\ e.dec = d.dec /\ e.at = d.at
         /\ \A id \in Nat :
              LET e == [d EXCEPT !.job = id]
              IN  e \in Devices /\ Same(d, e) /\ e.dec = d.dec /\ e.at = d.at
         /\ Ended(d) \in Devices /\ Same(d, Ended(d)) /\ Ended(d).dec = d.dec
         /\ Ended(d).at = "serve"
         /\ LET e == [d EXCEPT !.seq = 0, !.dec = NoBytes, !.era = @ + 1]
            IN  e \in Devices /\ e.era > d.era /\ e.dec = NoBytes /\ e.at = d.at
         /\ \A id \in Nat :
              LET e == [d EXCEPT !.seq = 0, !.dec = NoBytes, !.era = @ + 1, !.rounds = 0,
                                 !.job = id]
              IN  e \in Devices /\ e.era > d.era /\ e.dec = NoBytes
<1>1. d.rounds + 1 \in Nat /\ d.era + 1 \in Nat /\ d.era \in Nat /\ d.era + 1 > d.era
  BY DEF Devices
<1>2. NoBytes \in Decoders
  BY DEF NoBytes, Decoders
<1>3. 0 \in SeqNumbers
  BY DEF SeqNumbers, SeqSpace
<1>4. ASSUME NEW x \in Decoders
      PROVE  LET e == [d EXCEPT !.dec = x]
             IN  e \in Devices /\ Same(d, e) /\ e.dec = x /\ e.at = d.at
  BY DEF Devices, Same
<1>5. LET e == [d EXCEPT !.rounds = @ + 1]
      IN  e \in Devices /\ Same(d, e) /\ e.dec = d.dec /\ e.at = d.at
  BY <1>1 DEF Devices, Same
<1>6. ASSUME NEW id \in Nat
      PROVE  LET e == [d EXCEPT !.job = id]
             IN  e \in Devices /\ Same(d, e) /\ e.dec = d.dec /\ e.at = d.at
  BY DEF Devices, Same
<1>7. /\ Ended(d) \in Devices /\ Same(d, Ended(d)) /\ Ended(d).dec = d.dec
      /\ Ended(d).at = "serve"
  BY DEF Devices, Same, Ended
<1> DEFINE n == d.era + 1
<1> HIDE DEF n
<1>8. LET e == [d EXCEPT !.seq = 0, !.dec = NoBytes, !.era = @ + 1]
      IN  e \in Devices /\ e.era > d.era /\ e.dec = NoBytes /\ e.at = d.at
  <2>1. [d EXCEPT !.seq = 0, !.dec = NoBytes, !.era = @ + 1]
          = [d EXCEPT !.seq = 0, !.dec = NoBytes, !.era = n]
    BY DEF n, Devices
  <2> QED
    BY <1>1, <1>2, <1>3, <2>1 DEF Devices, n
<1>9. ASSUME NEW id \in Nat
      PROVE  LET e == [d EXCEPT !.seq = 0, !.dec = NoBytes, !.era = @ + 1, !.rounds = 0,
                                !.job = id]
             IN  e \in Devices /\ e.era > d.era /\ e.dec = NoBytes
  BY <1>1, <1>2, <1>3 DEF Devices
<1> QED
  BY <1>4, <1>5, <1>6, <1>7, <1>8, <1>9

\* The host and the bridge write.
LEMMA HostKeeps ==
  ASSUME LinkInv,
         (\E cmd \in Commands : HostSends(cmd))
           \/ (\E r \in inflight, a \in Answers : BridgeAnswers(r, a))
  PROVE  LinkInv'
<1>1. LinkType /\ Genuine /\ HaltedRests
  BY DEF LinkInv
<1>2. ASSUME NEW f \in Sound, pipe' = pipe \o Encode(f), UNCHANGED <<serve, dev, engine>>,
             host' \in [waiting : Nat, sent : Nat], inflight' \subseteq inflight, Quiet
      PROVE  LinkInv'
  <2>1. pipe' \in Seq(Cells(Sound))
    BY <1>1, <1>2, EncodeFacts, ConcatProperties DEF Genuine
  <2>2. LinkType' /\ Advances /\ HaltedRests'
    BY <1>1, <1>2 DEF LinkType, Advances, HaltedRests
  <2>3. Decodes(serve', Sound) /\ Decodes(dev'.dec, Sound)
    BY <1>1, <1>2 DEF Genuine
  <2>4. Genuine'
    BY <1>1, <1>2, <2>1, <2>2, <2>3, StaysGenuine
  <2> QED
    BY <1>2, <2>2, <2>4, QuietHolds DEF LinkInv
<1>3. ASSUME NEW cmd \in Commands, HostSends(cmd) PROVE LinkInv'
  <2>1. host.sent + 1 \in Nat
    BY <1>1 DEF LinkType
  <2>2. [type |-> "command", cmd |-> cmd, id |-> host.sent + 1] \in Sound
    BY <2>1 DEF Sound, AllFrames
  <2>3. host' \in [waiting : Nat, sent : Nat]
    BY <1>3, <2>1 DEF HostSends
  <2> QED
    BY <1>2, <1>3, <2>2, <2>3 DEF HostSends
<1>4. ASSUME NEW r \in inflight, NEW a \in Answers, BridgeAnswers(r, a) PROVE LinkInv'
  <2>1. Fits(r) /\ r \in Requests /\ r.seq \in SeqNumbers
    BY <1>1 DEF Genuine, Fits, Requests
  <2> DEFINE f == [type |-> "response", seq |-> r.seq, req |-> r, answer |-> a]
  <2>2. f \in AllFrames /\ f.seq = f.req.seq /\ f.req = r
    BY <2>1 DEF AllFrames
  <2>3. f \in Sound
    BY <2>1, <2>2 DEF Sound
  <2>4. host' \in [waiting : Nat, sent : Nat]
    BY <1>1, <1>4 DEF BridgeAnswers, LinkType
  <2> QED
    BY <1>2, <1>4, <2>3, <2>4 DEF BridgeAnswers
<1> QED
  BY <1>3, <1>4

\* Either reader takes the next cells of the pipe.
LEMMA ReadsKeep ==
  ASSUME LinkInv, NEW n \in Nat, SyncReads(n) \/ ServeReads(n)
  PROVE  LinkInv'
<1>1. LinkType /\ Genuine /\ HaltedRests
  BY DEF LinkInv
<1>2. n \in 1..Len(pipe) /\ pipe' = SubSeq(pipe, n + 1, Len(pipe)) /\ Quiet
      /\ UNCHANGED <<host, inflight, engine>>
  BY DEF SyncReads, ServeReads
<1>3. pipe' \in Seq(Cells(Sound))
  BY <1>1, <1>2, ReadFacts DEF Genuine
<1>4. dev \in Devices /\ serve.buf \in Seq(Cells(Sound)) /\ dev.dec.buf \in Seq(Cells(Sound))
  BY <1>1 DEF LinkType, Genuine, Decodes
<1>5. ASSUME dev' \in Devices, Same(dev, dev'), dev'.at = dev.at,
             Decodes(serve', Sound), Decodes(dev'.dec, Sound)
      PROVE  LinkInv'
  <2>1. LinkType' /\ Advances /\ HaltedRests'
    BY <1>1, <1>2, <1>5 DEF LinkType, Advances, HaltedRests, Same
  <2>2. Genuine'
    BY <1>1, <1>2, <1>3, <1>5, <2>1, StaysGenuine
  <2> QED
    BY <1>2, <2>1, <2>2, QuietHolds DEF LinkInv
<1>6. CASE SyncReads(n)
  <2> DEFINE x == DecoderNext(dev.dec.buf \o SubSeq(pipe, 1, n))
  <2>1. dev.dec.buf \o SubSeq(pipe, 1, n) \in Seq(Cells(Sound))
    BY <1>1, <1>2, <1>4, ReadFacts DEF Genuine
  <2>2. x \in Decoders /\ Decodes(x, Sound)
    BY <2>1, DecoderStep
  <2>3. dev' = [dev EXCEPT !.dec = x] /\ serve' = serve
    BY <1>4, <1>6 DEF SyncReads, Devices
  <2> HIDE DEF x
  <2> QED
    BY <1>1, <1>4, <1>5, <2>2, <2>3, DeviceFacts DEF Genuine
<1>7. CASE ServeReads(n)
  <2>1. serve.buf \o SubSeq(pipe, 1, n) \in Seq(Cells(Sound))
    BY <1>1, <1>2, <1>4, ReadFacts DEF Genuine
  <2>2. serve' = DecoderNext(serve.buf \o SubSeq(pipe, 1, n)) /\ dev' = dev
    BY <1>7 DEF ServeReads
  <2>3. Decodes(serve', Sound)
    BY <2>1, <2>2, DecoderStep
  <2> QED
    BY <1>1, <1>4, <1>5, <2>2, <2>3 DEF Genuine, Same
<1> QED
  BY <1>6, <1>7

\* What is read of an answer has as many acks and letters as the answer.
LEMMA ReadWhole ==
  ASSUME NEW a \in Answers, DecodeResponse(a.body).ok
  PROVE  /\ Len(DecodeResponse(a.body).acks) = Len(Items(a.body.v, "acks"))
         /\ Len(DecodeResponse(a.body).letters) = Len(Items(a.body.v, "letters"))
<1> DEFINE o == a.body.v
           acks == Items(o, "acks")
           letters == Items(o, "letters")
<1>1. a.body.t = "object"
  BY DEF DecodeResponse, Rejected
<1>2. IsArray(acks) /\ IsArray(letters)
  BY <1>1, LinkAssumption
<1>3. /\ DecodeResponse(a.body).acks = Each(acks, DecodeAck)
      /\ DecodeResponse(a.body).letters = Each(letters, DecodeLetter)
  BY DEF DecodeResponse, Rejected
<1> HIDE DEF acks, letters
<1>4. Len(Each(acks, DecodeAck)) = Len(acks)
  BY <1>2 DEF Each, IsArray
<1>5. Len(Each(letters, DecodeLetter)) = Len(letters)
  BY <1>2 DEF Each, IsArray
<1> QED
  BY <1>3, <1>4, <1>5 DEF acks, letters

\* What an answer of ours is: the answer of the request under way, of one of an
\* earlier numbering, or of one a whole round of numbers ago.
LEMMA OursFacts ==
  ASSUME LinkType, NEW f \in Sound, IsOurs(f)
  PROVE  /\ f.answer \in Answers
         /\ f.req # [seq |-> dev.seq, req |-> dev.req, era |-> dev.era] =>
              f.req.era # dev.era \/ dev.req - f.req.req >= SeqSpace
<1>1. f.type = "response" /\ f.seq = dev.seq
  BY DEF IsOurs
<1>2. f \in [type : {"response"}, seq : SeqNumbers, req : Requests, answer : Answers]
  BY <1>1 DEF Sound, AllFrames
<1>3. f.answer \in Answers /\ f.req \in Requests
  BY <1>2
<1>4. f.seq = f.req.seq /\ Fits(f.req)
  BY <1>1 DEF Sound
<1>5. dev.req \in Nat /\ dev.seq \in Nat
  BY DevFields
<1>6. f.req = [seq |-> f.req.seq, req |-> f.req.req, era |-> f.req.era] /\ f.req.req \in Nat
  BY <1>3 DEF Requests
<1>7. ASSUME f.req.era = dev.era, ~(dev.req - f.req.req >= SeqSpace)
      PROVE  f.req.req = dev.req
  <2>1. LET gone == (dev.req - f.req.req) - (dev.seq - f.req.seq)
        IN  gone = 0 \/ gone >= SeqSpace
    BY <1>4, <1>7 DEF Fits
  <2>2. f.req.seq = dev.seq
    BY <1>1, <1>4
  <2>3. SeqSpace \in Nat
    BY DEF SeqSpace
  <2>4. (dev.req - f.req.req) - (dev.seq - f.req.seq) = dev.req - f.req.req
    BY <1>5, <1>6, <2>2
  <2> QED
    BY <1>5, <1>6, <1>7, <2>1, <2>3, <2>4
<1> QED
  BY <1>1, <1>3, <1>4, <1>6, <1>7

\* A step in which the device moves on: what is left to show.
LEMMA Moves ==
  ASSUME LinkInv, host' \in [waiting : Nat, sent : Nat], dev' \in Devices, engine' \in Engines,
         Advances, HaltedRests', \A r \in inflight' : r \in inflight \/ Fits(r)',
         pipe' \in Seq(Cells(Sound)), Decodes(serve', Sound), Decodes(dev'.dec, Sound),
         Quiet \/ ((StaleExcused \/ WentRound)' /\ WholeOrNothing')
  PROVE  LinkInv'
<1>1. LinkType'
  BY DEF LinkType
<1>2. Genuine'
  BY <1>1, StaysGenuine DEF LinkInv
<1> QED
  BY <1>1, <1>2, QuietHolds DEF LinkInv

\* A frame the transport decoded.
LEMMA SyncFrameKeeps ==
  ASSUME LinkInv, SyncFrame
  PROVE  LinkInv'
<1> DEFINE frame == dev.dec.frame[1]
           x == DecoderNext(dev.dec.buf)
           read == [dev EXCEPT !.dec = x]
           d == [read EXCEPT !.rounds = @ + 1]
           fault == FaultFor(frame.answer)
           body == DecodeResponse(frame.answer.body)
           retry == ParseRetryAfterSeconds(frame.answer.retry)
<1>1. LinkType /\ Genuine /\ HaltedRests
  BY DEF LinkInv
<1>2. /\ dev \in Devices /\ engine \in Engines /\ host \in [waiting : Nat, sent : Nat]
      /\ pipe \in Seq(Cells(Sound)) /\ Decodes(serve, Sound)
  BY <1>1 DEF LinkType, Genuine
<1>3. dev.at = "sync" /\ dev.dec.frame # <<>> /\ UNCHANGED <<pipe, serve>>
  BY DEF SyncFrame
<1>4. dev.dec.buf \in Seq(Cells(Sound)) /\ dev.dec.frame \in Seq(Sound)
  BY <1>1 DEF Genuine, Decodes
<1>5. frame \in Sound
  BY <1>3, <1>4
<1>6. x \in Decoders /\ Decodes(x, Sound)
  BY <1>4, DecoderStep
<1>7. read = [dev EXCEPT !.dec = DecoderNext(@.buf)]
  BY <1>2 DEF Devices
<1>8. \/ ~IsOurs(frame) /\ dev' = read /\ Quiet /\ UNCHANGED <<host, inflight, engine>>
      \/ IsOurs(frame) /\ SyncEnds(d, NoteFailure(engine, fault, retry)) /\ Quiet
      \/ IsOurs(frame) /\ SyncEnds(d, NoteFailure(engine, "serverFault", 0)) /\ Quiet
      \/ /\ IsOurs(frame) /\ body.ok
         /\ applied' = [for |-> frame.req,
                        by |-> [seq |-> dev.seq, req |-> dev.req, era |-> dev.era],
                        sent |-> frame.answer.body, took |-> body]
         /\ (Request(d) /\ UNCHANGED <<host, engine>>) \/ SyncEnds(d, Fresh)
  BY <1>7 DEF SyncFrame
<1> HIDE DEF x
<1>9. read \in Devices /\ Same(dev, read) /\ read.dec = x /\ read.at = dev.at
  BY <1>2, <1>6, DeviceFacts
<1> HIDE DEF read
<1>10. d \in Devices /\ Same(read, d) /\ d.dec = read.dec /\ d.at = read.at
  BY <1>9, DeviceFacts
<1> HIDE DEF d, frame, fault, body, retry
<1>11. ASSUME NEW e \in Engines, SyncEnds(d, e),
              Quiet \/ ((StaleExcused \/ WentRound)' /\ WholeOrNothing')
       PROVE  LinkInv'
  <2>1. dev' = Ended(d) /\ engine' = e /\ Heard(d.job) /\ inflight' = inflight
    BY <1>11 DEF SyncEnds
  <2>2. dev' \in Devices /\ Same(d, dev') /\ dev'.dec = d.dec /\ dev'.at = "serve"
    BY <1>10, <2>1, DeviceFacts
  <2>3. Advances /\ HaltedRests'
    BY <1>9, <1>10, <2>2 DEF Advances, Same, HaltedRests
  <2>4. host' \in [waiting : Nat, sent : Nat]
    BY <1>2, <2>1, HeardFacts
  <2>5. Decodes(dev'.dec, Sound)
    BY <1>6, <1>9, <1>10, <2>2
  <2> QED
    BY <1>2, <1>3, <1>11, <2>1, <2>2, <2>3, <2>4, <2>5, Moves
<1>12. CASE ~IsOurs(frame) /\ dev' = read /\ Quiet /\ UNCHANGED <<host, inflight, engine>>
  <2>1. Advances /\ HaltedRests'
    BY <1>1, <1>9, <1>12 DEF Advances, Same, HaltedRests
  <2> QED
    BY <1>2, <1>3, <1>6, <1>9, <1>12, <2>1, Moves
<1>13. ASSUME IsOurs(frame) PROVE frame.answer \in Answers /\ retry \in Int /\ fault \in Faults
  <2>1. frame.answer \in Answers
    BY <1>1, <1>5, <1>13, OursFacts
  <2>2. frame.answer.retry \in Int
    BY <2>1, LinkAssumption
  <2>3. retry \in Int
    BY <2>2 DEF retry, ParseRetryAfterSeconds
  <2>4. fault \in Faults
    BY DEF fault, FaultFor, Faults
  <2> QED
    BY <2>1, <2>3, <2>4
<1>14. CASE IsOurs(frame) /\ SyncEnds(d, NoteFailure(engine, fault, retry)) /\ Quiet
  BY <1>2, <1>11, <1>13, <1>14, EngineFacts
<1>15. CASE IsOurs(frame) /\ SyncEnds(d, NoteFailure(engine, "serverFault", 0)) /\ Quiet
  <2>1. NoteFailure(engine, "serverFault", 0) \in Engines
    BY <1>2, EngineFacts DEF Faults
  <2> QED
    BY <1>11, <1>15, <2>1
<1>16. CASE /\ IsOurs(frame) /\ body.ok
            /\ applied' = [for |-> frame.req,
                           by |-> [seq |-> dev.seq, req |-> dev.req, era |-> dev.era],
                           sent |-> frame.answer.body, took |-> body]
            /\ (Request(d) /\ UNCHANGED <<host, engine>>) \/ SyncEnds(d, Fresh)
  <2>1. /\ applied'.for = frame.req /\ applied'.sent = frame.answer.body
        /\ applied'.by = [seq |-> dev.seq, req |-> dev.req, era |-> dev.era]
        /\ applied'.took = body
    BY <1>16
  <2>2. (StaleExcused \/ WentRound)'
    BY <1>1, <1>5, <1>16, <2>1, OursFacts DEF StaleExcused, WentRound
  <2>3. WholeOrNothing'
    BY <1>13, <1>16, <2>1, ReadWhole DEF WholeOrNothing, body
  <2>4. CASE SyncEnds(d, Fresh)
    BY <1>11, <2>2, <2>3, <2>4, EngineFacts
  <2>5. CASE Request(d) /\ UNCHANGED <<host, engine>>
    <3>1. /\ dev' \in Devices /\ dev'.at = "sync" /\ dev'.dec = d.dec /\ dev'.era = d.era
          /\ dev'.req = d.req + 1 /\ dev'.seq = (d.seq + 1) % SeqSpace
          /\ \A r \in inflight' : r \in inflight \/ Fits(r)'
      BY <1>10, <2>5, RequestFacts
    <3>2. Advances
      BY <1>9, <1>10, <3>1 DEF Advances, Same
    <3>3. HaltedRests'
      BY <1>1, <1>3, <2>5 DEF HaltedRests
    <3>4. Decodes(dev'.dec, Sound)
      BY <1>6, <1>9, <1>10, <3>1
    <3> QED
      BY <1>2, <1>3, <2>2, <2>3, <2>5, <3>1, <3>2, <3>3, <3>4, Moves
  <2> QED
    BY <1>16, <2>4, <2>5
<1> QED
  BY <1>8, <1>12, <1>14, <1>15, <1>16

\* The deadline passes.
LEMMA TimeoutKeeps ==
  ASSUME LinkInv, SyncTimesOut
  PROVE  LinkInv'
<1>1. LinkType /\ Genuine
  BY DEF LinkInv
<1>2. /\ dev \in Devices /\ engine \in Engines /\ host \in [waiting : Nat, sent : Nat]
      /\ pipe \in Seq(Cells(Sound)) /\ Decodes(serve, Sound) /\ Decodes(dev.dec, Sound)
  BY <1>1 DEF LinkType, Genuine
<1>3. /\ dev' = Ended(dev) /\ engine' = NoteFailure(engine, "noSignal", 0) /\ Heard(dev.job)
      /\ inflight' \subseteq inflight /\ Quiet /\ UNCHANGED <<pipe, serve>>
  BY DEF SyncTimesOut
<1>4. engine' \in Engines
  BY <1>2, <1>3, EngineFacts DEF Faults
<1>5. dev' \in Devices /\ Same(dev, dev') /\ dev'.dec = dev.dec /\ dev'.at = "serve"
  BY <1>2, <1>3, DeviceFacts
<1>6. Advances /\ HaltedRests'
  BY <1>5 DEF Advances, Same, HaltedRests
<1>7. host' \in [waiting : Nat, sent : Nat]
  BY <1>2, <1>3, HeardFacts
<1> QED
  BY <1>2, <1>3, <1>4, <1>5, <1>6, <1>7, Moves

\* A frame the command loop decoded.
LEMMA ServeFrameKeeps ==
  ASSUME LinkInv, ServeFrame
  PROVE  LinkInv'
<1> DEFINE frame == serve.frame[1]
           reset == [dev EXCEPT !.seq = 0, !.dec = NoBytes, !.era = @ + 1]
<1>1. LinkType /\ Genuine /\ HaltedRests
  BY DEF LinkInv
<1>2. /\ dev \in Devices /\ engine \in Engines /\ host \in [waiting : Nat, sent : Nat]
      /\ pipe \in Seq(Cells(Sound)) /\ Decodes(dev.dec, Sound)
  BY <1>1 DEF LinkType, Genuine
<1>3. serve.buf \in Seq(Cells(Sound)) /\ serve.frame \in Seq(Sound)
  BY <1>1 DEF Genuine, Decodes
<1>4. dev.at = "serve" /\ serve.frame # <<>> /\ Quiet
  BY DEF ServeFrame, Restart
<1>5. frame \in Sound
  BY <1>3, <1>4
<1>6. frame.type = "command" => frame.id \in Nat /\ frame.cmd \in Commands
  BY <1>5 DEF Sound, AllFrames
<1>7. Decodes(DecoderNext(serve.buf), Sound) /\ Decodes(NoBytes, Sound)
  BY <1>3, DecoderStep DEF Decodes, NoBytes
<1>8. \/ /\ frame.type # "command" /\ serve' = DecoderNext(serve.buf)
         /\ UNCHANGED <<pipe, host, inflight, dev, engine>>
      \/ /\ frame.type = "command"
         /\ \E keep \in 0..Len(pipe) : Restart(dev, frame.id, keep)
      \/ /\ frame.type = "command" /\ serve' = DecoderNext(serve.buf) /\ UNCHANGED pipe
         /\ \/ RunSync(TriggerNamed(frame.cmd), frame.id)
            \/ SetDeviceToken(frame.id)
            \/ Reformat(frame.id)
            \/ Heard(frame.id) /\ UNCHANGED <<inflight, dev, engine>>
  BY <1>6, CommandsAssumption DEF ServeFrame
<1>9. reset \in Devices /\ reset.era > dev.era /\ reset.dec = NoBytes /\ reset.at = dev.at
  BY <1>2, DeviceFacts
<1> HIDE DEF frame, reset
<1>10. ASSUME UNCHANGED <<inflight, dev, engine>>, pipe' = pipe,
              host' \in [waiting : Nat, sent : Nat], serve' = DecoderNext(serve.buf)
       PROVE  LinkInv'
  <2>1. Advances /\ HaltedRests'
    BY <1>1, <1>10 DEF Advances, HaltedRests
  <2> QED
    BY <1>2, <1>4, <1>7, <1>10, <2>1, Moves
<1>11. CASE /\ frame.type # "command" /\ serve' = DecoderNext(serve.buf)
            /\ UNCHANGED <<pipe, host, inflight, dev, engine>>
  BY <1>2, <1>10, <1>11
<1>12. ASSUME NEW keep \in 0..Len(pipe), frame.type = "command", Restart(dev, frame.id, keep)
       PROVE  LinkInv'
  <2> DEFINE d == [dev EXCEPT !.seq = 0, !.dec = NoBytes, !.era = @ + 1, !.rounds = 0,
                              !.job = frame.id]
             m == Len(pipe) - keep + 1
  <2>1. /\ pipe' = SubSeq(pipe, m, Len(pipe)) /\ serve' = NoBytes /\ Request(d)
        /\ engine' = Fresh /\ host' = host
    BY <1>12 DEF Restart
  <2>2. d \in Devices /\ d.era > dev.era /\ d.dec = NoBytes
    BY <1>2, <1>6, <1>12, DeviceFacts
  <2> HIDE DEF d
  <2>3. /\ dev' \in Devices /\ dev'.at = "sync" /\ dev'.dec = d.dec /\ dev'.era = d.era
        /\ \A r \in inflight' : r \in inflight \/ Fits(r)'
    BY <2>1, <2>2, RequestFacts
  <2>4. Advances
    BY <2>2, <2>3 DEF Advances
  <2>5. engine' \in Engines /\ HaltedRests'
    BY <2>1, EngineFacts DEF HaltedRests
  <2>6. m \in Int /\ m >= 1 /\ Len(pipe) \in Nat
    BY <1>2
  <2> HIDE DEF m
  <2>7. \A i \in m..Len(pipe) : pipe[i] \in Cells(Sound)
    BY <1>2, <2>6
  <2>8. pipe' \in Seq(Cells(Sound))
    BY <2>1, <2>6, <2>7, SubSeqProperties
  <2> QED
    BY <1>2, <1>4, <1>7, <2>1, <2>2, <2>3, <2>4, <2>5, <2>8, Moves
<1>13. ASSUME frame.type = "command", serve' = DecoderNext(serve.buf), UNCHANGED pipe,
              RunSync(TriggerNamed(frame.cmd), frame.id)
       PROVE  LinkInv'
  <2> DEFINE d == [dev EXCEPT !.job = frame.id]
  <2>1. \/ Heard(frame.id) /\ UNCHANGED <<inflight, dev, engine>>
        \/ /\ Request(d) /\ host' = host
           /\ engine' = Fresh \/ (engine' = engine /\ NextBackoffMs(engine) # Halted)
    BY <1>13 DEF RunSync
  <2>2. d \in Devices /\ Same(dev, d) /\ d.dec = dev.dec
    BY <1>2, <1>6, <1>13, DeviceFacts
  <2> HIDE DEF d
  <2>3. CASE Heard(frame.id) /\ UNCHANGED <<inflight, dev, engine>>
    BY <1>2, <1>10, <1>13, <2>3, HeardFacts
  <2>4. CASE /\ Request(d) /\ host' = host
             /\ engine' = Fresh \/ (engine' = engine /\ NextBackoffMs(engine) # Halted)
    <3>1. /\ dev' \in Devices /\ dev'.at = "sync" /\ dev'.dec = d.dec /\ dev'.era = d.era
          /\ dev'.req = d.req + 1 /\ dev'.seq = (d.seq + 1) % SeqSpace
          /\ \A r \in inflight' : r \in inflight \/ Fits(r)'
      BY <2>2, <2>4, RequestFacts
    <3>2. Advances
      BY <2>2, <3>1 DEF Advances, Same
    <3>3. engine' \in Engines /\ ~engine'.halted
      BY <1>2, <2>4, EngineFacts
    <3>4. HaltedRests'
      BY <3>3 DEF HaltedRests
    <3> QED
      BY <1>2, <1>4, <1>7, <1>13, <2>2, <2>4, <3>1, <3>2, <3>3, <3>4, Moves
  <2> QED
    BY <2>1, <2>3, <2>4
<1>14. ASSUME frame.type = "command", serve' = DecoderNext(serve.buf), UNCHANGED pipe,
              Heard(frame.id), inflight' = inflight, BuildEngine
       PROVE  LinkInv'
  <2>1. dev' = reset /\ engine' = Fresh
    BY <1>14 DEF BuildEngine, reset
  <2>2. Advances
    BY <1>9, <2>1 DEF Advances
  <2>3. engine' \in Engines /\ HaltedRests'
    BY <2>1, EngineFacts DEF HaltedRests
  <2>4. host' \in [waiting : Nat, sent : Nat]
    BY <1>2, <1>14, HeardFacts
  <2> QED
    BY <1>2, <1>4, <1>7, <1>9, <1>14, <2>1, <2>2, <2>3, <2>4, Moves
<1>15. CASE /\ frame.type = "command" /\ serve' = DecoderNext(serve.buf) /\ UNCHANGED pipe
            /\ \/ SetDeviceToken(frame.id)
               \/ Reformat(frame.id)
               \/ Heard(frame.id) /\ UNCHANGED <<inflight, dev, engine>>
  <2>1. Heard(frame.id) /\ inflight' = inflight /\ (BuildEngine \/ UNCHANGED <<dev, engine>>)
    BY <1>15 DEF SetDeviceToken, Reformat
  <2>2. host' \in [waiting : Nat, sent : Nat]
    BY <1>2, <2>1, HeardFacts
  <2> QED
    BY <1>10, <1>14, <1>15, <2>1, <2>2
<1> QED
  BY <1>8, <1>11, <1>12, <1>13, <1>15

\* One case per step of the host, the bridge and the device.
LEMMA LinkStep ==
  ASSUME LinkInv, [Next]_vars
  PROVE  LinkInv'
<1>1. CASE UNCHANGED vars
  BY <1>1 DEF vars, LinkInv, LinkType, Genuine, Decodes, Cells, Sound, Fits, HaltedRests,
              StaleExcused, WentRound, WholeOrNothing
<1>2. CASE DeviceReads
  <2>1. ReadCells \in Nat
    BY LinkAssumption
  <2> QED
    BY <1>2, <2>1, ReadsKeep DEF DeviceReads
<1> QED
  BY <1>1, <1>2, HostKeeps, SyncFrameKeeps, TimeoutKeeps, ServeFrameKeeps DEF Next, DeviceStep

\* An idle cable.
LEMMA LinkInit == Init => LinkInv
<1> SUFFICES ASSUME Init PROVE LinkInv
  OBVIOUS
<1>1. NoBytes \in Decoders /\ Decodes(NoBytes, Sound)
  BY DEF NoBytes, Decoders, Decodes
<1>2. dev.dec = NoBytes /\ serve = NoBytes /\ ~engine.halted
  BY DEF Init, Fresh
<1>3. LinkType
  BY <1>1, EngineFacts DEF Init, LinkType, Devices, SeqNumbers, SeqSpace
<1>4. Genuine
  BY <1>1, <1>2 DEF Init, Genuine
<1>5. StaleExcused /\ WholeOrNothing
  BY DEF Init, StaleExcused, WholeOrNothing, Nothing, Rejected
<1> QED
  BY <1>2, <1>3, <1>4, <1>5 DEF LinkInv, HaltedRests

\* Every cell on the cable and in a decoder is of a frame that was written, with
\* the number of the request it answers, however the two readers share them.
THEOREM LinkInductive == Spec => []LinkInv
<1>1. LinkInv /\ [Next]_vars => LinkInv'
  BY LinkStep
<1> QED
  BY <1>1, LinkInit, PTL DEF Spec

\* An answer that is applied was computed for the request it is applied to; or
\* for one before a boot or a new token; or the 65,536 numbers have gone round
\* since it was asked for (IsOurs, usbbridge.cpp).
THEOREM AnswersBelong == Spec => [](StaleExcused \/ WentRound)
<1>1. LinkInv => StaleExcused \/ WentRound
  BY DEF LinkInv
<1> QED
  BY <1>1, LinkInductive, PTL

\* Of an answer that is applied every ack and every letter is read.
THEOREM AnswersWhole == Spec => []WholeOrNothing
<1>1. LinkInv => WholeOrNothing
  BY DEF LinkInv
<1> QED
  BY <1>1, LinkInductive, PTL

\* After a 401 no request leaves but by the key, a new token or a boot, all of
\* which clear the halt (RunSync, session.cpp).
THEOREM HaltKept == Spec => HaltHolds
<1> DEFINE Held == (engine.halted /\ dev.req # dev'.req) => ~engine'.halted
<1>1. ASSUME LinkInv, [Next]_vars PROVE [Held]_vars
  <2> SUFFICES ASSUME engine.halted, dev.req # dev'.req, Next PROVE ~engine'.halted
    BY <1>1 DEF vars
  <2>1. dev.at = "serve" /\ dev \in Devices /\ engine \in Engines
    BY <1>1 DEF LinkInv, HaltedRests, LinkType
  <2>2. NextBackoffMs(engine) = Halted /\ ~Fresh.halted
    BY <2>1, EngineFacts
  <2>3. ServeFrame
    BY <2>1 DEF Next, HostSends, BridgeAnswers, DeviceStep, DeviceReads, SyncReads, ServeReads,
                SyncFrame, SyncTimesOut
  <2>4. serve.frame[1].type = "command" => serve.frame[1].cmd \in Commands
    <3>1. serve.frame[1] \in Sound
      BY <1>1, <2>3 DEF LinkInv, Genuine, Decodes, ServeFrame
    <3> QED
      BY <3>1 DEF Sound, AllFrames
  <2>5. engine' = Fresh
    BY <2>2, <2>3, <2>4, CommandsAssumption
       DEF ServeFrame, Restart, RunSync, SetDeviceToken, Reformat, BuildEngine
  <2> QED
    BY <2>2, <2>5
<1> QED
  BY <1>1, LinkInductive, PTL DEF Spec, HaltHolds
=============================================================================
