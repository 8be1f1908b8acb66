----------------------------- MODULE WakeProofs -----------------------------
(***************************************************************************)
(* Proofs about Wake: no token counts twice, doorbells are spaced, the     *)
(* glass tells the truth, and a background wake keeps the schedule.        *)
(***************************************************************************)
EXTENDS Wake, SieveFacts, FiniteSetTheorems

\* What the assumption says of each constant.
LEMMA Constants ==
  /\ Restarts \subseteq BOOLEAN /\ VerifierWired \in BOOLEAN
  /\ TimerWake \in Nat /\ TimerWake > 0 /\ MinWakeInterval \in Nat
  /\ BootQuiet \in Nat /\ BootQuiet > 0 /\ BootQuiet < MinWakeInterval
  /\ MinSyncInterval \in Nat /\ MinSyncInterval > 0 /\ DrainRounds \in Nat
  /\ MaxNow \in Nat /\ MaxCounter \in Nat /\ MaxCounter > 0 /\ MaxSms \in Nat
  /\ Intervals \subseteq Nat /\ Intervals # {} /\ Floors \subseteq BOOLEAN
BY WakeAssumption

\* The server may push finitely many intervals: one of them is the longest.
LEMMA MaxFacts ==
  /\ Max(Intervals) \in Intervals
  /\ \A s \in Intervals : s <= Max(Intervals)
<1>1. PICK n \in Nat : ExistsSurjection(1..n, Intervals)
  BY FS_NatSurjection, WakeAssumption
<1>2. PICK f \in [1..n -> Intervals] : \A s \in Intervals : \E i \in 1..n : f[i] = s
  BY <1>1 DEF ExistsSurjection, Surjection
<1> DEFINE Bad == {k \in Nat : k <= n /\ \A b \in Nat : \E i \in 1..k : ~(f[i] <= b)}
<1>3. Bad = {}
  <2> SUFFICES ASSUME Bad # {} PROVE FALSE
    OBVIOUS
  <2>1. PICK m \in Bad : \A k \in Bad : m <= k
    <3>1. Bad \subseteq Nat
      OBVIOUS
    <3> QED BY <3>1, LeastNat
  <2>2. m # 0
    OBVIOUS
  <2>3. PICK b \in Nat : \A i \in 1..(m - 1) : f[i] <= b
    <3>1. m - 1 \in Nat /\ m - 1 <= n /\ ~(m <= m - 1)
      BY <2>2
    <3> QED BY <3>1, <2>1
  <2>4. PICK x \in Nat : x = f[m]
    <3>1. m \in 1..n
      BY <2>2
    <3> QED BY <3>1, <1>2, Constants
  <2>5. b + x \in Nat /\ x <= b + x /\ \A y \in Nat : y <= b => y <= b + x
    OBVIOUS
  <2>6. \A i \in 1..m : f[i] <= b + x
    <3> TAKE i \in 1..m
    <3>1. CASE i = m
      BY <3>1, <2>4, <2>5
    <3>2. CASE i \in 1..(m - 1)
      <4>1. i \in 1..n
        BY <3>2
      <4>2. f[i] \in Nat
        BY <4>1, <1>2, Constants
      <4>3. f[i] <= b
        BY <3>2, <2>3
      <4> QED BY <4>2, <4>3, <2>5
    <3> QED BY <3>1, <3>2
  <2> QED BY <2>5, <2>6
<1>4. PICK b \in Nat : \A i \in 1..n : f[i] <= b
  <2>1. n \notin Bad
    BY <1>3
  <2> QED BY <2>1
<1> DEFINE Above == {c \in Nat : \A s \in Intervals : s <= c}
<1>5. b \in Above
  BY <1>2, <1>4, Constants
<1>6. PICK c \in Above : \A d \in Above : c <= d
  <2>1. Above \subseteq Nat /\ Above # {}
    BY <1>5
  <2> QED BY <2>1, LeastNat
<1>7. c \in Intervals
  <2>0. c \in Nat /\ \A s \in Intervals : s \in Nat /\ s <= c
    BY <1>6, Constants
  <2> HIDE DEF Above
  <2> SUFFICES ASSUME c \notin Intervals PROVE FALSE
    OBVIOUS
  <2>1. c # 0
    <3>1. PICK s \in Intervals : TRUE
      BY Constants
    <3> QED BY <3>1, <2>0
  <2>2. c - 1 \in Above
    <3>1. c \in Nat /\ c - 1 \in Nat
      BY <2>0, <2>1
    <3>2. ASSUME NEW s \in Intervals PROVE s <= c - 1
      <4>1. s \in Nat /\ s <= c /\ s # c
        BY <3>2, <2>0
      <4> QED BY <3>1, <4>1
    <3> QED BY <3>1, <3>2 DEF Above
  <2> QED BY <2>0, <2>2, <1>6
<1>8. \E x \in Intervals : \A y \in Intervals : x >= y
  <2>1. \A y \in Intervals : c >= y
    BY <1>6, Constants
  <2> QED BY <2>1, <1>7
<1> QED BY <1>8, Constants DEF Max

\* The interval the schedule uses, clamped from below.
LEMMA IntervalFacts ==
  /\ \A s \in Intervals : Interval(s) \in Nat /\ Interval(s) > 0 /\ Interval(s) <= Longest
  /\ Longest \in Nat /\ Longest > 0
<1> DEFINE M == Max(Intervals)
<1>1. M \in Nat /\ Longest = Interval(M) /\ \A s \in Intervals : s \in Nat /\ s <= M
  BY MaxFacts, Constants DEF Longest
<1> HIDE DEF M
<1> QED BY <1>1, Constants DEF Interval
-----------------------------------------------------------------------------
(* The inductive invariant. *)

Histories == [synced : Nat, tried : BOOLEAN, restarted : BOOLEAN, bell : Nat, cold : Nat,
              heard : SUBSET Nat, twice : BOOLEAN, stale : BOOLEAN]

\* The shape of the state, the history included.
Shapes == TypeOK /\ hist \in Histories

\* A boot runs between two sleeps or losses of power: when the RTC segment is
\* intact, what the locals say, and how the clocks relate.
Boot ==
  /\ boot.pc = "off" <=> ~rtc.intact
  /\ boot.pc = "asleep" => boot.alarm = now + TimerWake
  /\ boot.pc \in {"open", "poll"} => boot.uptime = Uptime
  /\ boot.pc = "open" => ~boot.ran /\ boot.cause = "none"
  /\ boot.ui => boot.reason = "key"
  /\ boot.pc = "ui" => boot.ui
  /\ boot.pc \in {"open", "poll", "sync", "ui"} => ~boot.synced
  /\ boot.accepted => boot.received
  /\ hist.synced <= now /\ hist.bell <= now /\ hist.cold <= base

\* Every counter accepted so far is at or below the high-water in NVS.
Tokens == ~hist.twice /\ \A n \in hist.heard : n <= flash.high

\* The limiter remembers the last doorbell that started a sync, or the power
\* was lost since; it never reaches further back than the quiet minute allows.
\* An uptime that restarts only moves the window further away.
Window ==
  rtc.intact =>
    /\ hist.bell <= base + rtc.lastSms \/ hist.bell <= hist.cold
    /\ hist.cold + BootQuiet <= base + rtc.lastSms + MinWakeInterval

\* What is on the glass: the mirror tells it, unless something drew behind it.
Glass ==
  /\ rtc.valid /\ ~hist.stale => glass = CoverOf(rtc.mirror)
  /\ boot.pc \in {"end", "asleep"} /\ boot.ran /\ ~hist.stale
       => glass = CoverOf(flash.unread)

\* The due time is that of a new segment, or of an attempt since the power came
\* back; on an uptime that ran on it is past, or less than one interval after the
\* last attempt.  A background wake that found no cause has such an attempt behind it.
Schedule ==
  /\ rtc.intact => /\ rtc.due = 0 \/ hist.synced >= hist.cold
                   /\ hist.restarted \/ base + rtc.due <= now
                        \/ base + rtc.due <= hist.synced + Longest
  /\ boot.synced => hist.synced = now /\ hist.tried
  /\ /\ boot.reason # "key" /\ boot.ran /\ ~hist.tried
     /\ \/ boot.pc \in {"cover", "end", "asleep"}
        \/ boot.pc \in {"poll", "sync"} /\ boot.cause = "none"
     => /\ ~flash.queued /\ hist.synced >= hist.cold
        /\ hist.restarted \/ now < hist.synced + Longest

WakeInv == Shapes /\ Boot /\ Tokens /\ Window /\ Glass
-----------------------------------------------------------------------------
(* The shapes. *)

\* wake::Decide answers with a plan.
LEMMA DecideFacts ==
  ASSUME NEW in, NEW p, p = Decide(in), in.floor \in BOOLEAN
  PROVE  /\ p.cause \in SyncCauses /\ p.ui \in BOOLEAN /\ p.poll \in BOOLEAN
         /\ p.charge = in.floor
         /\ p.ui => in.reason = "key"
         /\ p.charge => ~p.poll
         /\ in.reason \notin {"key", "cold"} /\ ~in.floor => p.cause = SyncIsDue(in)
         /\ in.reason = "cold" /\ ~in.floor => p.cause = "firstBoot"
<1>1. SyncIsDue(in) \in SyncCauses
  BY DEF SyncIsDue, SyncCauses
<1>2. NoPlan = [poll |-> FALSE, cause |-> "none", ui |-> FALSE, charge |-> FALSE]
  BY DEF NoPlan
<1>3. CASE in.floor
  BY <1>2, <1>3 DEF Decide, SyncCauses
<1>4. CASE ~in.floor /\ in.reason = "key"
  BY <1>2, <1>4 DEF Decide, SyncCauses
<1>5. CASE ~in.floor /\ in.reason = "cold"
  BY <1>2, <1>5 DEF Decide, SyncCauses
<1>6. CASE ~in.floor /\ in.reason # "cold" /\ in.reason # "key"
  BY <1>1, <1>2, <1>6 DEF Decide, SyncCauses
<1> QED BY <1>3, <1>4, <1>5, <1>6

\* The locals of a boot as app_main starts them.
LEMMA BootsFacts ==
  ASSUME Shapes, NEW pc \in {"off", "asleep", "open", "cover"}, NEW reason \in Reasons,
         NEW up \in Nat
  PROVE  Boots(pc, reason, up) \in BootStates
BY DEF Shapes, TypeOK, RtcStates, Boots, BootStates, SyncCauses

\* A reconstructed segment.
LEMMA ReconstructFacts ==
  ASSUME NEW up \in Nat
  PROVE  Reconstruct(up) \in RtcStates
BY Constants DEF Reconstruct, RtcStates

\* Going to sleep from any boot.
LEMMA SleepFacts ==
  ASSUME Shapes, SleepUntilNextWake
  PROVE  /\ boot' \in BootStates /\ boot'.pc = "asleep" /\ boot'.alarm = now + TimerWake
         /\ boot'.ran = boot.ran /\ boot'.reason = boot.reason /\ boot'.cause = "none"
         /\ ~boot'.ui /\ ~boot'.synced /\ ~boot'.accepted
<1>1. now + TimerWake \in Nat
  BY Constants DEF Shapes, TypeOK
<1>2. boot.reason \in Reasons /\ boot.ran \in BOOLEAN /\ rtc.intact \in BOOLEAN
  BY DEF Shapes, TypeOK, BootStates, RtcStates
<1> DEFINE b == Boots("asleep", boot.reason, 0)
<1>3. b \in BootStates
  BY <1>2, BootsFacts
<1>4. b.pc = "asleep" /\ b.cause = "none" /\ b.reason = boot.reason
      /\ ~b.ui /\ ~b.synced /\ ~b.accepted
  BY DEF Boots
<1>5. boot' = [b EXCEPT !.ran = boot.ran, !.alarm = now + TimerWake]
  BY DEF SleepUntilNextWake
<1> HIDE DEF b
<1> QED BY <1>1, <1>2, <1>3, <1>4, <1>5 DEF BootStates

\* Waking up at t, which is not before now.
LEMMA AppMainFacts ==
  ASSUME Shapes, NEW t \in Nat, now <= t, NEW reason \in Reasons, AppMain(t, reason)
  PROVE  /\ now' = t /\ base' \in Nat /\ base' <= t
         /\ base' \in {base, t} /\ (reason = "cold" => base' = t)
         /\ TRUE \in Restarts \/ reason = "cold" \/ base' = base
         /\ Restarts \subseteq {TRUE} => base' = t
         /\ rtc' \in RtcStates /\ boot' \in BootStates /\ hist' \in Histories
         /\ boot' = Boots("open", reason, t - base')
         /\ IF rtc.intact
            THEN /\ rtc'.intact /\ rtc'.lastSms = rtc.lastSms /\ rtc'.due = rtc.due
                 /\ rtc'.mirror = rtc.mirror /\ rtc'.valid = rtc.valid
            ELSE rtc' = Reconstruct(t - base')
         /\ hist' = [hist EXCEPT !.tried = FALSE,
                       !.cold = IF reason = "cold" THEN t ELSE hist.cold,
                       !.restarted = rtc.intact /\ (hist.restarted \/ base' # base)]
<1>1. base \in Nat /\ base <= now /\ now \in Nat /\ rtc \in RtcStates /\ hist \in Histories
  BY DEF Shapes, TypeOK
<1>2. PICK restarts \in (IF reason = "cold" THEN {TRUE} ELSE Restarts) :
        /\ now' = t /\ base' = (IF restarts THEN t ELSE base)
        /\ rtc' = IF ~rtc.intact THEN Reconstruct(t - base')
                  ELSE IF VerifierWired THEN rtc ELSE [rtc EXCEPT !.verified = 0]
        /\ boot' = Boots("open", reason, t - base')
        /\ hist' = [hist EXCEPT !.tried = FALSE,
                      !.cold = IF reason = "cold" THEN t ELSE hist.cold,
                      !.restarted = rtc.intact /\ (hist.restarted \/ base' # base)]
  BY <1>1 DEF AppMain
<1>a. restarts \in BOOLEAN /\ (restarts => base' = t) /\ (~restarts => base' = base)
  BY <1>2, Constants
<1>b. /\ base' \in {base, t} /\ (reason = "cold" => base' = t)
      /\ TRUE \in Restarts \/ reason = "cold" \/ base' = base
      /\ Restarts \subseteq {TRUE} => base' = t
  BY <1>2, <1>a
<1>3. base' \in Nat /\ base' <= t /\ t - base' \in Nat
  BY <1>1, <1>a
<1>4. boot' = Boots("open", reason, t - base')
  BY <1>2
<1>5. rtc' = IF ~rtc.intact THEN Reconstruct(t - base')
             ELSE IF VerifierWired THEN rtc ELSE [rtc EXCEPT !.verified = 0]
  BY <1>2
<1>6. Reconstruct(t - base') \in RtcStates
  BY <1>3, ReconstructFacts
<1>7. rtc' \in RtcStates
  BY <1>1, <1>5, <1>6 DEF RtcStates
<1>8. boot' \in BootStates
  BY <1>3, <1>4, BootsFacts
<1>9. rtc.intact => /\ rtc'.intact /\ rtc'.lastSms = rtc.lastSms /\ rtc'.due = rtc.due
                    /\ rtc'.mirror = rtc.mirror /\ rtc'.valid = rtc.valid
  BY <1>1, <1>5 DEF RtcStates
<1>10. hist' \in Histories
  <2> DEFINE cold == IF reason = "cold" THEN t ELSE hist.cold
             again == rtc.intact /\ (hist.restarted \/ base' # base)
  <2>1. cold \in Nat
    BY <1>1 DEF Histories
  <2>2. again \in BOOLEAN
    OBVIOUS
  <2>3. hist' = [hist EXCEPT !.tried = FALSE, !.cold = cold, !.restarted = again]
    BY <1>2
  <2> HIDE DEF cold, again
  <2> QED BY <1>1, <2>1, <2>2, <2>3 DEF Histories
<1> QED BY <1>2, <1>b, <1>3, <1>4, <1>5, <1>7, <1>8, <1>9, <1>10

\* What survives power loss, after a round that brought a 200.
LEMMA AppliedFacts ==
  ASSUME Shapes, NEW letters \in BOOLEAN, NEW s \in Intervals, Applied(letters, s)
  PROVE  flash' \in Flashes /\ flash'.high = flash.high
BY DEF Shapes, TypeOK, Flashes, Applied

\* The locals after an attempt.
LEMMA AfterSyncFacts ==
  ASSUME Shapes, NEW b, b = AfterSync(boot)
  PROVE  /\ b \in BootStates /\ b.pc = "cover" /\ b.reason = boot.reason /\ b.ran = boot.ran
         /\ b.synced /\ b.cause = "none" /\ ~b.ui /\ ~b.accepted
<1> DEFINE c == Boots("cover", boot.reason, 0)
<1>1. boot.reason \in Reasons /\ boot.ran \in BOOLEAN
  BY DEF Shapes, TypeOK, BootStates
<1>2. c \in BootStates
  BY <1>1, BootsFacts
<1>3. c.pc = "cover" /\ c.reason = boot.reason /\ c.cause = "none" /\ ~c.ui /\ ~c.accepted
  BY DEF Boots
<1>4. b = [c EXCEPT !.synced = TRUE, !.ran = boot.ran]
  BY DEF AfterSync
<1> HIDE DEF c
<1> QED BY <1>1, <1>2, <1>3, <1>4 DEF BootStates

\* The RTC struct, the counter file, the boot state, the messages and the
\* history keep their shapes through every step.
LEMMA NextShapes == ASSUME Shapes, Boot, [Next]_vars PROVE Shapes'
<1> USE DEF Shapes, TypeOK
<1>0. /\ now \in Nat /\ base \in Nat /\ base <= now
      /\ rtc \in RtcStates /\ flash \in Flashes /\ boot \in BootStates /\ hist \in Histories
      /\ Uptime \in Nat /\ hist.cold <= now
  BY DEF Uptime, Boot, Histories
<1>1. CASE TimerFires
  <2>1. boot.alarm \in Nat /\ now <= boot.alarm
    BY <1>1, Constants DEF TimerFires, Boot
  <2> QED BY <2>1, <1>1, AppMainFacts DEF TimerFires, Reasons
<1>2. ASSUME NEW r \in {"key", "usb", "unknown"}, WokenBy(r) PROVE Shapes'
  <2>1. PICK t \in {now, boot.alarm - 1} : AppMain(t, r)
    BY <1>2 DEF WokenBy
  <2>2. t \in Nat /\ now <= t
    BY <1>2, Constants DEF WokenBy, Boot
  <2> QED BY <2>1, <2>2, <1>2, AppMainFacts DEF WokenBy, Reasons
<1>3. CASE PowerOn
  <2>1. PICK t \in Nat : t = now
    BY <1>0
  <2>2. AppMain(t, "cold") /\ now <= t /\ UNCHANGED <<flash, sms, glass>>
    BY <1>3, <2>1 DEF PowerOn
  <2>3. now' = t /\ base' \in Nat /\ base' <= t /\ rtc' \in RtcStates
        /\ boot' \in BootStates /\ hist' \in Histories
    BY <2>1, <2>2, AppMainFacts DEF Reasons
  <2> QED BY <2>2, <2>3
<1>4. CASE PowerCut
  <2>1. rtc' \in RtcStates
    BY <1>4, ReconstructFacts DEF PowerCut, RtcStates
  <2>2. boot' \in BootStates
    BY <1>4, BootsFacts DEF PowerCut, Reasons
  <2> QED BY <2>1, <2>2, <1>4 DEF PowerCut
<1>5. CASE OpenFails
  BY <1>5, SleepFacts DEF OpenFails
<1>6. ASSUME NEW floor \in Floors, Open(floor) PROVE Shapes'
  <2> DEFINE in == [reason |-> boot.reason, uptime |-> boot.uptime, intact |-> boot.intact,
                    due |-> rtc.due, queued |-> flash.queued, floor |-> floor]
             p == Decide(in)
  <2>1. floor \in BOOLEAN
    BY <1>6, Constants
  <2>2. p.cause \in SyncCauses /\ p.ui \in BOOLEAN /\ p.poll \in BOOLEAN /\ p.charge = floor
    BY <2>1, DecideFacts
  <2>3. /\ boot' = [boot EXCEPT !.cause = p.cause, !.ui = p.ui,
                      !.drained = IF p.poll THEN sms ELSE <<>>, !.ran = ~floor,
                      !.pc = CASE p.charge -> "end" [] p.poll -> "poll" [] OTHER -> "sync"]
        /\ sms' = IF p.poll THEN <<>> ELSE sms
        /\ glass' = IF p.charge THEN "chargeMe" ELSE glass
        /\ hist' = IF p.charge THEN [hist EXCEPT !.stale = TRUE] ELSE hist
        /\ UNCHANGED <<now, base, rtc, flash>>
    BY <1>6 DEF Open
  <2> HIDE DEF p
  <2>4. (IF p.poll THEN sms ELSE <<>>) \in Seq(Messages) /\ sms' \in Seq(Messages)
    BY <2>2, <2>3
  <2>5. (CASE p.charge -> "end" [] p.poll -> "poll" [] OTHER -> "sync") \in {"end", "poll", "sync"}
    BY <2>2
  <2>6. boot' \in BootStates
    BY <1>0, <2>1, <2>2, <2>3, <2>4, <2>5 DEF BootStates
  <2>7. hist' \in Histories
    BY <1>0, <2>3 DEF Histories
  <2> QED BY <2>3, <2>4, <2>6, <2>7
<1>7. ASSUME NEW written \in BOOLEAN, VerifySms(written) PROVE Shapes'
  <2> DEFINE m == Head(boot.drained)
             v == Verify(m, written)
  <2>1. boot.drained \in Seq(Messages) /\ boot.drained # <<>>
    BY <1>0, <1>7 DEF VerifySms, BootStates
  <2>2. m \in Messages /\ Tail(boot.drained) \in Seq(Messages)
    BY <2>1
  <2>3. m.n \in 1..MaxCounter
    BY <2>2 DEF Messages
  <2>4. /\ rtc' = IF v = "rateLimited" THEN rtc ELSE [rtc EXCEPT !.verified = Uptime]
        /\ flash' = IF v = "accept" THEN [flash EXCEPT !.high = m.n] ELSE flash
        /\ boot' = [boot EXCEPT !.drained = Tail(@), !.received = TRUE,
                      !.accepted = @ \/ v = "accept"]
        /\ hist' = IF v # "accept" THEN hist
                   ELSE [hist EXCEPT !.heard = @ \cup {m.n}, !.twice = @ \/ m.n \in hist.heard]
        /\ UNCHANGED <<now, base, sms, glass>>
    BY <1>7 DEF VerifySms
  <2> HIDE DEF v, m
  <2>5. rtc' \in RtcStates
    BY <1>0, <2>4 DEF RtcStates
  <2>6. flash' \in Flashes
    BY <1>0, <2>3, <2>4 DEF Flashes
  <2>7. boot' \in BootStates
    BY <1>0, <2>2, <2>4 DEF BootStates
  <2>8. hist' \in Histories
    <3> DEFINE heard == hist.heard \cup {m.n}
               twice == hist.twice \/ m.n \in hist.heard
    <3>1. heard \in SUBSET Nat /\ twice \in BOOLEAN
      BY <1>0, <2>3, Constants DEF Histories
    <3>2. hist' = hist \/ hist' = [hist EXCEPT !.heard = heard, !.twice = twice]
      BY <2>4
    <3> HIDE DEF heard, twice
    <3> QED BY <1>0, <3>1, <3>2 DEF Histories
  <2> QED BY <2>4, <2>5, <2>6, <2>7, <2>8
<1>8. CASE ChargeWindow
  <2> DEFINE allowed == SmsWakeAllowed(rtc, boot.uptime)
             rings == boot.accepted /\ allowed
  <2>1. /\ rtc' = IF boot.received /\ allowed THEN [rtc EXCEPT !.lastSms = boot.uptime] ELSE rtc
        /\ boot' = [boot EXCEPT !.pc = "sync", !.cause = IF rings THEN "doorbell" ELSE @]
        /\ hist' = IF rings THEN [hist EXCEPT !.bell = now] ELSE hist
        /\ UNCHANGED <<now, base, flash, sms, glass>>
    BY <1>8 DEF ChargeWindow
  <2> HIDE DEF allowed, rings
  <2>2. rtc' \in RtcStates
    <3>1. boot.uptime \in Int
      BY <1>0 DEF BootStates
    <3> QED BY <1>0, <2>1, <3>1 DEF RtcStates
  <2>3. boot' \in BootStates
    BY <1>0, <2>1 DEF BootStates, SyncCauses
  <2>4. hist' \in Histories
    BY <1>0, <2>1 DEF Histories
  <2> QED BY <2>1, <2>2, <2>3, <2>4
<1>9. CASE NoSync
  BY <1>0, <1>9 DEF NoSync, BootStates
<1>10. ASSUME NEW letters \in BOOLEAN, NEW more \in BOOLEAN, NEW s \in Intervals,
              SyncRound(letters, more, s)
       PROVE  Shapes'
  <2>1. now' \in Nat /\ base' = base /\ base <= now'
    BY <1>0, <1>10 DEF SyncRound, Takes
  <2>2. flash' \in Flashes
    BY <1>10, AppliedFacts DEF SyncRound
  <2>3. boot' = AfterSync(boot) \/ boot' = [boot EXCEPT !.rounds = @ + 1]
    BY <1>10 DEF SyncRound
  <2>4. boot' \in BootStates
    <3>1. CASE boot' = AfterSync(boot)
      BY <3>1, AfterSyncFacts
    <3>2. CASE boot' = [boot EXCEPT !.rounds = @ + 1]
      BY <1>0, <3>2 DEF BootStates
    <3> QED BY <2>3, <3>1, <3>2
  <2>5. hist' \in Histories
    BY <1>0, <2>1, <1>10 DEF Attempted, SyncRound, Histories
  <2> QED BY <2>1, <2>2, <2>4, <2>5, <1>10 DEF SyncRound
<1>11. CASE SyncIncomplete \/ SyncFault
  <2>1. now' \in Nat /\ base' = base /\ base <= now'
    BY <1>0, <1>11 DEF SyncIncomplete, SyncFault, Takes
  <2>2. boot' \in BootStates
    BY <1>11, AfterSyncFacts DEF SyncIncomplete, SyncFault
  <2>3. hist' \in Histories
    BY <1>0, <2>1, <1>11 DEF Attempted, SyncIncomplete, SyncFault, Histories
  <2> QED BY <2>1, <2>2, <2>3, <1>11 DEF SyncIncomplete, SyncFault
<1>12. CASE UiRead \/ UiWrite
  <2>1. flash' \in Flashes
    BY <1>0, <1>12 DEF UiRead, UiWrite, Flashes
  <2> QED BY <2>1, <1>12 DEF UiRead, UiWrite
<1>13. ASSUME NEW letters \in BOOLEAN, NEW works \in BOOLEAN, UiSync(letters, works)
       PROVE  Shapes'
  <2>1. flash.interval \in Intervals
    BY <1>0 DEF Flashes
  <2>2. flash' \in Flashes
    BY <1>0, <2>1, <1>13, AppliedFacts DEF UiSync
  <2>3. hist' \in Histories
    BY <1>0, <1>13 DEF Attempted, UiSync, Histories
  <2> QED BY <2>2, <2>3, <1>13 DEF UiSync
<1>14. CASE UiEnd
  <2>1. now' \in Nat /\ base' = base /\ base <= now'
    BY <1>0, <1>14 DEF UiEnd, Takes
  <2>2. boot' \in BootStates
    BY <1>0, <1>14 DEF UiEnd, BootStates
  <2>3. hist' \in Histories
    BY <1>0, <1>14 DEF UiEnd, Histories, RtcStates, Flashes
  <2> QED BY <2>1, <2>2, <2>3, <1>14 DEF UiEnd, CoverOf
<1>15. CASE Cover
  <2>1. rtc' \in RtcStates
    BY <1>0, <1>15 DEF Cover, RtcStates, Flashes
  <2>2. boot' \in BootStates
    BY <1>0, <1>15 DEF Cover, BootStates
  <2>3. hist' \in Histories
    BY <1>0, <1>15 DEF Cover, Histories
  <2>4. glass' \in {"blank", "flag", "plain", "chargeMe"}
    BY <1>15 DEF Cover, CoverOf
  <2> QED BY <2>1, <2>2, <2>3, <2>4, <1>15 DEF Cover
<1>16. CASE ToSleep
  <2>1. Uptime + Interval(flash.interval) \in Nat
    BY <1>0, IntervalFacts DEF Flashes
  <2>2. rtc' \in RtcStates
    BY <1>0, <2>1, <1>16 DEF ToSleep, RtcStates
  <2>3. hist' \in Histories
    BY <1>0, <1>16 DEF ToSleep, Histories
  <2> QED BY <2>2, <2>3, <1>16, SleepFacts DEF ToSleep
<1>17. ASSUME NEW m \in Messages, Carrier(m) PROVE Shapes'
  BY <1>17 DEF Carrier
<1>18. CASE UNCHANGED vars
  BY <1>18 DEF vars
<1> QED BY <1>1, <1>2, <1>3, <1>4, <1>5, <1>6, <1>7, <1>8, <1>9, <1>10, <1>11, <1>12, <1>13,
           <1>14, <1>15, <1>16, <1>17, <1>18 DEF Next

\* The wakes: time moves on, the segment is repaired, the locals start again.
LEMMA WakeUp ==
  ASSUME Shapes, Boot,
         TimerFires \/ PowerOn \/ \E r \in {"key", "usb", "unknown"} : WokenBy(r)
  PROVE  /\ UNCHANGED <<flash, sms, glass>>
         /\ now' \in Nat /\ now <= now'
         /\ boot'.pc = "open" /\ boot'.uptime = now' - base' /\ boot'.cause = "none"
         /\ ~boot'.ran /\ ~boot'.ui /\ ~boot'.synced /\ ~boot'.accepted
         /\ hist'.synced = hist.synced /\ hist'.bell = hist.bell /\ hist'.heard = hist.heard
         /\ hist'.twice = hist.twice /\ hist'.stale = hist.stale /\ ~hist'.tried
         /\ Restarts \subseteq {TRUE} => base' = now'
         /\ \/ /\ PowerOn /\ now' = now /\ base' = now /\ hist'.cold = now
               /\ ~hist'.restarted /\ rtc' = Reconstruct(0) /\ rtc'.intact
            \/ /\ boot.pc = "asleep" /\ hist'.cold = hist.cold
               /\ base' \in {base, now'}
               /\ hist'.restarted \/ (~hist.restarted /\ base' = base)
               /\ rtc'.intact /\ rtc'.lastSms = rtc.lastSms /\ rtc'.due = rtc.due
               /\ rtc'.mirror = rtc.mirror /\ rtc'.valid = rtc.valid
<1>0. now \in Nat /\ base \in Nat /\ hist \in Histories
  BY DEF Shapes, TypeOK
<1>1. CASE PowerOn
  <2>1. AppMain(now, "cold") /\ boot.pc = "off"
    BY <1>1 DEF PowerOn
  <2>2. ~rtc.intact
    BY <2>1 DEF Boot
  <2>a. PICK t \in Nat : t = now
    BY <1>0
  <2>b. AppMain(t, "cold") /\ now <= t /\ t - t = 0
    BY <2>1, <2>a
  <2>3. /\ now' = t /\ base' = t /\ boot' = Boots("open", "cold", t - base')
        /\ rtc' = Reconstruct(t - base')
        /\ hist' = [hist EXCEPT !.tried = FALSE, !.cold = t, !.restarted = FALSE]
    BY <2>2, <2>b, AppMainFacts DEF Reasons
  <2>5. boot' = Boots("open", "cold", 0) /\ rtc' = Reconstruct(0)
    BY <2>3, <2>b
  <2>6. /\ boot'.pc = "open" /\ boot'.uptime = 0 /\ boot'.cause = "none"
        /\ ~boot'.ran /\ ~boot'.ui /\ ~boot'.synced /\ ~boot'.accepted
    BY <2>5 DEF Boots
  <2>7. rtc'.intact
    BY <2>5 DEF Reconstruct
  <2>8. hist' = [hist EXCEPT !.tried = FALSE, !.cold = now, !.restarted = FALSE]
    BY <2>3, <2>a
  <2>9. /\ hist'.synced = hist.synced /\ hist'.bell = hist.bell /\ hist'.heard = hist.heard
        /\ hist'.twice = hist.twice /\ hist'.stale = hist.stale /\ ~hist'.tried
        /\ hist'.cold = now /\ ~hist'.restarted
    BY <1>0, <2>8 DEF Histories
  <2> QED BY <1>0, <1>1, <2>3, <2>a, <2>b, <2>5, <2>6, <2>7, <2>9 DEF PowerOn
<1>2. CASE TimerFires \/ \E r \in {"key", "usb", "unknown"} : WokenBy(r)
  <2>1. PICK t, r : AppMain(t, r) /\ t \in {now, boot.alarm - 1, boot.alarm} /\ r \in Reasons \ {"cold"}
    BY <1>2 DEF TimerFires, WokenBy, Reasons
  <2>2. boot.pc = "asleep" /\ UNCHANGED <<flash, sms, glass>>
    BY <1>2 DEF TimerFires, WokenBy
  <2>3. rtc.intact /\ boot.alarm = now + TimerWake
    BY <2>2 DEF Boot
  <2>4. t \in Nat /\ now <= t
    BY <1>0, <2>1, <2>3, Constants
  <2>5. /\ now' = t /\ base' \in {base, t} /\ (Restarts \subseteq {TRUE} => base' = t)
        /\ boot' = Boots("open", r, t - base')
        /\ rtc'.intact /\ rtc'.lastSms = rtc.lastSms /\ rtc'.due = rtc.due
        /\ rtc'.mirror = rtc.mirror /\ rtc'.valid = rtc.valid
    BY <2>1, <2>3, <2>4, AppMainFacts, Constants
  <2>6. hist' = [hist EXCEPT !.tried = FALSE, !.cold = hist.cold,
                   !.restarted = hist.restarted \/ base' # base]
    BY <2>1, <2>3, <2>4, AppMainFacts
  <2>7. /\ hist'.synced = hist.synced /\ hist'.bell = hist.bell /\ hist'.heard = hist.heard
        /\ hist'.twice = hist.twice /\ hist'.stale = hist.stale /\ ~hist'.tried
        /\ hist'.cold = hist.cold /\ (hist'.restarted \/ (~hist.restarted /\ base' = base))
    BY <1>0, <2>6 DEF Histories
  <2> QED BY <2>2, <2>4, <2>5, <2>7 DEF Boots
<1> QED BY <1>1, <1>2

\* Boot through every step.
LEMMA BootKept == ASSUME Shapes, Boot, [Next]_vars PROVE Boot'
<1> USE DEF Boot
<1>0. /\ now \in Nat /\ base \in Nat /\ base <= now
      /\ rtc \in RtcStates /\ flash \in Flashes /\ boot \in BootStates /\ hist \in Histories
  BY DEF Shapes, TypeOK
<1>a. hist.synced \in Nat /\ hist.bell \in Nat /\ hist.cold \in Nat
  BY <1>0 DEF Histories
<1>1. CASE TimerFires \/ PowerOn \/ \E r \in {"key", "usb", "unknown"} : WokenBy(r)
  <2> USE <1>0, <1>a, <1>1, WakeUp
  <2>1. base' <= now' /\ base' \in Nat
    BY NextShapes DEF Shapes, TypeOK
  <2>2. CASE now' = now /\ base' = now /\ hist'.cold = now
    <3>1. rtc'.intact /\ hist'.cold <= base' /\ hist'.synced <= now' /\ hist'.bell <= now'
      BY <2>2
    <3> QED BY <3>1 DEF Uptime
  <2>3. CASE boot.pc = "asleep" /\ hist'.cold = hist.cold /\ base' \in {base, now'} /\ rtc'.intact
    <3>1. /\ now' \in Nat /\ now <= now' /\ hist.cold <= base
          /\ hist'.synced = hist.synced /\ hist'.bell = hist.bell
          /\ hist.synced <= now /\ hist.bell <= now
      OBVIOUS
    <3>2. base <= base'
      BY <2>3, <3>1
    <3>3. hist'.cold <= base'
      BY <2>1, <2>3, <3>1, <3>2
    <3>4. hist'.synced <= now' /\ hist'.bell <= now'
      BY <3>1
    <3> QED BY <2>3, <3>3, <3>4 DEF Uptime
  <2> QED BY <2>2, <2>3
<1>4. CASE PowerCut
  BY <1>0, <1>4 DEF PowerCut, Boots, Reconstruct, Uptime
<1>5. CASE OpenFails
  BY <1>5, SleepFacts DEF OpenFails, Uptime
<1>6. ASSUME NEW floor \in Floors, Open(floor) PROVE Boot'
  <2> DEFINE in == [reason |-> boot.reason, uptime |-> boot.uptime, intact |-> boot.intact,
                    due |-> rtc.due, queued |-> flash.queued, floor |-> floor]
             p == Decide(in)
  <2>1. floor \in BOOLEAN
    BY <1>6, Constants
  <2>2. /\ p.ui \in BOOLEAN /\ p.poll \in BOOLEAN /\ p.charge = floor
        /\ p.ui => boot.reason = "key"
    BY <2>1, DecideFacts
  <2>3. /\ boot' = [boot EXCEPT !.cause = p.cause, !.ui = p.ui,
                      !.drained = IF p.poll THEN sms ELSE <<>>, !.ran = ~floor,
                      !.pc = CASE p.charge -> "end" [] p.poll -> "poll" [] OTHER -> "sync"]
        /\ boot.pc = "open"
        /\ hist' = IF p.charge THEN [hist EXCEPT !.stale = TRUE] ELSE hist
        /\ UNCHANGED <<now, base, rtc, flash>>
    BY <1>6 DEF Open
  <2> HIDE DEF p
  <2>4. /\ boot'.pc \in {"end", "poll", "sync"} /\ boot'.ui = p.ui /\ boot'.reason = boot.reason
        /\ boot'.synced = boot.synced /\ boot'.accepted = boot.accepted
        /\ boot'.received = boot.received /\ boot'.uptime = boot.uptime
    BY <1>0, <2>2, <2>3 DEF BootStates
  <2>5. hist'.synced = hist.synced /\ hist'.bell = hist.bell /\ hist'.cold = hist.cold
    BY <1>0, <2>3 DEF Histories
  <2> QED BY <2>2, <2>3, <2>4, <2>5 DEF Uptime
<1>7. ASSUME NEW written \in BOOLEAN, VerifySms(written) PROVE Boot'
  <2>1. /\ boot'.pc = boot.pc /\ boot.pc = "poll" /\ boot'.ui = boot.ui
        /\ boot'.reason = boot.reason /\ boot'.synced = boot.synced
        /\ boot'.received /\ boot'.uptime = boot.uptime
    BY <1>0, <1>7 DEF VerifySms, BootStates
  <2>2. hist'.synced = hist.synced /\ hist'.bell = hist.bell /\ hist'.cold = hist.cold
    BY <1>0, <1>7 DEF VerifySms, Histories
  <2>3. rtc'.intact = rtc.intact /\ UNCHANGED <<now, base>>
    BY <1>0, <1>7 DEF VerifySms, RtcStates
  <2> QED BY <2>1, <2>2, <2>3 DEF Uptime
<1>8. CASE ChargeWindow
  <2>1. /\ boot.pc = "poll" /\ boot'.pc = "sync" /\ boot'.ui = boot.ui
        /\ boot'.reason = boot.reason /\ boot'.synced = boot.synced
        /\ boot'.received = boot.received /\ boot'.accepted = boot.accepted
    BY <1>0, <1>8 DEF ChargeWindow, BootStates
  <2>2. /\ hist'.synced = hist.synced /\ hist'.cold = hist.cold
        /\ hist'.bell = hist.bell \/ hist'.bell = now
    BY <1>0, <1>8 DEF ChargeWindow, Histories
  <2>3. rtc'.intact = rtc.intact /\ UNCHANGED <<now, base>>
    BY <1>0, <1>8 DEF ChargeWindow, RtcStates
  <2> QED BY <1>0, <1>a, <2>1, <2>2, <2>3 DEF Uptime
<1>9. CASE NoSync
  BY <1>0, <1>9 DEF NoSync, BootStates, Uptime
<1>10. ASSUME NEW letters \in BOOLEAN, NEW more \in BOOLEAN, NEW s \in Intervals,
              SyncRound(letters, more, s)
       PROVE  Boot'
  <2>1. now' \in Nat /\ now <= now' /\ base' = base /\ rtc' = rtc
    BY <1>0, <1>10 DEF SyncRound, Takes
  <2>2. hist'.synced = now' /\ hist'.bell = hist.bell /\ hist'.cold = hist.cold
    BY <1>0, <1>10 DEF Attempted, SyncRound, Histories
  <2>3. CASE boot' = AfterSync(boot)
    BY <1>0, <1>a, <2>1, <2>2, <2>3, <1>10, AfterSyncFacts DEF SyncRound, Syncing
  <2>4. CASE boot' = [boot EXCEPT !.rounds = @ + 1]
    BY <1>0, <1>a, <2>1, <2>2, <2>4, <1>10 DEF SyncRound, Syncing, BootStates
  <2> QED BY <2>3, <2>4, <1>10 DEF SyncRound
<1>11. CASE SyncIncomplete \/ SyncFault
  <2>1. now' \in Nat /\ now <= now' /\ base' = base /\ rtc' = rtc
    BY <1>0, <1>11 DEF SyncIncomplete, SyncFault, Takes
  <2>2. hist'.synced = now' /\ hist'.bell = hist.bell /\ hist'.cold = hist.cold
    BY <1>0, <1>11 DEF Attempted, SyncIncomplete, SyncFault, Histories
  <2>3. boot' = AfterSync(boot) /\ boot.pc = "sync"
    BY <1>11 DEF SyncIncomplete, SyncFault, Syncing
  <2> QED BY <1>0, <1>a, <2>1, <2>2, <2>3, AfterSyncFacts
<1>12. CASE UiRead \/ UiWrite
  BY <1>12 DEF UiRead, UiWrite, Uptime
<1>13. ASSUME NEW letters \in BOOLEAN, NEW works \in BOOLEAN, UiSync(letters, works)
       PROVE  Boot'
  <2>1. hist'.synced = now /\ hist'.bell = hist.bell /\ hist'.cold = hist.cold
    BY <1>0, <1>13 DEF Attempted, UiSync, Histories
  <2> QED BY <1>0, <2>1, <1>13 DEF UiSync, Uptime
<1>14. CASE UiEnd
  <2>1. now' \in Nat /\ now <= now' /\ base' = base /\ rtc' = rtc /\ boot.pc = "ui"
    BY <1>0, <1>14 DEF UiEnd, Takes
  <2>2. hist'.synced = hist.synced /\ hist'.bell = hist.bell /\ hist'.cold = hist.cold
    BY <1>0, <1>14 DEF UiEnd, Histories
  <2>3. /\ boot'.pc = "end" /\ boot'.ui = boot.ui /\ boot'.reason = boot.reason
        /\ boot'.accepted = boot.accepted /\ boot'.received = boot.received
    BY <1>0, <1>14 DEF UiEnd, BootStates
  <2> QED BY <1>0, <1>a, <2>1, <2>2, <2>3
<1>15. CASE Cover
  <2>1. /\ boot.pc = "cover" /\ boot'.pc = "end" /\ boot'.ui = boot.ui /\ boot'.reason = boot.reason
        /\ boot'.accepted = boot.accepted /\ boot'.received = boot.received
    BY <1>0, <1>15 DEF Cover, BootStates
  <2>2. rtc'.intact = rtc.intact /\ UNCHANGED <<now, base>>
    BY <1>0, <1>15 DEF Cover, RtcStates
  <2>3. hist'.synced = hist.synced /\ hist'.bell = hist.bell /\ hist'.cold = hist.cold
    BY <1>0, <1>15 DEF Cover, Histories
  <2> QED BY <2>1, <2>2, <2>3
<1>16. CASE ToSleep
  <2>1. rtc'.intact = rtc.intact /\ UNCHANGED <<now, base>> /\ boot.pc = "end"
    BY <1>0, <1>16 DEF ToSleep, RtcStates
  <2>2. hist'.synced = hist.synced /\ hist'.bell = hist.bell /\ hist'.cold = hist.cold
    BY <1>0, <1>16 DEF ToSleep, Histories
  <2> QED BY <2>1, <2>2, <1>16, SleepFacts DEF ToSleep
<1>17. ASSUME NEW m \in Messages, Carrier(m) PROVE Boot'
  BY <1>17 DEF Carrier, Uptime
<1>18. CASE UNCHANGED vars
  BY <1>18 DEF vars, Uptime
<1> QED BY <1>1, <1>4, <1>5, <1>6, <1>7, <1>8, <1>9, <1>10, <1>11, <1>12, <1>13,
           <1>14, <1>15, <1>16, <1>17, <1>18 DEF Next

\* Only the verifier moves the high-water and the counters it has accepted.
LEMMA TokensKept == ASSUME Shapes, Boot, Tokens, [Next]_vars PROVE Tokens'
<1>0. /\ flash \in Flashes /\ hist \in Histories /\ boot \in BootStates
  BY DEF Shapes, TypeOK
<1>1. ASSUME hist'.heard = hist.heard, hist'.twice = hist.twice, flash'.high = flash.high
      PROVE  Tokens'
  BY <1>1 DEF Tokens
<1>2. ASSUME NEW written \in BOOLEAN, VerifySms(written) PROVE Tokens'
  <2> DEFINE m == Head(boot.drained)
             v == Verify(m, written)
  <2>1. m \in Messages
    BY <1>0, <1>2 DEF VerifySms, BootStates
  <2>2. m.n \in Nat /\ flash.high \in Nat
    BY <1>0, <2>1, Constants DEF Messages, Flashes
  <2>3. CASE v # "accept"
    <3>1. flash' = flash /\ hist' = hist
      BY <1>2, <2>3 DEF VerifySms
    <3> QED BY <3>1, <1>1
  <2>4. CASE v = "accept"
    <3>1. m.n > flash.high
      BY <2>2, <2>4 DEF Verify
    <3>2. m.n \notin hist.heard
      BY <2>2, <3>1 DEF Tokens
    <3>3. flash' = [flash EXCEPT !.high = m.n]
      BY <1>2, <2>4 DEF VerifySms
    <3>4. hist' = [hist EXCEPT !.heard = @ \cup {m.n}, !.twice = @ \/ m.n \in hist.heard]
      BY <1>2, <2>4 DEF VerifySms
    <3> HIDE DEF m
    <3>5. flash'.high = m.n /\ hist'.heard = hist.heard \cup {m.n} /\ ~hist'.twice
      BY <1>0, <3>2, <3>3, <3>4 DEF Flashes, Histories, Tokens
    <3>6. \A n \in hist.heard : n \in Nat
      BY <1>0 DEF Histories
    <3> QED BY <2>2, <3>1, <3>5, <3>6 DEF Tokens
  <2> QED BY <2>3, <2>4
<1>3. CASE TimerFires \/ PowerOn \/ \E r \in {"key", "usb", "unknown"} : WokenBy(r)
  BY <1>1, <1>3, WakeUp
<1>4. CASE \/ PowerCut \/ OpenFails \/ ChargeWindow \/ NoSync \/ SyncIncomplete \/ SyncFault
           \/ UiEnd \/ Cover \/ ToSleep \/ UNCHANGED vars
           \/ \E floor \in Floors : Open(floor)
           \/ \E m \in Messages : Carrier(m)
  <2>1. flash' = flash
    BY <1>4 DEF PowerCut, OpenFails, ChargeWindow, NoSync, SyncIncomplete, SyncFault, UiEnd,
                Cover, ToSleep, vars, Open, Carrier
  <2>2. hist'.heard = hist.heard /\ hist'.twice = hist.twice
    BY <1>0, <1>4 DEF PowerCut, OpenFails, ChargeWindow, NoSync, SyncIncomplete, SyncFault,
                UiEnd, Cover, ToSleep, vars, Open, Carrier, Attempted, Histories
  <2> QED BY <1>1, <2>1, <2>2
<1>5. CASE \/ \E letters, more \in BOOLEAN, s \in Intervals : SyncRound(letters, more, s)
           \/ UiRead \/ UiWrite \/ \E letters, works \in BOOLEAN : UiSync(letters, works)
  <2>1. flash'.high = flash.high
    BY <1>0, <1>5 DEF SyncRound, UiRead, UiWrite, UiSync, Applied, Flashes
  <2>2. hist'.heard = hist.heard /\ hist'.twice = hist.twice
    BY <1>0, <1>5 DEF SyncRound, UiRead, UiWrite, UiSync, Attempted, Histories
  <2> QED BY <1>1, <2>1, <2>2
<1> QED BY <1>2, <1>3, <1>4, <1>5 DEF Next

\* The glass and its mirror through every step.
LEMMA GlassKept == ASSUME Shapes, Boot, Glass, [Next]_vars PROVE Glass'
<1>0. /\ rtc \in RtcStates /\ flash \in Flashes /\ hist \in Histories /\ boot \in BootStates
  BY DEF Shapes, TypeOK
<1>1. CASE TimerFires \/ PowerOn \/ \E r \in {"key", "usb", "unknown"} : WokenBy(r)
  <2>1. glass' = glass /\ boot'.pc = "open"
    BY <1>1, WakeUp
  <2>2. CASE rtc' = Reconstruct(0)
    BY <2>1, <2>2 DEF Glass, Reconstruct
  <2>3. CASE rtc'.mirror = rtc.mirror /\ rtc'.valid = rtc.valid
    BY <1>1, <2>1, <2>3, WakeUp DEF Glass
  <2> QED BY <2>2, <2>3, <1>1, WakeUp
<1>4. CASE PowerCut
  BY <1>0, <1>4 DEF PowerCut, Glass, Boots, Reconstruct
<1>5. CASE OpenFails
  <2>1. ~boot'.ran
    BY <1>5, SleepFacts DEF OpenFails, Boot
  <2> QED BY <2>1, <1>5 DEF OpenFails, Glass
<1>6. ASSUME NEW floor \in Floors, Open(floor) PROVE Glass'
  <2> DEFINE in == [reason |-> boot.reason, uptime |-> boot.uptime, intact |-> boot.intact,
                    due |-> rtc.due, queued |-> flash.queued, floor |-> floor]
             p == Decide(in)
  <2>1. floor \in BOOLEAN
    BY <1>6, Constants
  <2>2. p.poll \in BOOLEAN /\ p.charge = floor
    BY <2>1, DecideFacts
  <2>3. /\ boot' = [boot EXCEPT !.cause = p.cause, !.ui = p.ui,
                      !.drained = IF p.poll THEN sms ELSE <<>>, !.ran = ~floor,
                      !.pc = CASE p.charge -> "end" [] p.poll -> "poll" [] OTHER -> "sync"]
        /\ glass' = IF p.charge THEN "chargeMe" ELSE glass
        /\ hist' = IF p.charge THEN [hist EXCEPT !.stale = TRUE] ELSE hist
        /\ UNCHANGED <<rtc, flash>>
    BY <1>6 DEF Open
  <2> HIDE DEF p
  <2>4. CASE floor
    <3>1. hist'.stale
      BY <1>0, <2>2, <2>3, <2>4 DEF Histories
    <3> QED BY <3>1 DEF Glass
  <2>5. CASE ~floor
    <3>1. boot'.pc \in {"poll", "sync"}
      BY <1>0, <2>2, <2>3, <2>5 DEF BootStates
    <3> QED BY <2>2, <2>3, <2>5, <3>1 DEF Glass
  <2> QED BY <2>1, <2>4, <2>5
<1>7. CASE ChargeWindow \/ \E written \in BOOLEAN : VerifySms(written)
  <2>1. /\ rtc'.mirror = rtc.mirror /\ rtc'.valid = rtc.valid
        /\ hist'.stale = hist.stale /\ glass' = glass
    BY <1>0, <1>7 DEF ChargeWindow, VerifySms, RtcStates, Histories
  <2>2. boot'.pc \in {"poll", "sync"}
    BY <1>0, <1>7 DEF ChargeWindow, VerifySms, BootStates
  <2> QED BY <2>1, <2>2 DEF Glass
<1>8. CASE \/ NoSync \/ SyncIncomplete \/ SyncFault \/ UiRead \/ UiWrite
           \/ \E letters, more \in BOOLEAN, s \in Intervals : SyncRound(letters, more, s)
           \/ \E letters, works \in BOOLEAN : UiSync(letters, works)
  <2>1. rtc' = rtc /\ glass' = glass
    BY <1>8 DEF NoSync, SyncIncomplete, SyncFault, SyncRound, UiRead, UiWrite, UiSync
  <2>2. hist'.stale = hist.stale
    BY <1>0, <1>8 DEF NoSync, SyncIncomplete, SyncFault, SyncRound, UiRead, UiWrite, UiSync,
                      Attempted, Histories
  <2>3. boot'.pc \notin {"end", "asleep"}
    BY <1>0, <1>8, AfterSyncFacts DEF NoSync, SyncIncomplete, SyncFault, SyncRound, UiRead,
                      UiWrite, UiSync, Syncing, BootStates
  <2> QED BY <2>1, <2>2, <2>3 DEF Glass
<1>9. CASE UiEnd
  <2>1. glass' = CoverOf(flash.unread) /\ rtc' = rtc /\ flash' = flash
    BY <1>9 DEF UiEnd
  <2>2. hist'.stale <=> (rtc.valid /\ rtc.mirror # flash.unread)
    BY <1>0, <1>9 DEF UiEnd, Histories, RtcStates, Flashes
  <2> QED BY <1>0, <2>1, <2>2 DEF Glass, RtcStates, Flashes
<1>10. CASE Cover
  <2> DEFINE redraw == CoverNeedsRerender(rtc, flash.unread)
  <2>1. /\ glass' = IF redraw THEN CoverOf(flash.unread) ELSE glass
        /\ rtc' = [rtc EXCEPT !.mirror = flash.unread, !.valid = TRUE]
        /\ hist' = IF redraw THEN [hist EXCEPT !.stale = FALSE] ELSE hist
        /\ flash' = flash
    BY <1>10 DEF Cover
  <2>2. rtc'.mirror = flash.unread /\ rtc'.valid
    BY <1>0, <2>1 DEF RtcStates
  <2>3. CASE redraw
    BY <2>1, <2>2, <2>3 DEF Glass
  <2>4. CASE ~redraw
    <3>1. rtc.valid /\ rtc.mirror = flash.unread
      BY <2>4 DEF CoverNeedsRerender
    <3> QED BY <2>1, <2>2, <2>4, <3>1 DEF Glass
  <2> QED BY <2>3, <2>4
<1>11. CASE ToSleep
  <2>1. /\ rtc'.mirror = rtc.mirror /\ rtc'.valid = rtc.valid
        /\ UNCHANGED <<flash, glass>> /\ boot.pc = "end" /\ hist'.stale = hist.stale
    BY <1>0, <1>11 DEF ToSleep, RtcStates, Histories
  <2> QED BY <2>1, <1>11, SleepFacts DEF ToSleep, Glass
<1>12. CASE UNCHANGED vars \/ \E m \in Messages : Carrier(m)
  BY <1>12 DEF vars, Carrier, Glass
<1> QED BY <1>1, <1>4, <1>5, <1>6, <1>7, <1>8, <1>9, <1>10, <1>11, <1>12 DEF Next

\* What a ring means: the poll of an accepted token finds the window open.
LEMMA RingFacts ==
  ASSUME Shapes, Boot, ChargeWindow
  PROVE  /\ base' = base /\ now' = now /\ rtc'.intact /\ rtc.intact
         /\ hist'.cold = hist.cold
         /\ \/ rtc'.lastSms = rtc.lastSms /\ hist'.bell = hist.bell
            \/ /\ base + rtc'.lastSms = now /\ hist'.bell \in {hist.bell, now}
               /\ now - base - rtc.lastSms >= MinWakeInterval
<1>0. /\ rtc \in RtcStates /\ hist \in Histories /\ boot \in BootStates
      /\ now \in Nat /\ base \in Nat
  BY DEF Shapes, TypeOK
<1>1. boot.pc = "poll" /\ boot.uptime = now - base
  BY DEF ChargeWindow, Boot, Uptime
<1>2. rtc.intact /\ (boot.accepted => boot.received)
  BY <1>1 DEF Boot
<1> DEFINE allowed == SmsWakeAllowed(rtc, boot.uptime)
<1>3. /\ rtc' = IF boot.received /\ allowed THEN [rtc EXCEPT !.lastSms = boot.uptime] ELSE rtc
      /\ hist' = IF boot.accepted /\ allowed THEN [hist EXCEPT !.bell = now] ELSE hist
      /\ base' = base /\ now' = now
  BY DEF ChargeWindow
<1>4. allowed => now - base - rtc.lastSms >= MinWakeInterval
  BY <1>0, <1>1 DEF SmsWakeAllowed
<1> HIDE DEF allowed
<1>5. CASE boot.received /\ allowed
  <2>1. rtc'.lastSms = now - base /\ rtc'.intact
    BY <1>0, <1>1, <1>2, <1>3, <1>5 DEF RtcStates
  <2>2. hist'.bell \in {hist.bell, now} /\ hist'.cold = hist.cold
    BY <1>0, <1>3 DEF Histories
  <2>3. base + (now - base) = now
    BY <1>0
  <2> QED BY <1>2, <1>3, <1>4, <1>5, <2>1, <2>2, <2>3
<1>6. CASE ~(boot.received /\ allowed)
  BY <1>2, <1>3, <1>6
<1> QED BY <1>5, <1>6

\* The limiter's window through every step.
LEMMA WindowKept == ASSUME Shapes, Boot, Window, [Next]_vars PROVE Window'
<1>0. /\ rtc \in RtcStates /\ hist \in Histories /\ boot \in BootStates
      /\ now \in Nat /\ base \in Nat /\ base <= now
  BY DEF Shapes, TypeOK
<1>a. /\ hist.bell \in Nat /\ hist.cold \in Nat /\ hist.bell <= now /\ hist.cold <= base
       /\ rtc.lastSms \in Int
  BY <1>0 DEF Histories, RtcStates, Boot
<1>1. CASE TimerFires \/ PowerOn \/ \E r \in {"key", "usb", "unknown"} : WokenBy(r)
  <2>0. hist'.bell = hist.bell /\ now' \in Nat /\ now <= now'
    BY <1>1, WakeUp
  <2>1. CASE base' = now /\ hist'.cold = now /\ rtc' = Reconstruct(0)
    <3>2. rtc'.lastSms = BootQuiet - MinWakeInterval
      BY <2>1, Constants DEF Reconstruct
    <3> QED BY <1>0, <1>a, <2>0, <2>1, <3>2, Constants DEF Window
  <2>2. CASE /\ boot.pc = "asleep" /\ hist'.cold = hist.cold /\ rtc'.lastSms = rtc.lastSms
             /\ base' \in {base, now'}
    <3>1. rtc.intact
      BY <2>2 DEF Boot
    <3>2. base' \in Nat /\ base <= base'
      BY <1>0, <2>0, <2>2
    <3> QED BY <1>0, <1>a, <2>0, <2>2, <3>1, <3>2, Constants DEF Window
  <2> QED BY <1>1, <2>1, <2>2, WakeUp
<1>2. CASE PowerCut
  <2>1. ~rtc'.intact
    BY <1>2 DEF PowerCut, Reconstruct
  <2> QED BY <2>1 DEF Window
<1>3. CASE ChargeWindow
  <2>1. CASE rtc'.lastSms = rtc.lastSms /\ hist'.bell = hist.bell
    BY <1>3, <2>1, RingFacts DEF Window
  <2>2. CASE /\ base + rtc'.lastSms = now /\ hist'.bell \in {hist.bell, now}
             /\ now - base - rtc.lastSms >= MinWakeInterval
    BY <1>0, <1>a, <1>3, <2>2, RingFacts, Constants DEF Window
  <2> QED BY <1>3, <2>1, <2>2, RingFacts
<1>4. CASE \/ OpenFails \/ NoSync \/ SyncIncomplete \/ SyncFault \/ UiRead \/ UiWrite \/ UiEnd
           \/ Cover \/ ToSleep \/ UNCHANGED vars
           \/ \E floor \in Floors : Open(floor)
           \/ \E written \in BOOLEAN : VerifySms(written)
           \/ \E letters, more \in BOOLEAN, s \in Intervals : SyncRound(letters, more, s)
           \/ \E letters, works \in BOOLEAN : UiSync(letters, works)
           \/ \E m \in Messages : Carrier(m)
  <2>1. base' = base
    BY <1>4 DEF OpenFails, NoSync, SyncIncomplete, SyncFault, UiRead, UiWrite, UiEnd, Cover,
                ToSleep, vars, Open, VerifySms, SyncRound, UiSync, Carrier
  <2>2. rtc'.intact = rtc.intact /\ rtc'.lastSms = rtc.lastSms
    BY <1>0, <1>4 DEF OpenFails, NoSync, SyncIncomplete, SyncFault, UiRead, UiWrite, UiEnd,
                Cover, ToSleep, vars, Open, VerifySms, SyncRound, UiSync, Carrier, RtcStates
  <2>3. hist'.bell = hist.bell /\ hist'.cold = hist.cold
    BY <1>0, <1>4 DEF OpenFails, NoSync, SyncIncomplete, SyncFault, UiRead, UiWrite, UiEnd,
                Cover, ToSleep, vars, Open, VerifySms, SyncRound, UiSync, Carrier, Attempted, Histories
  <2> QED BY <2>1, <2>2, <2>3 DEF Window
<1> QED BY <1>1, <1>2, <1>3, <1>4 DEF Next

\* The due time and the last attempt through every step.
LEMMA ScheduleStep ==
  ASSUME Shapes, Boot, Schedule, [Next]_vars PROVE Schedule'
<1>0. /\ rtc \in RtcStates /\ hist \in Histories /\ boot \in BootStates /\ flash \in Flashes
      /\ now \in Nat /\ base \in Nat /\ base <= now
  BY DEF Shapes, TypeOK
<1>a. /\ hist.synced \in Nat /\ hist.synced <= now /\ rtc.due \in Nat
      /\ hist.cold \in Nat /\ hist.cold <= now
      /\ Longest \in Nat /\ Longest > 0
  BY <1>0, IntervalFacts DEF Histories, RtcStates, Boot
<1>1. CASE TimerFires \/ PowerOn \/ \E r \in {"key", "usb", "unknown"} : WokenBy(r)
  <2>1. now' \in Nat /\ now <= now' /\ boot'.pc = "open" /\ ~boot'.synced /\ hist'.synced = hist.synced
    BY <1>1, WakeUp
  <2>2. CASE now' = now /\ base' = now /\ rtc' = Reconstruct(0)
    <3>1. rtc'.due = 0
      BY <2>2 DEF Reconstruct
    <3> QED BY <1>0, <2>1, <2>2, <3>1 DEF Schedule
  <2>3. CASE /\ boot.pc = "asleep" /\ hist'.cold = hist.cold /\ rtc'.due = rtc.due
             /\ hist'.restarted \/ (~hist.restarted /\ base' = base)
    <3>1. rtc.intact
      BY <2>3 DEF Boot
    <3>2. hist'.restarted \/ base' + rtc'.due <= now' \/ base' + rtc'.due <= hist'.synced + Longest
      BY <1>0, <1>a, <2>1, <2>3, <3>1 DEF Schedule
    <3> QED BY <2>1, <2>3, <3>1, <3>2 DEF Schedule
  <2> QED BY <1>1, <2>2, <2>3, WakeUp
<1>2. CASE PowerCut
  <2>1. ~rtc'.intact /\ boot'.pc = "off" /\ ~boot'.synced
    BY <1>2 DEF PowerCut, Reconstruct, Boots
  <2> QED BY <2>1 DEF Schedule
<1>3. CASE OpenFails
  <2>1. ~boot'.ran /\ ~boot'.synced
    BY <1>3, SleepFacts DEF OpenFails, Boot
  <2> QED BY <2>1, <1>3 DEF OpenFails, Schedule
<1>4. ASSUME NEW floor \in Floors, Open(floor) PROVE Schedule'
  <2> DEFINE in == [reason |-> boot.reason, uptime |-> boot.uptime, intact |-> boot.intact,
                    due |-> rtc.due, queued |-> flash.queued, floor |-> floor]
             p == Decide(in)
  <2>1. floor \in BOOLEAN
    BY <1>4, Constants
  <2>2. /\ boot.reason \notin {"key", "cold"} /\ ~floor => p.cause = SyncIsDue(in)
        /\ boot.reason = "cold" /\ ~floor => p.cause = "firstBoot"
        /\ p.poll \in BOOLEAN /\ p.charge = floor
    BY <2>1, DecideFacts
  <2>3. /\ boot' = [boot EXCEPT !.cause = p.cause, !.ui = p.ui,
                      !.drained = IF p.poll THEN sms ELSE <<>>, !.ran = ~floor,
                      !.pc = CASE p.charge -> "end" [] p.poll -> "poll" [] OTHER -> "sync"]
        /\ boot.pc = "open"
        /\ hist' = IF p.charge THEN [hist EXCEPT !.stale = TRUE] ELSE hist
        /\ UNCHANGED <<now, base, rtc, flash>>
    BY <1>4 DEF Open
  <2>4. SyncIsDue(in) = "none" => rtc.due > now - base /\ ~flash.queued
    BY <1>0, <1>a, <2>3 DEF SyncIsDue, Boot, Uptime
  <2>5. rtc.intact /\ ~boot.synced
    BY <2>3 DEF Boot
  <2> HIDE DEF p
  <2>6. /\ boot'.cause = p.cause /\ boot'.ran = ~floor /\ boot'.reason = boot.reason
        /\ boot'.synced = boot.synced
    BY <1>0, <2>3 DEF BootStates
  <2>7. /\ hist'.synced = hist.synced /\ hist'.cold = hist.cold
        /\ hist'.restarted = hist.restarted /\ hist'.tried = hist.tried
    BY <1>0, <2>3 DEF Histories
  <2>8. boot'.pc \in {"end", "poll", "sync"} /\ (boot'.pc = "end" => floor)
    BY <1>0, <2>1, <2>2, <2>3 DEF BootStates
  <2>9. ASSUME boot'.reason # "key", boot'.ran, boot'.cause = "none"
        PROVE  /\ ~flash.queued /\ hist.synced >= hist.cold
               /\ hist.restarted \/ now < hist.synced + Longest
    <3>1. rtc.due > now - base /\ ~flash.queued
      BY <2>1, <2>2, <2>4, <2>6, <2>9
    <3>2. hist.synced >= hist.cold
      BY <1>0, <1>a, <2>5, <3>1 DEF Schedule
    <3>3. hist.restarted \/ base + rtc.due <= hist.synced + Longest
      BY <1>0, <1>a, <2>5, <3>1 DEF Schedule
    <3> QED BY <1>0, <1>a, <3>1, <3>2, <3>3
  <2> QED BY <2>1, <2>3, <2>5, <2>6, <2>7, <2>8, <2>9 DEF Schedule
<1>5. CASE ChargeWindow \/ \E written \in BOOLEAN : VerifySms(written)
  <2>1. UNCHANGED <<now, base>> /\ boot.pc = "poll"
    BY <1>5 DEF ChargeWindow, VerifySms
  <2>2. /\ rtc'.intact = rtc.intact /\ rtc'.due = rtc.due /\ hist'.synced = hist.synced
        /\ hist'.cold = hist.cold /\ hist'.restarted = hist.restarted /\ hist'.tried = hist.tried
        /\ flash'.queued = flash.queued
    BY <1>0, <1>5 DEF ChargeWindow, VerifySms, RtcStates, Histories, Flashes
  <2>3. /\ boot'.reason = boot.reason /\ boot'.ran = boot.ran /\ boot'.synced = boot.synced
        /\ boot'.cause = boot.cause \/ boot'.cause = "doorbell"
        /\ boot'.pc \in {"poll", "sync"}
    BY <1>0, <1>5 DEF ChargeWindow, VerifySms, BootStates
  <2> QED BY <2>1, <2>2, <2>3 DEF Schedule
<1>6. CASE NoSync
  <2>1. /\ UNCHANGED <<now, base, rtc, flash, hist>> /\ boot.pc = "sync"
        /\ boot'.reason = boot.reason /\ boot'.ran = boot.ran /\ boot'.synced = boot.synced
        /\ boot.cause = "none"
    BY <1>0, <1>6 DEF NoSync, BootStates
  <2> QED BY <2>1 DEF Schedule
<1>7. CASE \/ SyncIncomplete \/ SyncFault
           \/ \E letters, more \in BOOLEAN, s \in Intervals : SyncRound(letters, more, s)
  <2>1. now' \in Nat /\ now <= now' /\ base' = base /\ rtc' = rtc
    BY <1>0, <1>7 DEF SyncIncomplete, SyncFault, SyncRound, Takes
  <2>2. /\ hist'.synced = now' /\ hist'.tried /\ hist'.cold = hist.cold
        /\ hist'.restarted = hist.restarted
    BY <1>0, <1>7 DEF Attempted, SyncIncomplete, SyncFault, SyncRound, Histories
  <2>3. rtc'.intact => \/ hist'.restarted \/ base' + rtc'.due <= now'
                       \/ base' + rtc'.due <= hist'.synced + Longest
    BY <1>0, <1>a, <2>1, <2>2 DEF Schedule
  <2>4. hist'.synced >= hist'.cold
    BY <1>0, <1>a, <2>1, <2>2
  <2> QED BY <2>2, <2>3, <2>4 DEF Schedule
<1>8. CASE UiRead \/ UiWrite
  <2>1. UNCHANGED <<now, base, rtc, boot, hist>> /\ boot.pc = "ui" /\ boot.reason = "key"
    BY <1>8 DEF UiRead, UiWrite, Boot
  <2> QED BY <2>1 DEF Schedule
<1>9. ASSUME NEW letters \in BOOLEAN, NEW works \in BOOLEAN, UiSync(letters, works)
      PROVE  Schedule'
  <2>1. /\ hist'.synced = now /\ hist'.tried /\ hist'.cold = hist.cold
        /\ hist'.restarted = hist.restarted /\ UNCHANGED <<now, base, rtc, boot>>
    BY <1>0, <1>9 DEF Attempted, UiSync, Histories
  <2> QED BY <1>0, <1>a, <2>1 DEF Schedule
<1>10. CASE UiEnd
  <2>1. now' \in Nat /\ now <= now' /\ base' = base /\ rtc' = rtc /\ boot.pc = "ui"
    BY <1>0, <1>10 DEF UiEnd, Takes
  <2>2. /\ hist'.synced = hist.synced /\ hist'.cold = hist.cold
        /\ hist'.restarted = hist.restarted
    BY <1>0, <1>10 DEF UiEnd, Histories
  <2>3. boot'.reason = boot.reason /\ boot'.synced = boot.synced
    BY <1>0, <1>10 DEF UiEnd, BootStates
  <2>4. boot.reason = "key" /\ ~boot.synced
    BY <2>1 DEF Boot
  <2> QED BY <1>0, <1>a, <2>1, <2>2, <2>3, <2>4 DEF Schedule
<1>11. CASE Cover
  <2>1. UNCHANGED <<now, base, flash>> /\ boot.pc = "cover"
    BY <1>11 DEF Cover
  <2>2. /\ rtc'.intact = rtc.intact /\ rtc'.due = rtc.due /\ hist'.synced = hist.synced
        /\ hist'.cold = hist.cold /\ hist'.restarted = hist.restarted /\ hist'.tried = hist.tried
    BY <1>0, <1>11 DEF Cover, RtcStates, Histories
  <2>3. /\ boot'.reason = boot.reason /\ boot'.ran = boot.ran /\ boot'.synced = boot.synced
        /\ boot'.cause = boot.cause
    BY <1>0, <1>11 DEF Cover, BootStates
  <2> QED BY <2>1, <2>2, <2>3 DEF Schedule
<1>12. CASE ToSleep
  <2>1. UNCHANGED <<now, base, flash>> /\ boot.pc = "end" /\ SleepUntilNextWake
    BY <1>12 DEF ToSleep
  <2>2. /\ boot'.reason = boot.reason /\ boot'.ran = boot.ran /\ ~boot'.synced
    BY <2>1, SleepFacts
  <2>3. CASE ~boot.synced
    <3>1. rtc' = rtc /\ hist' = hist
      BY <2>3, <1>12 DEF ToSleep
    <3> QED BY <2>1, <2>2, <3>1 DEF Schedule
  <2>4. CASE boot.synced
    <3>1. hist.synced = now /\ hist.tried
      BY <2>4 DEF Schedule
    <3>2. /\ rtc' = [rtc EXCEPT !.due = Uptime + Interval(flash.interval)]
          /\ hist' = [hist EXCEPT !.restarted = FALSE]
      BY <2>4, <1>12 DEF ToSleep
    <3>3. rtc'.due = (now - base) + Interval(flash.interval)
      BY <1>0, <3>2 DEF RtcStates, Uptime
    <3>4. Interval(flash.interval) \in Nat /\ Interval(flash.interval) <= Longest
      BY <1>0, IntervalFacts DEF Flashes
    <3>5. base + rtc'.due <= hist.synced + Longest
      BY <1>0, <1>a, <3>1, <3>3, <3>4
    <3>6. hist'.synced = hist.synced /\ hist'.cold = hist.cold /\ hist'.tried
      BY <1>0, <3>1, <3>2 DEF Histories
    <3> QED BY <1>a, <2>1, <2>2, <3>1, <3>5, <3>6 DEF Schedule
  <2> QED BY <1>0, <2>3, <2>4 DEF BootStates
<1>13. CASE UNCHANGED vars \/ \E m \in Messages : Carrier(m)
  BY <1>13 DEF vars, Carrier, Schedule
<1> QED BY <1>1, <1>2, <1>3, <1>4, <1>5, <1>6, <1>7, <1>8, <1>9, <1>10, <1>11, <1>12, <1>13
        DEF Next
-----------------------------------------------------------------------------
(* The theorems. *)

\* A device that was never switched on.
LEMMA InitInv == Init => WakeInv /\ Schedule
<1> SUFFICES ASSUME Init PROVE WakeInv /\ Schedule
  OBVIOUS
<1>1. now = 0 /\ base = 0 /\ sms = <<>> /\ glass = "blank"
  BY DEF Init
<1>2. rtc = [intact |-> FALSE, lastSms |-> BootQuiet - MinWakeInterval, due |-> 0,
             mirror |-> FALSE, valid |-> FALSE, verified |-> 0]
  <2>1. 0 + BootQuiet - MinWakeInterval = BootQuiet - MinWakeInterval
    BY Constants
  <2> QED BY <2>1 DEF Init, Reconstruct
<1>3. flash \in Flashes /\ flash.high = 0
  BY MaxFacts, Constants DEF Init, Flashes
<1>4. rtc \in RtcStates
  BY <1>2, Constants DEF RtcStates
<1>5. boot = [pc |-> "off", reason |-> "cold", intact |-> FALSE, uptime |-> 0, cause |-> "none",
              ui |-> FALSE, drained |-> <<>>, received |-> FALSE, accepted |-> FALSE,
              synced |-> FALSE, rounds |-> 0, ran |-> FALSE, alarm |-> 0]
  BY <1>2 DEF Init, Boots
<1>6. boot \in BootStates
  BY <1>5 DEF BootStates, Reasons, SyncCauses
<1>7. hist = [synced |-> 0, tried |-> FALSE, restarted |-> FALSE, bell |-> 0, cold |-> 0,
              heard |-> {}, twice |-> FALSE, stale |-> FALSE]
  BY DEF Init
<1>8. hist \in Histories
  BY <1>7 DEF Histories
<1>9. Shapes
  BY <1>1, <1>3, <1>4, <1>6, <1>8 DEF Shapes, TypeOK
<1>10. Boot /\ Tokens /\ Window /\ Glass /\ Schedule
  BY <1>1, <1>2, <1>5, <1>7 DEF Boot, Tokens, Window, Glass, Schedule, Uptime
<1> QED BY <1>9, <1>10 DEF WakeInv

\* The invariant the results below rest on holds throughout, whatever the
\* carrier delivers and wherever the power is cut.
THEOREM WakeInductive == Spec => []WakeInv
<1>1. WakeInv /\ [Next]_vars => WakeInv'
  BY NextShapes, BootKept, TokensKept, WindowKept, GlassKept DEF WakeInv
<1> QED BY <1>1, InitInv, PTL DEF Spec

\* pututu's Verify and the high-water in NVS: no counter is accepted twice.
THEOREM TokensOnce == Spec => []TokenOnce
<1>1. WakeInv => TokenOnce
  BY DEF WakeInv, Tokens, TokenOnce
<1> QED BY <1>1, WakeInductive, PTL

\* The end of wake::Run and of the interactive session: the glass of a sleeping
\* device tells whether a letter is unread, unless it was drawn on behind the
\* mirror.
THEOREM CoverTells == Spec => []CoverFollowsStore
<1>1. WakeInv => CoverFollowsStore
  BY DEF WakeInv, Glass, CoverFollowsStore
<1> QED BY <1>1, WakeInductive, PTL

\* SmsWakeAllowed and the charge of the window: two doorbells that each started
\* a sync are MinWakeInterval apart, or a power loss lies between them and the
\* second waited out the quiet minute.
THEOREM DoorbellsSpaced == Spec => DoorbellSpacing
<1> DEFINE Spaced == hist'.bell # hist.bell /\ hist.bell # 0
              => \/ hist'.bell - hist.bell >= MinWakeInterval
                 \/ hist.cold >= hist.bell /\ hist'.bell - hist.cold >= BootQuiet
<1>1. WakeInv /\ [Next]_vars => [Spaced]_vars
  <2> SUFFICES ASSUME WakeInv, [Next]_vars, hist'.bell # hist.bell
               PROVE  \/ hist'.bell - hist.bell >= MinWakeInterval
                      \/ hist.cold >= hist.bell /\ hist'.bell - hist.cold >= BootQuiet
    OBVIOUS
  <2>0. /\ hist \in Histories /\ rtc \in RtcStates /\ Shapes /\ Boot /\ Window
        /\ now \in Nat /\ base \in Nat
    BY DEF WakeInv, Shapes, TypeOK
  <2>1. ChargeWindow
    <3>1. ASSUME TimerFires \/ PowerOn \/ \E r \in {"key", "usb", "unknown"} : WokenBy(r)
          PROVE  FALSE
      BY <2>0, <3>1, WakeUp
    <3>2. ASSUME \/ PowerCut \/ OpenFails \/ NoSync \/ SyncIncomplete \/ SyncFault
                 \/ UiRead \/ UiWrite \/ UiEnd \/ Cover \/ ToSleep \/ UNCHANGED vars
                 \/ \E floor \in Floors : Open(floor)
                 \/ \E written \in BOOLEAN : VerifySms(written)
                 \/ \E letters, more \in BOOLEAN, s \in Intervals : SyncRound(letters, more, s)
                 \/ \E letters, works \in BOOLEAN : UiSync(letters, works)
                 \/ \E m \in Messages : Carrier(m)
          PROVE  FALSE
      BY <2>0, <3>2 DEF PowerCut, OpenFails, NoSync, SyncIncomplete, SyncFault, UiRead, UiWrite,
             UiEnd, Cover, ToSleep, vars, Open, VerifySms, SyncRound, UiSync, Carrier, Attempted, Histories
    <3> QED BY <3>1, <3>2 DEF Next
  <2>2. /\ rtc.intact /\ hist'.bell = now
        /\ now - base - rtc.lastSms >= MinWakeInterval
    BY <2>0, <2>1, RingFacts
  <2>4. /\ hist.bell <= base + rtc.lastSms \/ hist.bell <= hist.cold
        /\ hist.cold + BootQuiet <= base + rtc.lastSms + MinWakeInterval
    BY <2>0, <2>2 DEF Window
  <2>5. hist.bell \in Nat /\ hist.cold \in Nat /\ rtc.lastSms \in Int
    BY <2>0 DEF Histories, RtcStates
  <2> QED BY <2>0, <2>2, <2>4, <2>5, Constants
<1> QED BY <1>1, WakeInductive, PTL DEF Spec, DoorbellSpacing

\* The end of app_main and SyncIsDue: a background wake that could do its work
\* tried to sync, or had nothing queued, an attempt since the power came back and,
\* as far as an uptime that did not restart can tell, one less than one interval old.
THEOREM SchedulesKept == Spec => []ScheduleKept
<1>1. WakeInv /\ Schedule /\ [Next]_vars => (WakeInv /\ Schedule)'
  BY NextShapes, BootKept, TokensKept, WindowKept, GlassKept, ScheduleStep DEF WakeInv
<1>2. WakeInv /\ Schedule => ScheduleKept
  <2> SUFFICES ASSUME WakeInv, Schedule, boot.pc = "asleep", boot.reason # "key", boot.ran,
                      ~hist.tried
               PROVE  /\ ~flash.queued
                      /\ hist.synced >= hist.cold
                      /\ ~hist.restarted => now - hist.synced < Longest
    BY DEF ScheduleKept
  <2>1. now \in Nat /\ hist.synced \in Nat /\ Longest \in Nat
    BY IntervalFacts DEF WakeInv, Shapes, TypeOK, Histories
  <2>2. /\ ~flash.queued /\ hist.synced >= hist.cold
        /\ hist.restarted \/ now < hist.synced + Longest
    BY DEF Schedule
  <2> QED BY <2>1, <2>2
<1> QED BY <1>1, <1>2, InitInv, PTL DEF Spec
=============================================================================
