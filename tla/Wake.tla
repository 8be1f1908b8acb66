-------------------------------- MODULE Wake --------------------------------
(***************************************************************************)
(* One boot of the device after another: main/app_main.cpp runs on every   *)
(* wake, main/wake.cpp decides the one job of the boot, the doorbell        *)
(* verifier (components/pututu) reads the SMS the modem buffered, the sync *)
(* engine makes its attempt and keeps its back-off, the cover is redrawn.  *)
(* Time is absolute (`now`); what the code reads is the uptime, which is   *)
(* `now - base`: UptimeMs is esp_timer_get_time, which starts again at      *)
(* every wake from deep sleep.  A wake at which it ran on, as wake.h        *)
(* describes it, is a step of the model too.  The Jobs seam has no modem   *)
(* and no screens in this build: what they will do is modelled from how    *)
(* wake.cpp uses them.                                                     *)
(***************************************************************************)
EXTENDS Integers, Sequences, FiniteSets, FiniteSetsExt

CONSTANTS Restarts,         \* may a wake from deep sleep restart the uptime: {TRUE} is esp_timer
          TimerWake,        \* kTimerWakeIntervalS
          MinWakeInterval,  \* pututu::kMinWakeIntervalMs
          BootQuiet,        \* kBootQuietMs = kBootConservativeWindowMs
          MinSyncInterval,  \* store::kMinSyncIntervalS
          Intervals,        \* sync_interval_s values the server may push
          VerifierWired,    \* load_last_wake_ms and store_last_wake_ms are set
          Floors,           \* readings of the battery floor: {FALSE} without a gauge
          DrainRounds,      \* Options::max_drain_rounds
          MaxNow, MaxCounter, MaxSms   \* bounds of the instance

ASSUME WakeAssumption ==
  /\ VerifierWired \in BOOLEAN
  /\ Restarts \subseteq BOOLEAN /\ Floors \subseteq BOOLEAN
  /\ {TimerWake, MinWakeInterval, BootQuiet, MinSyncInterval, DrainRounds,
      MaxNow, MaxCounter, MaxSms} \subseteq Nat \ {0}
  /\ BootQuiet < MinWakeInterval
  /\ Intervals \subseteq Nat /\ IsFiniteSet(Intervals) /\ Intervals # {}

Reasons == {"cold", "timer", "key", "usb", "unknown"}
SyncCauses == {"none", "firstBoot", "scheduled", "doorbell", "outbound", "userKey"}
Messages == [kind : {"token", "forged", "other"}, n : 1..MaxCounter]

RtcStates == [intact : BOOLEAN, lastSms : Int, due : Nat, mirror : BOOLEAN,
              valid : BOOLEAN, verified : Nat]
Flashes == [high : 0..MaxCounter, unread : BOOLEAN, queued : BOOLEAN, interval : Intervals]
BootStates ==
  [pc : {"off", "asleep", "open", "poll", "sync", "ui", "cover", "end"},
   reason : Reasons, intact : BOOLEAN, uptime : Nat, cause : SyncCauses, ui : BOOLEAN,
   drained : Seq(Messages), received : BOOLEAN, accepted : BOOLEAN, synced : BOOLEAN,
   rounds : Nat, ran : BOOLEAN, alarm : Nat]

VARIABLES
  now,     \* absolute time
  base,    \* the absolute time at which the uptime was zero
  rtc,     \* wake::RtcState and the verifier's word, in the RTC segment
  flash,   \* what survives power loss: NVS high-water, letters, outbox, settings
  boot,    \* the locals of app_main and wake::Run
  sms,     \* the modem's SMS buffer
  glass,   \* what the e-ink panel shows
  hist     \* history, read only by the properties

vars == <<now, base, rtc, flash, boot, sms, glass, hist>>

Uptime == now - base
Interval(s) == IF s > MinSyncInterval THEN s ELSE MinSyncInterval
Longest == Interval(Max(Intervals))

---------------------------------------------------------------------------
(* wake.cpp: the RTC segment and the decision *)

\* wake::Reconstruct: the limiter leaves its window BootQuiet from now, the
\* sync is due, the mirror is not to be trusted, the verifier's word is zero.
Reconstruct(up) ==
  [intact |-> TRUE, lastSms |-> up + BootQuiet - MinWakeInterval, due |-> up,
   mirror |-> FALSE, valid |-> FALSE, verified |-> 0]

SmsWakeAllowed(r, up) == up - r.lastSms >= MinWakeInterval
\* Mutant: the cover is drawn once per power cycle.
CoverNeedsRerenderOnce(r, unread) == ~r.valid

CoverNeedsRerender(r, unread) == ~r.valid \/ r.mirror # unread

\* Mutant: the due time is forgotten: only a queued letter makes a timer wake sync.
SyncIsDueQueued(in) == IF in.queued THEN "outbound" ELSE IF ~in.intact THEN "scheduled" ELSE "none"

SyncIsDue(in) ==
  IF in.queued THEN "outbound"
  ELSE IF ~in.intact \/ in.uptime >= in.due THEN "scheduled" ELSE "none"

NoPlan == [poll |-> FALSE, cause |-> "none", ui |-> FALSE, charge |-> FALSE]
Decide(in) ==
  CASE in.floor -> [NoPlan EXCEPT !.charge = TRUE]
    [] ~in.floor /\ in.reason = "key" -> [NoPlan EXCEPT !.ui = TRUE]
    [] ~in.floor /\ in.reason = "cold" -> [NoPlan EXCEPT !.cause = "firstBoot"]
    [] OTHER -> [NoPlan EXCEPT !.poll = in.reason # "usb", !.cause = SyncIsDue(in)]

---------------------------------------------------------------------------
(* pututu.cpp: one SMS body through the verifier *)

\* CH1.<counter>.<mac> with a canonical counter; only the server's key makes
\* the MAC that HmacSha256 and Base64 recompute.
Splits(m) == m.kind # "other"
MacMatches(m) == m.kind = "token"

RateLimited ==
  \/ Uptime < BootQuiet
  \/ /\ rtc.verified # 0
     /\ Uptime < rtc.verified \/ Uptime - rtc.verified < MinWakeInterval

\* Mutant: the high-water is compared with < and the same counter passes again.
VerifyAgain(m, written) ==
  IF RateLimited THEN "rateLimited"
  ELSE IF ~Splits(m) THEN "badFormat"
  ELSE IF ~MacMatches(m) THEN "badMac"
  ELSE IF m.n < flash.high THEN "stale"
  ELSE IF ~written THEN "notPersisted" ELSE "accept"

Verify(m, written) ==
  IF RateLimited THEN "rateLimited"
  ELSE IF ~Splits(m) THEN "badFormat"
  ELSE IF ~MacMatches(m) THEN "badMac"
  ELSE IF m.n <= flash.high THEN "stale"
  ELSE IF ~written THEN "notPersisted" ELSE "accept"

---------------------------------------------------------------------------
Boots(pc, reason, up) ==
  [pc |-> pc, reason |-> reason, intact |-> rtc.intact, uptime |-> up, cause |-> "none", ui |-> FALSE, drained |-> <<>>,
   received |-> FALSE, accepted |-> FALSE, synced |-> FALSE, rounds |-> 0,
   ran |-> FALSE, alarm |-> 0]

Init ==
  /\ now = 0 /\ base = 0
  /\ rtc = [Reconstruct(0) EXCEPT !.intact = FALSE]
  /\ flash = [high |-> 0, unread |-> FALSE, queued |-> FALSE, interval |-> Max(Intervals)]
  /\ boot = Boots("off", "cold", 0)
  /\ sms = <<>>
  /\ glass = "blank"
  /\ hist = [synced |-> 0, tried |-> FALSE, restarted |-> FALSE, bell |-> 0, cold |-> 0,
             heard |-> {}, twice |-> FALSE, stale |-> FALSE]

\* app_main up to Session::Open: the uptime is read, a lost segment is
\* noticed before it is repaired, the locals start again; a verifier with no
\* word in RTC memory forgets its last wake.
AppMain(t, reason) ==
  \E restarts \in IF reason = "cold" THEN {TRUE} ELSE Restarts :
    LET zero == IF restarts THEN t ELSE base
        up == t - zero
    IN /\ now' = t /\ base' = zero
       /\ rtc' = IF ~rtc.intact THEN Reconstruct(up)
                 ELSE IF VerifierWired THEN rtc ELSE [rtc EXCEPT !.verified = 0]
       /\ boot' = Boots("open", reason, up)
       /\ hist' = [hist EXCEPT !.tried = FALSE, !.cold = IF reason = "cold" THEN t ELSE @,
                     !.restarted = rtc.intact /\ (@ \/ zero # base)]

\* The timer armed by SleepUntilNextWake, or another source at once or just
\* before the timer.
TimerFires ==
  /\ boot.pc = "asleep" /\ boot.alarm <= MaxNow
  /\ AppMain(boot.alarm, "timer")
  /\ UNCHANGED <<flash, sms, glass>>

WokenBy(reason) ==
  /\ boot.pc = "asleep"
  /\ \E t \in {now, boot.alarm - 1} : t <= MaxNow /\ AppMain(t, reason)
  /\ UNCHANGED <<flash, sms, glass>>

PowerOn ==
  /\ boot.pc = "off"
  /\ AppMain(now, "cold")
  /\ UNCHANGED <<flash, sms, glass>>

\* Power loss or a software reset, anywhere: the RTC segment goes
\* (its bytes are not read again), the glass and the modem's buffer stay.
PowerCut ==
  /\ boot.pc # "off"
  /\ boot' = Boots("off", "cold", 0)
  /\ rtc' = [Reconstruct(0) EXCEPT !.intact = FALSE]
  /\ UNCHANGED <<now, base, flash, sms, glass, hist>>

\* SleepUntilNextWake: the timer is armed afresh, RAM goes with the boot.
SleepUntilNextWake ==
  /\ boot' = [Boots("asleep", boot.reason, 0) EXCEPT !.ran = boot.ran,
                !.alarm = now + TimerWake]

OpenFails ==
  /\ boot.pc = "open"
  /\ SleepUntilNextWake
  /\ UNCHANGED <<now, base, rtc, flash, sms, glass, hist>>

\* Session::Open, the inputs, wake::Decide and the charge-me branch of Run.
Open(floor) ==
  LET p == Decide([reason |-> boot.reason, uptime |-> boot.uptime,
                   intact |-> boot.intact, due |-> rtc.due,
                   queued |-> flash.queued, floor |-> floor])
  IN /\ boot.pc = "open"
     /\ boot' = [boot EXCEPT !.cause = p.cause, !.ui = p.ui,
                   !.drained = IF p.poll THEN sms ELSE <<>>, !.ran = ~floor,
                   !.pc = CASE p.charge -> "end" [] p.poll -> "poll" [] OTHER -> "sync"]
     /\ sms' = IF p.poll THEN <<>> ELSE sms
     /\ glass' = IF p.charge THEN "chargeMe" ELSE glass
     /\ hist' = IF p.charge THEN [hist EXCEPT !.stale = TRUE] ELSE hist
     /\ UNCHANGED <<now, base, rtc, flash>>

\* Jobs::PollDoorbell over one drained body: RecordWake comes before every
\* test, the high-water is written before the token counts as accepted.
VerifySms(written) ==
  LET m == Head(boot.drained)
      v == Verify(m, written)
  IN /\ boot.pc = "poll" /\ boot.drained # <<>>
     /\ rtc' = IF v = "rateLimited" THEN rtc ELSE [rtc EXCEPT !.verified = Uptime]
     /\ flash' = IF v = "accept" THEN [flash EXCEPT !.high = m.n] ELSE flash
     /\ boot' = [boot EXCEPT !.drained = Tail(@), !.received = TRUE,
                   !.accepted = @ \/ v = "accept"]
     /\ hist' = IF v # "accept" THEN hist
                ELSE [hist EXCEPT !.heard = @ \cup {m.n}, !.twice = @ \/ m.n \in hist.heard]
     /\ UNCHANGED <<now, base, sms, glass>>

\* Mutant: the window is neither read nor charged.
ChargeWindowLate ==
  /\ boot.pc = "poll" /\ boot.drained = <<>>
  /\ rtc' = rtc
  /\ boot' = [boot EXCEPT !.pc = "sync", !.cause = IF boot.accepted THEN "doorbell" ELSE @]
  /\ hist' = IF boot.accepted THEN [hist EXCEPT !.bell = now] ELSE hist
  /\ UNCHANGED <<now, base, flash, sms, glass>>

\* The rest of the poll branch of wake::Run: the allowance is read before the
\* window is charged, and a closed window is not charged again.
ChargeWindow ==
  LET allowed == SmsWakeAllowed(rtc, boot.uptime)
      rings == boot.accepted /\ allowed
  IN /\ boot.pc = "poll" /\ boot.drained = <<>>
     /\ rtc' = IF boot.received /\ allowed
                 THEN [rtc EXCEPT !.lastSms = boot.uptime] ELSE rtc
     /\ boot' = [boot EXCEPT !.pc = "sync", !.cause = IF rings THEN "doorbell" ELSE @]
     /\ hist' = IF rings THEN [hist EXCEPT !.bell = now] ELSE hist
     /\ UNCHANGED <<now, base, flash, sms, glass>>

\* A round of RunOnce that brought a 200: letters may land, the outbox is
\* acknowledged, a config may change the interval.
Applied(letters, s) ==
  flash' = [flash EXCEPT !.unread = @ \/ letters, !.queued = FALSE, !.interval = s]

Takes(d) == now + d <= MaxNow /\ now' = now + d

\* The last attempt, and one in this boot, read only by the properties.
Attempted(t) == [hist EXCEPT !.synced = t, !.tried = TRUE]

\* The locals that are read after jobs.Sync.
AfterSync(b) ==
  [Boots("cover", b.reason, 0) EXCEPT !.synced = TRUE, !.ran = b.ran]

\* Every plan passes here: without a cause there is no sync.
NoSync ==
  /\ boot.pc = "sync" /\ boot.cause = "none"
  /\ boot' = [boot EXCEPT !.pc = IF boot.ui THEN "ui" ELSE "cover"]
  /\ UNCHANGED <<now, base, rtc, flash, sms, glass, hist>>

\* RunSync and RunOnce of a background trigger; `more` goes round again up to
\* the cap, a write that fails part-way ends the attempt with no fault.
Syncing == boot.pc = "sync" /\ boot.cause # "none"

SyncRound(letters, more, s) ==
  LET last == ~more \/ boot.rounds + 1 = DrainRounds
  IN /\ Syncing
     /\ Takes(IF last THEN 1 ELSE 0)
     /\ Applied(letters, s)
     /\ boot' = IF last THEN AfterSync(boot) ELSE [boot EXCEPT !.rounds = @ + 1]
     /\ hist' = Attempted(now')
     /\ UNCHANGED <<base, rtc, sms, glass>>

SyncIncomplete ==
  /\ Syncing
  /\ boot' = AfterSync(boot)
  /\ hist' = Attempted(now)
  /\ UNCHANGED <<now, base, rtc, flash, sms, glass>>

SyncFault ==
  /\ Syncing
  /\ Takes(1)
  /\ boot' = AfterSync(boot)
  /\ hist' = Attempted(now')
  /\ UNCHANGED <<base, rtc, flash, sms, glass>>

\* The interactive session: the child reads, writes, presses the sync key; its
\* wipe leaves the cover behind, and Run returns without touching the mirror.
UiRead ==
  /\ boot.pc = "ui"
  /\ flash' = [flash EXCEPT !.unread = FALSE]
  /\ UNCHANGED <<now, base, rtc, boot, sms, glass, hist>>

UiWrite ==
  /\ boot.pc = "ui"
  /\ flash' = [flash EXCEPT !.queued = TRUE]
  /\ UNCHANGED <<now, base, rtc, boot, sms, glass, hist>>

\* RunSync(kUserKey): the press clears a halt, so the attempt is always made.
UiSync(letters, works) ==
  /\ boot.pc = "ui"
  /\ IF works THEN Applied(letters, flash.interval) ELSE UNCHANGED flash
  /\ hist' = Attempted(now)
  /\ UNCHANGED <<now, base, rtc, boot, sms, glass>>

CoverOf(unread) == IF unread THEN "flag" ELSE "plain"

UiEnd ==
  /\ boot.pc = "ui"
  /\ Takes(1)
  /\ glass' = CoverOf(flash.unread)
  /\ boot' = [boot EXCEPT !.pc = "end"]
  /\ hist' = [hist EXCEPT !.stale = rtc.valid /\ rtc.mirror # flash.unread]
  /\ UNCHANGED <<base, rtc, flash, sms>>

\* The end of wake::Run for a boot with no session.
Cover ==
  LET redraw == CoverNeedsRerender(rtc, flash.unread)
  IN /\ boot.pc = "cover"
     /\ glass' = IF redraw THEN CoverOf(flash.unread) ELSE glass
     /\ rtc' = [rtc EXCEPT !.mirror = flash.unread, !.valid = TRUE]
     /\ boot' = [boot EXCEPT !.pc = "end"]
     /\ hist' = IF redraw THEN [hist EXCEPT !.stale = FALSE] ELSE hist
     /\ UNCHANGED <<now, base, flash, sms>>

\* The end of app_main: the next sync is scheduled after any attempt, failed
\* or not, and the back-off the engine asked for is not read.
ToSleep ==
  /\ boot.pc = "end"
  /\ IF boot.synced
       THEN /\ rtc' = [rtc EXCEPT !.due = Uptime + Interval(flash.interval)]
            /\ hist' = [hist EXCEPT !.restarted = FALSE]
       ELSE UNCHANGED <<rtc, hist>>
  /\ SleepUntilNextWake
  /\ UNCHANGED <<now, base, flash, sms, glass>>

\* The carrier delivers a token the server rang, late, again or out of order,
\* or somebody else's SMS.
Carrier(m) ==
  /\ boot.pc = "asleep" /\ Len(sms) < MaxSms
  /\ m.kind # "token" => m.n = 1
  /\ sms' = Append(sms, m)
  /\ UNCHANGED <<now, base, rtc, flash, boot, glass, hist>>

Next ==
  \/ TimerFires
  \/ \E r \in {"key", "usb", "unknown"} : WokenBy(r)
  \/ PowerOn \/ PowerCut \/ OpenFails
  \/ \E floor \in Floors : Open(floor)
  \/ \E written \in BOOLEAN : VerifySms(written)
  \/ ChargeWindow \/ NoSync
  \/ \E letters, more \in BOOLEAN, s \in Intervals : SyncRound(letters, more, s)
  \/ SyncIncomplete \/ SyncFault
  \/ UiRead \/ UiWrite \/ (\E letters, works \in BOOLEAN : UiSync(letters, works)) \/ UiEnd
  \/ Cover \/ ToSleep
  \/ \E m \in Messages : Carrier(m)

Spec == Init /\ [][Next]_vars

---------------------------------------------------------------------------
(* Properties *)

\* The RTC struct, the counter file, the boot state and the messages keep their shapes.
TypeOK ==
  /\ now \in Nat /\ base \in Nat /\ base <= now
  /\ rtc \in RtcStates /\ flash \in Flashes /\ boot \in BootStates
  /\ sms \in Seq(Messages)
  /\ glass \in {"blank", "flag", "plain", "chargeMe"}

\* A background wake that could open its session and was above the battery floor
\* tries to sync, or has no cause to: no letter waits, an attempt was made since
\* the power came back, and, if the uptime did not restart since the due time was
\* written, the last attempt is less than one interval old.  Sleeps, sessions, lost
\* power, low batteries and failed attempts in between change nothing about it.
ScheduleKept ==
  boot.pc = "asleep" /\ boot.ran /\ boot.reason # "key" /\ ~hist.tried =>
    /\ ~flash.queued
    /\ hist.synced >= hist.cold
    /\ ~hist.restarted => now - hist.synced < Longest

\* Two doorbells that each started a sync are MinWakeInterval apart, or the
\* power was lost between them and the second waited out the quiet minute:
\* neither junk, nor duplicates, nor a power cut buys an earlier sync.
DoorbellSpacing ==
  [][hist'.bell # hist.bell /\ hist.bell # 0
       => \/ hist'.bell - hist.bell >= MinWakeInterval
          \/ hist.cold >= hist.bell /\ hist'.bell - hist.cold >= BootQuiet]_vars

\* No counter is accepted twice, whatever the carrier repeats and wherever
\* the power is cut between the write of the high-water and the sync.
TokenOnce == ~hist.twice

\* The glass of a sleeping device tells whether there is an unread letter,
\* through syncs, sessions, power cuts and lost mirrors, unless something else
\* drew on it behind the mirror: a session that changed the flag, or the
\* charge-me cover.
CoverFollowsStore ==
  boot.pc = "asleep" /\ boot.ran /\ ~hist.stale => glass = CoverOf(flash.unread)

\* "sync_interval_s elapsed" (kScheduled of wake.h): the same with no exception for
\* a restarted uptime, which wake.h says is lost with the power only.
ScheduleRuns ==
  boot.pc = "asleep" /\ boot.ran /\ boot.reason = "timer" => now - hist.synced < Longest

\* wake.cpp: "the cover is re-rendered whenever the glass disagrees with the
\* store": a wake with no session leaves the flag up when a letter is unread.
FlagRaised ==
  boot.pc = "asleep" /\ boot.ran /\ boot.reason # "key" /\ flash.unread => glass = "flag"
=============================================================================
