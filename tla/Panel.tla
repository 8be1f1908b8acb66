------------------------------- MODULE Panel -------------------------------
(***************************************************************************)
(* What is left on the glass: the two wipe orders of panel.cpp, the        *)
(* dispatcher and watchdog of input.cpp, the battery monitor of power.cpp  *)
(* and the refreshes of ui.cpp's Present, run by the three contexts the    *)
(* headers give them: the input task, which also paints; the watchdog's    *)
(* expiry; and the high-priority emergency handler.                        *)
(*                                                                         *)
(* E-ink keeps its image.  A refresh starts a waveform and returns; the    *)
(* panel is busy until it ends.  The driver, the gauge and the fingers are *)
(* outside src/ and are modelled from how these components use them.       *)
(***************************************************************************)
EXTENDS Keyboard

CONSTANTS DriverWaits,   \* the driver itself holds a refresh until the last one ended
          PartialsBeforeFull,   \* kPartialsBeforeFullRefresh
          Caps,          \* the caps a finger may hold, "none" included
          MaxNature,     \* bound: strokes, bus errors, battery changes and wakes
          MaxStrokes     \* bound: strokes and bus errors are among this many first ones

ASSUME PanelAssumption ==
  /\ DriverWaits \in BOOLEAN
  /\ PartialsBeforeFull \in Nat \ {0} /\ {MaxNature, MaxStrokes} \subseteq Nat

VARIABLES
  touch,     \* the finger: [now, was, bouncing]
  kb,        \* KeebDeckSource
  struck,    \* what the source has ready for Poll
  pending,   \* the dispatcher's backlog
  masked,    \* masked_
  unfed,     \* ticks since the watchdog was fed
  ui,        \* the input task: "idle", "drain", "sync", "key", "hung", "wiping"
  drained,   \* the loop counter of Drain
  wipe,      \* per context, the steps of its wipe still to do
  panel,     \* the glass, its driver and its rail
  radio,     \* the modem is up
  mcu,       \* "awake", "asleep", "asleepForCharger"
  gauge,     \* [volts, alert, armed]: the cell, the latched ALRT, VALRT armed
  monitor,   \* [pending, latched, em]: alert_pending_, latched_, ServiceEmergency's place
  owed,      \* caps pressed and not yet reported, read only by the properties
  crossed,   \* the glass was drawn on or put to sleep by a context while the wipe
             \* of a higher one waited, likewise
  nature

vars == <<touch, kb, struck, pending, masked, unfed, ui, drained, wipe, panel, radio, mcu,
          gauge, monitor, owed, crossed, nature>>
input == <<touch, kb, struck, owed>>
dispatch == <<pending, masked, unfed, drained>>
power == <<gauge, monitor>>

Contexts == {"ui", "watchdog", "emergency"}

\* The orders of panel.cpp as the calls they make; "park" is DeepSleep of the
\* panel, "cut" the rail, "sleep" the MCU.
\* Mutant: one full refresh instead of a flush.
GracefulStepsUnflushed == <<"mask", "cover", "wait", "park", "cut", "sleep">>

GracefulSteps == <<"mask", "flush", "wait", "cover", "wait", "park", "cut", "sleep">>

\* Mutant: the panel is put to sleep while the cover is still being drawn.
EmergencyStepsHasty == <<"mask", "radioOff", "wait", "flush", "wait", "coverIfVoltage",
                         "park", "cut", "sleepForCharger">>

EmergencySteps == <<"mask", "radioOff", "wait", "flush", "wait", "coverIfVoltage", "wait",
                    "park", "cut", "sleepForCharger">>

Awake == mcu = "awake"

Draws == {"flush", "cover", "coverIfVoltage"}

\* Who has the processor: the emergency handler first, then the watchdog, then
\* the input task.  WaitBusy blocks and delay_ms is vTaskDelay: a lower one runs
\* while the ones above it wait, and there is no lock between their wipes.
Waits(c) == \/ /\ wipe[c] # <<>> /\ panel.busy
               /\ Head(wipe[c]) = "wait" \/ (DriverWaits /\ Head(wipe[c]) \in Draws)
            \/ c = "emergency" /\ monitor.em = "delay"
Quiet(c) == wipe[c] = <<>> /\ (c = "emergency" => monitor.em = "idle")
Above(c) == CASE c = "ui" -> {"watchdog", "emergency"} [] c = "watchdog" -> {"emergency"}
              [] OTHER -> {}
Runs(c) == Awake /\ \A d \in Above(c) : Quiet(d) \/ Waits(d)
Overtaken(c) == \E d \in Above(c) : wipe[d] # <<>>

---------------------------------------------------------------------------
(* The driver *)

\* Started on a busy panel the old waveform is cut off where it stands; a
\* controller asleep or without its rail takes no command.
Starts(image, residue) ==
  /\ DriverWaits => ~panel.busy
  /\ panel' = IF panel.asleep \/ ~panel.rail THEN panel
              ELSE [panel EXCEPT !.busy = TRUE, !.image = image, !.residue = residue,
                                 !.torn = @ \/ panel.busy]

WaveformEnds ==
  /\ panel.busy
  /\ panel' = [panel EXCEPT !.busy = FALSE]
  /\ UNCHANGED <<input, dispatch, ui, wipe, radio, mcu, power, nature, crossed>>

\* Present: a partial refresh leaves residue; the eighth is made a full one.
Refreshes == {"partial", "fast", "full"}
Present(r) ==
  LET full == r = "full" \/ (r = "partial" /\ panel.residue + 1 >= PartialsBeforeFull)
  IN Starts("view", IF full THEN 1 ELSE IF r = "partial" THEN panel.residue + 1 ELSE panel.residue)

---------------------------------------------------------------------------
(* The fingers and the source *)

Released == [now |-> "none", was |-> "none", bouncing |-> FALSE]
Unread == touch' = Released /\ kb' = SourceAtBoot /\ struck' = <<>> /\ owed' = {}

\* A move that nobody reads is the same as one just before the next reading.
Press(cap) ==
  /\ ui \in {"idle", "drain"} /\ Runs("ui") /\ nature < MaxStrokes /\ ~touch.bouncing /\ cap # touch.now
  /\ touch' = [now |-> cap, was |-> touch.now, bouncing |-> TRUE]
  /\ owed' = IF cap = "none" THEN owed ELSE owed \cup {DecodeKeebDeck(cap)}
  /\ nature' = nature + 1
  /\ UNCHANGED <<kb, struck, dispatch, ui, wipe, panel, radio, mcu, power, crossed>>

Readings == {touch.now} \cup (IF touch.bouncing THEN {touch.was} ELSE {})
            \cup (IF nature < MaxStrokes THEN {"error"} ELSE {})

\* A Poll of the source.  It is taken apart from the Pump that asks, so that a
\* source with several events ready, as the matrix scan is, is covered too.
Scan(raw) ==
  LET r == Poll(kb, raw)
  IN /\ ui \in {"idle", "drain"} /\ Runs("ui") /\ raw \in Readings
     /\ Len(struck) < MaxDrainPerPump
     /\ kb' = r.kb
     /\ struck' = IF r.event = "none" THEN struck ELSE Append(struck, r.event)
     /\ owed' = owed \ {r.event}
     /\ nature' = IF raw = "error" THEN nature + 1 ELSE nature
     /\ UNCHANGED <<touch, dispatch, ui, wipe, panel, radio, mcu, power, crossed>>

\* Time passes: a dome settles within a tick, which is less than Debounce.
\* Overdue is asked during a wipe too, which does not feed the watchdog.
Tick ==
  /\ Awake
  /\ kb' = Aged(kb)
  /\ touch' = [touch EXCEPT !.bouncing = FALSE, !.was = touch.now]
  /\ unfed' = IF Overdue(unfed) THEN unfed ELSE unfed + 1
  /\ UNCHANGED <<struck, owed, pending, masked, drained, ui, wipe, panel, radio, mcu, power, nature, crossed>>

---------------------------------------------------------------------------
(* The dispatcher *)

\* Pump: the watchdog is fed first, whatever there is to do.
Pump ==
  /\ ui = "idle" /\ Runs("ui")
  /\ unfed' = 0 /\ drained' = 0 /\ ui' = "drain"
  /\ UNCHANGED <<input, pending, masked, wipe, panel, radio, mcu, power, nature, crossed>>

Next1 == Head(struck)
Draining == ui = "drain" /\ Runs("ui") /\ struck # <<>> /\ drained < MaxDrainPerPump

\* Mutant: put-away waits its turn behind the screen.
DrainPutAwayQueued ==
  /\ Draining /\ Next1 = "putAway"
  /\ struck' = Tail(struck) /\ drained' = drained + 1
  /\ pending' = IF masked THEN pending ELSE Push(pending, Next1)
  /\ UNCHANGED <<touch, kb, owed, masked, unfed, ui, wipe, panel, radio, mcu, power, nature, crossed>>

\* The input task starts a wipe, which ends in a reset: what it had read of the
\* keyboard, and what it would have read, is of no use to anybody any more.
WipesFromUi ==
  /\ ui' = "wiping" /\ wipe' = [wipe EXCEPT !["ui"] = GracefulSteps]
  /\ Unread

\* FirePutAway: the backlog goes, the wipe starts and does not come back.
DrainPutAway ==
  /\ Draining /\ Next1 = "putAway"
  /\ drained' = 0 /\ pending' = <<>> /\ WipesFromUi
  /\ UNCHANGED <<masked, unfed, panel, radio, mcu, power, nature, crossed>>

\* FireSync: the sync runs inside the drain, with the radio up.
DrainSync ==
  /\ Draining /\ Next1 = "sync"
  /\ struck' = Tail(struck) /\ drained' = drained + 1
  /\ ui' = "sync" /\ radio' = TRUE
  /\ UNCHANGED <<touch, kb, owed, pending, masked, unfed, wipe, panel, mcu, power, nature, crossed>>

SyncReturns ==
  /\ ui = "sync" /\ Runs("ui")
  /\ ui' = "drain" /\ radio' = FALSE
  /\ UNCHANGED <<input, dispatch, wipe, panel, mcu, power, nature, crossed>>

DrainKey ==
  /\ Draining /\ Next1 \notin {"putAway", "sync"}
  /\ struck' = Tail(struck) /\ drained' = drained + 1
  /\ pending' = IF masked THEN pending ELSE Push(pending, Next1)
  /\ UNCHANGED <<touch, kb, owed, masked, unfed, ui, wipe, panel, radio, mcu, power, nature, crossed>>

\* The source is dry, or the bound is reached: Pop, and the event is the screen's.
Pop ==
  /\ ui = "drain" /\ Runs("ui") /\ (struck = <<>> \/ drained = MaxDrainPerPump)
  /\ pending' = IF pending = <<>> THEN pending ELSE Tail(pending)
  /\ ui' = IF pending = <<>> THEN "idle" ELSE "key"
  /\ UNCHANGED <<input, masked, unfed, drained, wipe, panel, radio, mcu, power, nature, crossed>>

\* App::Key or Tick repaints and returns, or returns with nothing to paint...
ScreenReturns ==
  /\ ui = "key" /\ Runs("ui") /\ ui' = "idle"
  /\ \/ /\ \E r \in Refreshes : Present(r)
        /\ crossed' = (crossed \/ Overtaken("ui"))
     \/ UNCHANGED <<panel, crossed>>
  /\ UNCHANGED <<input, dispatch, wipe, radio, mcu, power, nature>>

\* ... or never returns.
ScreenHangs ==
  /\ ui = "key" /\ Runs("ui") /\ ui' = "hung"
  /\ UNCHANGED <<input, dispatch, wipe, panel, radio, mcu, power, nature, crossed>>

\* Watchdog::Expire: the graceful wipe, from the supervisor; its only guard is
\* against itself, so it overtakes a put-away wipe that takes too long.
Expire ==
  /\ Overdue(unfed) /\ Runs("watchdog") /\ wipe["watchdog"] = <<>>
  /\ wipe' = [wipe EXCEPT !["watchdog"] = GracefulSteps]
  /\ UNCHANGED <<input, dispatch, ui, panel, radio, mcu, power, nature, crossed>>

---------------------------------------------------------------------------
(* The wipes *)

\* Park and the reset it ends in: what is left is the glass.
Sleeps(how) ==
  /\ mcu' = how /\ masked' = FALSE
  /\ pending' = <<>> /\ unfed' = 0 /\ drained' = 0 /\ ui' = "idle"
  /\ Unread
  /\ wipe' = [c \in Contexts |-> <<>>] /\ radio' = FALSE
  /\ gauge' = [gauge EXCEPT !.armed = FALSE, !.alert = FALSE]
  /\ monitor' = [pending |-> FALSE, latched |-> FALSE, em |-> "idle"]
  /\ UNCHANGED <<panel, nature>>

Done(c) == wipe' = [wipe EXCEPT ![c] = Tail(@)]

WipeStep(c) ==
  /\ wipe[c] # <<>> /\ Runs(c)
  /\ LET step == Head(wipe[c])
     IN \/ /\ step = "mask"
           /\ masked' = TRUE /\ pending' = <<>> /\ Done(c)
           /\ UNCHANGED <<input, unfed, drained, ui, panel, radio, mcu, power, nature>>
        \/ /\ step = "radioOff"
           /\ radio' = FALSE /\ Done(c)
           /\ UNCHANGED <<input, dispatch, ui, panel, mcu, power, nature>>
        \/ /\ step = "wait" /\ ~panel.busy
           /\ Done(c)
           /\ UNCHANGED <<input, dispatch, ui, panel, radio, mcu, power, nature>>
        \/ /\ step \in Draws
           /\ \/ /\ step = "flush" /\ Starts("white", 0)
              \/ /\ step = "cover" /\ Starts("cover", panel.residue)
              \/ /\ step = "coverIfVoltage"      \* voltage_ok: it holds, or it does not
                 /\ Starts("cover", panel.residue) \/ UNCHANGED panel
           /\ Done(c)
           /\ UNCHANGED <<input, dispatch, ui, radio, mcu, power, nature>>
        \/ /\ step = "park"
           /\ panel' = [panel EXCEPT !.asleep = TRUE] /\ Done(c)
           /\ UNCHANGED <<input, dispatch, ui, radio, mcu, power, nature>>
        \/ /\ step = "cut"
           /\ panel' = [panel EXCEPT !.rail = FALSE] /\ Done(c)
           /\ UNCHANGED <<input, dispatch, ui, radio, mcu, power, nature>>
        \/ step = "sleep" /\ Sleeps("asleep")
        \/ step = "sleepForCharger" /\ Sleeps("asleepForCharger")
  /\ crossed' = (crossed \/ (Head(wipe[c]) \notin {"mask", "wait"} /\ Overtaken(c)))

\* A key, the timer or the charger wakes it; after an emergency only the charger.
\* BeginSession arms the alert; the first screen is presented in full.
Wakes ==
  /\ ~Awake /\ nature < MaxNature /\ (mcu = "asleepForCharger" => gauge.volts = "ok")
  /\ mcu' = "awake" /\ nature' = nature + 1
  /\ panel' = [image |-> "view", busy |-> TRUE, residue |-> 1, torn |-> panel.torn,
               asleep |-> FALSE, rail |-> TRUE]
  /\ gauge' = [gauge EXCEPT !.armed = TRUE, !.alert = gauge.volts = "low"]
  /\ monitor' = [monitor EXCEPT !.pending = gauge.volts = "low"]
  /\ crossed' = FALSE
  /\ UNCHANGED <<input, dispatch, ui, wipe, radio>>

---------------------------------------------------------------------------
(* The battery *)

\* The gauge compares all the time; the alert is an edge, latched until cleared.
Sags ==
  /\ Awake /\ nature < MaxNature /\ gauge.volts = "ok"
  /\ nature' = nature + 1
  /\ gauge' = [gauge EXCEPT !.volts = "low", !.alert = gauge.armed]
  /\ monitor' = [monitor EXCEPT !.pending = @ \/ (gauge.armed /\ ~gauge.alert)]
  /\ UNCHANGED <<input, dispatch, ui, wipe, panel, radio, mcu, crossed>>

Recovers ==
  /\ gauge.volts = "low" /\ nature < MaxNature
  /\ nature' = nature + 1 /\ gauge' = [gauge EXCEPT !.volts = "ok"]
  /\ UNCHANGED <<input, dispatch, ui, wipe, panel, radio, mcu, monitor, crossed>>

\* GracefulThresholdCrossed, from the UI loop: once per crossing, and not while charging.
PollBattery(reading) ==
  /\ ui = "idle" /\ Runs("ui") /\ reading.valid
  /\ IF reading.charging
       THEN monitor' = [monitor EXCEPT !.latched = FALSE] /\ UNCHANGED <<input, ui, wipe>>
       ELSE /\ reading.soc = "low" /\ ~monitor.latched
            /\ monitor' = [monitor EXCEPT !.latched = TRUE]
            /\ WipesFromUi
  /\ UNCHANGED <<dispatch, panel, radio, mcu, gauge, nature, crossed>>

\* ServiceEmergency: the flag is taken, the radio goes off, and after the delay
\* one reading decides; doubt wipes.
ServiceEmergency ==
  /\ monitor.pending /\ monitor.em = "idle" /\ wipe["emergency"] = <<>> /\ Runs("emergency")
  /\ monitor' = [monitor EXCEPT !.pending = FALSE, !.em = "delay"]
  /\ radio' = FALSE
  /\ UNCHANGED <<input, dispatch, ui, wipe, panel, mcu, gauge, nature, crossed>>

Confirm(valid) ==
  /\ monitor.em = "delay" /\ Runs("emergency")
  /\ IF valid /\ gauge.volts = "ok"
       THEN monitor' = [monitor EXCEPT !.em = "clear"] /\ UNCHANGED wipe
       ELSE /\ monitor' = [monitor EXCEPT !.em = "idle"]
            /\ wipe' = [wipe EXCEPT !["emergency"] = EmergencySteps]
  /\ UNCHANGED <<input, dispatch, ui, panel, radio, mcu, gauge, nature, crossed>>

\* Mutant: a cancelled emergency leaves the alert latched.
ClearAlertKept ==
  /\ monitor.em = "clear" /\ Runs("emergency")
  /\ monitor' = [monitor EXCEPT !.em = "idle"]
  /\ UNCHANGED <<input, dispatch, ui, wipe, panel, radio, mcu, gauge, nature, crossed>>

\* Cancelled: ClearAlert, and armed again; a cell that is low by then alerts anew.
ClearAlert ==
  /\ monitor.em = "clear" /\ Runs("emergency")
  /\ gauge' = [gauge EXCEPT !.alert = gauge.volts = "low"]
  /\ monitor' = [monitor EXCEPT !.em = "idle", !.pending = @ \/ gauge.volts = "low"]
  /\ UNCHANGED <<input, dispatch, ui, wipe, panel, radio, mcu, nature, crossed>>

---------------------------------------------------------------------------

Init ==
  /\ touch = Released
  /\ kb = SourceAtBoot /\ struck = <<>> /\ owed = {}
  /\ pending = <<>> /\ masked = FALSE /\ unfed = 0 /\ drained = 0 /\ ui = "idle"
  /\ wipe = [c \in Contexts |-> <<>>]
  /\ panel = [image |-> "view", busy |-> FALSE, residue |-> 1, torn |-> FALSE,
              asleep |-> FALSE, rail |-> TRUE]
  /\ radio = FALSE /\ mcu = "awake"
  /\ gauge = [volts |-> "ok", alert |-> FALSE, armed |-> TRUE]
  /\ monitor = [pending |-> FALSE, latched |-> FALSE, em |-> "idle"]
  /\ crossed = FALSE /\ nature = 0

Reading == [valid : BOOLEAN, charging : BOOLEAN, soc : {"low", "high"}]

InputStep == Pump \/ DrainPutAway \/ DrainSync \/ DrainKey \/ Pop
Emergency == ServiceEmergency \/ ClearAlert \/ \E valid \in BOOLEAN : Confirm(valid)

Next ==
  \/ \E cap \in Caps : Press(cap)
  \/ \E raw \in Caps \cup {"error"} : Scan(raw)
  \/ Tick \/ InputStep \/ SyncReturns \/ ScreenReturns \/ ScreenHangs
  \/ Expire \/ Emergency \/ WaveformEnds \/ Wakes \/ Sags \/ Recovers
  \/ \E c \in Contexts : WipeStep(c)
  \/ \E r \in Reading : PollBattery(r)

\* The tasks are scheduled, time passes and a waveform ends.  Nothing is asked
\* of a screen or of a sync: they may never return.
Fairness ==
  /\ WF_vars(InputStep) /\ WF_vars(Tick) /\ WF_vars(Expire) /\ WF_vars(WaveformEnds)
  /\ WF_vars(Emergency) /\ \A c \in Contexts : WF_vars(WipeStep(c))

Spec == Init /\ [][Next]_vars /\ Fairness

---------------------------------------------------------------------------
(* Properties *)

\* A device that sleeps shows a cover, or white after an emergency that had no
\* voltage for the cover: no waveform was cut short by the sleep and no residue
\* of a screen is under it, whatever was being painted when the wipe began and
\* whichever wipe overtook another.  The exception is a context that paints, parks
\* or sleeps while the wipe of a higher one waits for the panel.
RevealsNothing ==
  ~Awake /\ ~crossed =>
    /\ panel.image = "cover" \/ (panel.image = "white" /\ mcu = "asleepForCharger")
    /\ ~panel.busy /\ panel.residue = 0

\* The panel's rail is cut only with its controller asleep, and the controller
\* is put to sleep only between waveforms, unless two wipes crossed.
RailLast ==
  [][/\ (panel.rail /\ ~panel'.rail) => panel.asleep
     /\ (~panel.asleep /\ panel'.asleep) => ~panel.busy \/ crossed']_vars

\* "Never abort a waveform in flight" (panel.cpp, EmergencyWipe): the controller is
\* not put to sleep in the middle of one, not even by another context's wipe.
NeverAborted == [][(~panel.asleep /\ panel'.asleep) => ~panel.busy]_vars

\* An event of a key that does not repeat answers a press that had none yet:
\* neither a bouncing dome, nor a held key, nor a bus that fails and comes back
\* gives a second wipe or a second sync.
OnePressOneEvent ==
  [][(Len(struck') > Len(struck) /\ ~Repeatable(Last(struck'))) => Last(struck') \in owed]_vars

\* A put-away that was read is answered by sleep behind a cover, whether the
\* backlog is full, a sync is under way or the screen never returns.
PutAwayAnswered == (\E i \in DOMAIN struck : struck[i] = "putAway") ~> ~Awake

\* A cell that stays low puts the device to sleep, after any number of alerts
\* that were cancelled.
SagAnswered == (gauge.volts = "low" /\ Awake) ~> (~Awake \/ gauge.volts = "ok")

\* "Callers MUST wait before starting a new waveform" (panel.h): no refresh
\* starts on a busy panel.
NoTornWaveform == ~panel.torn
=============================================================================
