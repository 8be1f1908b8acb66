---------------------------- MODULE PanelProofs ----------------------------
(***************************************************************************)
(* Panel: what a sleeping device shows, the order the panel is taken down  *)
(* in, and that a press gives one event.  For every backlog, watchdog and  *)
(* repeat time and any set of caps.                                        *)
(***************************************************************************)
EXTENDS Panel, TLAPS

---------------------------------------------------------------------------
(* The wipes *)

\* What is left of the two orders after each of their calls.
G1 == <<"sleep">>
G2 == <<"cut", "sleep">>
G3 == <<"park", "cut", "sleep">>
G4 == <<"wait", "park", "cut", "sleep">>
G5 == <<"cover", "wait", "park", "cut", "sleep">>
G6 == <<"wait", "cover", "wait", "park", "cut", "sleep">>
G7 == <<"flush", "wait", "cover", "wait", "park", "cut", "sleep">>

E1 == <<"sleepForCharger">>
E2 == <<"cut", "sleepForCharger">>
E3 == <<"park", "cut", "sleepForCharger">>
E4 == <<"wait", "park", "cut", "sleepForCharger">>
E5 == <<"coverIfVoltage", "wait", "park", "cut", "sleepForCharger">>
E6 == <<"wait", "coverIfVoltage", "wait", "park", "cut", "sleepForCharger">>
E7 == <<"flush", "wait", "coverIfVoltage", "wait", "park", "cut", "sleepForCharger">>
E8 == <<"wait", "flush", "wait", "coverIfVoltage", "wait", "park", "cut",
        "sleepForCharger">>
E9 == <<"radioOff", "wait", "flush", "wait", "coverIfVoltage", "wait", "park", "cut",
        "sleepForCharger">>

\* The panel can draw.
Ready == panel.rail /\ ~panel.asleep

\* One of these images is on the glass, or being drawn, with nothing under it.
Clean(images) == panel.image \in images /\ panel.residue = 0

\* The controller sleeps behind one of these images.
Resting(images) == panel.asleep /\ ~panel.busy /\ Clean(images)

\* What a graceful wipe with t still to do finds: what it made of the panel, or
\* what a wipe below it had finished before.
GracefulAt(t) ==
  \/ Resting({"cover"})
  \/ t \in {GracefulSteps, G7} /\ Ready
  \/ t = G6 /\ Ready /\ Clean({"white"})
  \/ t = G5 /\ Ready /\ Clean({"white"}) /\ ~panel.busy
  \/ t = G4 /\ Ready /\ Clean({"cover"})
  \/ t = G3 /\ Ready /\ Clean({"cover"}) /\ ~panel.busy

\* The same of an emergency wipe.
EmergencyAt(t) ==
  \/ Resting({"cover", "white"})
  \/ t \in {EmergencySteps, E9, E8, E7} /\ Ready
  \/ t = E6 /\ Ready /\ Clean({"white"})
  \/ t = E5 /\ Ready /\ Clean({"white"}) /\ ~panel.busy
  \/ t = E4 /\ Ready /\ Clean({"cover", "white"})
  \/ t = E3 /\ Ready /\ Clean({"cover", "white"}) /\ ~panel.busy

GracefulStages == {GracefulSteps, G7, G6, G5, G4, G3, G2, G1}
EmergencyStages == {EmergencySteps, E9, E8, E7, E6, E5, E4, E3, E2, E1}
StagesOf(c) == IF c = "emergency" THEN EmergencyStages ELSE GracefulStages

Panels == [image : {"view", "white", "cover"}, busy : BOOLEAN, residue : Nat,
           torn : BOOLEAN, asleep : BOOLEAN, rail : BOOLEAN]

Monitors == [pending : BOOLEAN, latched : BOOLEAN, em : {"idle", "delay", "clear"}]

PanelType ==
  /\ panel \in Panels /\ monitor \in Monitors /\ crossed \in BOOLEAN
  /\ mcu \in {"awake", "asleep", "asleepForCharger"}
  /\ DOMAIN wipe = Contexts
  /\ \A c \in Contexts : wipe[c] = <<>> \/ wipe[c] \in StagesOf(c)

NoneLeft == \A c \in Contexts : wipe[c] = <<>>

\* No wipe begins twice, and a sleeping device has none.
Turns ==
  /\ wipe["ui"] # <<>> => ui = "wiping"
  /\ wipe["emergency"] # <<>> => monitor.em = "idle"
  /\ ~Awake => NoneLeft

\* A wipe that has parked the panel leaves it parked, crossed or not.
CutsParked == \A c \in Contexts : wipe[c] \in {G2, G1, E2, E1} => panel.asleep

\* The wipe of the highest context that has one.
Leads(c) == wipe[c] # <<>> /\ ~Overtaken(c)
At(c) == IF c = "emergency" THEN EmergencyAt(wipe[c]) ELSE GracefulAt(wipe[c])

\* How far the leading wipe has come, until one it overtook goes on drawing.
Progress ==
  Awake /\ ~crossed =>
    /\ \A c \in Contexts : Leads(c) => At(c)
    /\ NoneLeft => Ready

PanelInv == PanelType /\ Turns /\ CutsParked /\ Progress /\ RevealsNothing

\* The two orders, call by call.
LEMMA Orders ==
  /\ Head(GracefulSteps) = "mask" /\ Tail(GracefulSteps) = G7
  /\ Head(G7) = "flush" /\ Tail(G7) = G6
  /\ Head(G6) = "wait" /\ Tail(G6) = G5
  /\ Head(G5) = "cover" /\ Tail(G5) = G4
  /\ Head(G4) = "wait" /\ Tail(G4) = G3
  /\ Head(G3) = "park" /\ Tail(G3) = G2
  /\ Head(G2) = "cut" /\ Tail(G2) = G1
  /\ Head(G1) = "sleep"
  /\ Head(EmergencySteps) = "mask" /\ Tail(EmergencySteps) = E9
  /\ Head(E9) = "radioOff" /\ Tail(E9) = E8
  /\ Head(E8) = "wait" /\ Tail(E8) = E7
  /\ Head(E7) = "flush" /\ Tail(E7) = E6
  /\ Head(E6) = "wait" /\ Tail(E6) = E5
  /\ Head(E5) = "coverIfVoltage" /\ Tail(E5) = E4
  /\ Head(E4) = "wait" /\ Tail(E4) = E3
  /\ Head(E3) = "park" /\ Tail(E3) = E2
  /\ Head(E2) = "cut" /\ Tail(E2) = E1
  /\ Head(E1) = "sleepForCharger"
BY DEF GracefulSteps, G7, G6, G5, G4, G3, G2, G1,
       EmergencySteps, E9, E8, E7, E6, E5, E4, E3, E2, E1

\* No stage is empty; the last call of each order, and only that, is the sleep.
LEMMA StageFacts ==
  ASSUME NEW c \in Contexts, NEW t \in StagesOf(c)
  PROVE  /\ t # <<>>
         /\ \/ /\ Tail(t) \in StagesOf(c) /\ Head(t) \notin {"sleep", "sleepForCharger"}
               /\ Tail(t) \in {G2, G1, E2, E1} => Head(t) = "park" \/ t \in {G2, E2}
            \/ c # "emergency" /\ t = G1 /\ Head(t) = "sleep"
            \/ c = "emergency" /\ t = E1 /\ Head(t) = "sleepForCharger"
         /\ Head(t) = "cut" => t \in {G2, E2}
<1>1. ASSUME t \in GracefulStages
      PROVE  /\ t # <<>> /\ (Head(t) = "cut" => t = G2)
             /\ \/ /\ Tail(t) \in GracefulStages
                   /\ Head(t) \notin {"sleep", "sleepForCharger"}
                   /\ Tail(t) \in {G2, G1, E2, E1} => Head(t) = "park" \/ t = G2
                \/ t = G1 /\ Head(t) = "sleep"
  <2>1. /\ GracefulSteps # <<>> /\ G7 # <<>> /\ G6 # <<>> /\ G5 # <<>> /\ G4 # <<>>
        /\ G3 # <<>> /\ G2 # <<>> /\ G1 # <<>>
    BY DEF GracefulSteps, G7, G6, G5, G4, G3, G2, G1
  <2>2. \A u \in {G7, G6, G5, G4, G3} : u \notin {G2, G1, E2, E1}
    BY DEF G7, G6, G5, G4, G3, G2, G1, E2, E1
  <2> DEFINE call == Head(t)
             rest == Tail(t)
  <2>3. \/ call \in {"mask", "flush", "wait", "cover"} /\ rest \in {G7, G6, G5, G4, G3}
        \/ t = G3 /\ call = "park" /\ rest = G2
        \/ t = G2 /\ call = "cut" /\ rest = G1
        \/ t = G1 /\ call = "sleep"
    <3>1. CASE t = GracefulSteps
      BY <3>1, Orders
    <3>2. CASE t = G7
      BY <3>2, Orders
    <3>3. CASE t = G6
      BY <3>3, Orders
    <3>4. CASE t = G5
      BY <3>4, Orders
    <3>5. CASE t = G4
      BY <3>5, Orders
    <3>6. CASE t = G3
      BY <3>6, Orders
    <3>7. CASE t = G2
      BY <3>7, Orders
    <3>8. CASE t = G1
      BY <3>8, Orders
    <3> QED
      BY <1>1, <3>1, <3>2, <3>3, <3>4, <3>5, <3>6, <3>7, <3>8 DEF GracefulStages
  <2>4. t # <<>>
    BY <1>1, <2>1 DEF GracefulStages
  <2> HIDE DEF call, rest
  <2>5. \/ rest \in GracefulStages /\ call \notin {"sleep", "sleepForCharger"}
           /\ (rest \in {G2, G1, E2, E1} => call = "park" \/ t = G2)
        \/ t = G1 /\ call = "sleep"
    BY <2>2, <2>3 DEF GracefulStages
  <2>6. call = "cut" => t = G2
    BY <2>3
  <2> QED
    BY <2>4, <2>5, <2>6 DEF call, rest
<1>2. ASSUME t \in EmergencyStages
      PROVE  /\ t # <<>> /\ (Head(t) = "cut" => t = E2)
             /\ \/ /\ Tail(t) \in EmergencyStages
                   /\ Head(t) \notin {"sleep", "sleepForCharger"}
                   /\ Tail(t) \in {G2, G1, E2, E1} => Head(t) = "park" \/ t = E2
                \/ t = E1 /\ Head(t) = "sleepForCharger"
  <2>1. /\ EmergencySteps # <<>> /\ E9 # <<>> /\ E8 # <<>> /\ E7 # <<>> /\ E6 # <<>>
        /\ E5 # <<>> /\ E4 # <<>> /\ E3 # <<>> /\ E2 # <<>> /\ E1 # <<>>
    BY DEF EmergencySteps, E9, E8, E7, E6, E5, E4, E3, E2, E1
  <2>2. \A u \in {E9, E8, E7, E6, E5, E4, E3} : u \notin {G2, G1, E2, E1}
    BY DEF E9, E8, E7, E6, E5, E4, E3, G2, G1, E2, E1
  <2> DEFINE call == Head(t)
             rest == Tail(t)
  <2>3. \/ /\ call \in {"mask", "radioOff", "wait", "flush", "coverIfVoltage"}
           /\ rest \in {E9, E8, E7, E6, E5, E4, E3}
        \/ t = E3 /\ call = "park" /\ rest = E2
        \/ t = E2 /\ call = "cut" /\ rest = E1
        \/ t = E1 /\ call = "sleepForCharger"
    <3>1. CASE t = EmergencySteps
      BY <3>1, Orders
    <3>2. CASE t = E9
      BY <3>2, Orders
    <3>3. CASE t = E8
      BY <3>3, Orders
    <3>4. CASE t = E7
      BY <3>4, Orders
    <3>5. CASE t = E6
      BY <3>5, Orders
    <3>6. CASE t = E5
      BY <3>6, Orders
    <3>7. CASE t = E4
      BY <3>7, Orders
    <3>8. CASE t = E3
      BY <3>8, Orders
    <3>9. CASE t = E2
      BY <3>9, Orders
    <3>10. CASE t = E1
      BY <3>10, Orders
    <3> QED
      BY <1>2, <3>1, <3>2, <3>3, <3>4, <3>5, <3>6, <3>7, <3>8, <3>9, <3>10 DEF EmergencyStages
  <2>4. t # <<>>
    BY <1>2, <2>1 DEF EmergencyStages
  <2> HIDE DEF call, rest
  <2>5. \/ rest \in EmergencyStages /\ call \notin {"sleep", "sleepForCharger"}
           /\ (rest \in {G2, G1, E2, E1} => call = "park" \/ t = E2)
        \/ t = E1 /\ call = "sleepForCharger"
    BY <2>2, <2>3 DEF EmergencyStages
  <2>6. call = "cut" => t = E2
    BY <2>3
  <2> QED
    BY <2>4, <2>5, <2>6 DEF call, rest
<1> QED
  BY <1>1, <1>2 DEF StagesOf

\* A refresh draws on a panel that can draw, and does nothing to another.
LEMMA Drawn ==
  ASSUME panel \in Panels, NEW image \in {"view", "white", "cover"}, NEW residue \in Nat,
         Starts(image, residue)
  PROVE  /\ panel' \in Panels
         /\ Ready => Ready' /\ panel'.image = image /\ panel'.residue = residue
         /\ ~Ready => panel' = panel
         /\ panel'.asleep = panel.asleep /\ panel'.rail = panel.rail
BY DEF Panels, Starts, Ready

\* What each call of a wipe does to the panel.
Call(step) ==
  \/ step \in {"mask", "radioOff"} /\ panel' = panel
  \/ step = "wait" /\ ~panel.busy /\ panel' = panel
  \/ step = "flush" /\ Starts("white", 0)
  \/ step = "cover" /\ Starts("cover", panel.residue)
  \/ step = "coverIfVoltage" /\ (Starts("cover", panel.residue) \/ panel' = panel)
  \/ step = "park" /\ panel' = [panel EXCEPT !.asleep = TRUE]
  \/ step = "cut" /\ panel' = [panel EXCEPT !.rail = FALSE]

\* A step of a wipe makes its next call, or is the sleep at its end; it crosses
\* when it does more than wait under another.
LEMMA StepEffects ==
  ASSUME PanelType, NEW c \in Contexts, WipeStep(c)
  PROVE  /\ Awake /\ wipe[c] # <<>>
         /\ crossed' = (crossed \/ (Head(wipe[c]) \notin {"mask", "wait"} /\ Overtaken(c)))
         /\ \/ /\ UNCHANGED <<mcu, monitor, ui>> /\ Call(Head(wipe[c]))
               /\ wipe'[c] = Tail(wipe[c]) /\ wipe'[c] \in StagesOf(c) /\ wipe'[c] # <<>>
               /\ DOMAIN wipe' = Contexts /\ \A d \in Contexts \ {c} : wipe'[d] = wipe[d]
            \/ c # "emergency" /\ wipe[c] = G1 /\ Head(wipe[c]) = "sleep" /\ Sleeps("asleep")
            \/ /\ c = "emergency" /\ wipe[c] = E1 /\ Head(wipe[c]) = "sleepForCharger"
               /\ Sleeps("asleepForCharger")
<1>1. /\ Awake /\ wipe[c] # <<>>
      /\ crossed' = (crossed \/ (Head(wipe[c]) \notin {"mask", "wait"} /\ Overtaken(c)))
  BY DEF WipeStep, Runs
<1>2. wipe[c] \in StagesOf(c) /\ DOMAIN wipe = Contexts
  BY <1>1 DEF PanelType
<1>3. \/ UNCHANGED <<mcu, monitor, ui>> /\ Done(c) /\ Call(Head(wipe[c]))
      \/ Head(wipe[c]) = "sleep" /\ Sleeps("asleep")
      \/ Head(wipe[c]) = "sleepForCharger" /\ Sleeps("asleepForCharger")
  BY DEF WipeStep, Call, power, dispatch
<1>4. CASE UNCHANGED <<mcu, monitor, ui>> /\ Done(c) /\ Call(Head(wipe[c]))
  <2>1. Head(wipe[c]) \notin {"sleep", "sleepForCharger"}
    BY <1>4 DEF Call
  <2>2. Tail(wipe[c]) \in StagesOf(c) /\ Tail(wipe[c]) # <<>>
    BY <1>2, <2>1, StageFacts
  <2>3. /\ wipe'[c] = Tail(wipe[c])
        /\ DOMAIN wipe' = Contexts /\ \A d \in Contexts \ {c} : wipe'[d] = wipe[d]
    BY <1>2, <1>4 DEF Done
  <2> QED
    BY <1>1, <1>4, <2>2, <2>3
<1>5. CASE Head(wipe[c]) = "sleep" /\ Sleeps("asleep")
  BY <1>1, <1>2, <1>5, StageFacts
<1>6. CASE Head(wipe[c]) = "sleepForCharger" /\ Sleeps("asleepForCharger")
  BY <1>1, <1>2, <1>6, StageFacts
<1> QED
  BY <1>3, <1>4, <1>5, <1>6

\* The calls that put the controller to sleep and cut its rail, field by field.
LEMMA Parked ==
  ASSUME panel \in Panels,
         \/ panel' = [panel EXCEPT !.asleep = TRUE]
         \/ panel' = [panel EXCEPT !.rail = FALSE]
  PROVE  /\ panel' \in Panels
         /\ panel'.image = panel.image /\ panel'.residue = panel.residue
         /\ panel'.busy = panel.busy
         /\ panel.asleep => panel'.asleep
         /\ panel' = [panel EXCEPT !.asleep = TRUE] => panel'.asleep
BY DEF Panels

\* Whatever a wipe calls, the panel stays a panel, and one that rests goes on resting.
LEMMA CallEffects ==
  ASSUME panel \in Panels, NEW step, Call(step)
  PROVE  /\ panel' \in Panels /\ (panel.asleep => panel'.asleep)
         /\ \A images : Resting(images) => Resting(images)'
         /\ step = "park" => panel'.asleep
         /\ step \in {"mask", "wait"} => panel' = panel
<1>1. panel.residue \in Nat
  BY DEF Panels
<1>2. CASE panel' = panel /\ step # "park"
  BY <1>2 DEF Resting, Clean
<1>3. CASE Starts("white", 0) /\ step = "flush"
  BY <1>3, Drawn DEF Ready, Resting, Clean
<1>4. CASE Starts("cover", panel.residue) /\ step \in {"cover", "coverIfVoltage"}
  BY <1>1, <1>4, Drawn DEF Ready, Resting, Clean
<1>5. CASE step = "park" /\ panel' = [panel EXCEPT !.asleep = TRUE]
  BY <1>5, Parked DEF Resting, Clean
<1>6. CASE step = "cut" /\ panel' = [panel EXCEPT !.rail = FALSE]
  BY <1>6, Parked DEF Resting, Clean
<1> QED
  BY <1>2, <1>3, <1>4, <1>5, <1>6 DEF Call

\* A graceful wipe that leads makes of the panel what its next call finds.
LEMMA GracefulStep ==
  ASSUME panel \in Panels, NEW t, GracefulAt(t), Call(Head(t))
  PROVE  GracefulAt(Tail(t))'
<1> DEFINE step == Head(t)
<1>1. panel.residue \in Nat
  BY DEF Panels
<1> HIDE DEF step
<1>2. CASE Resting({"cover"})
  BY <1>2, CallEffects DEF GracefulAt
<1>3. CASE t = GracefulSteps /\ Ready
  <2>1. step = "mask" /\ Tail(t) = G7
    BY <1>3, Orders DEF step
  <2> QED
    BY <1>3, <2>1 DEF GracefulAt, Ready, Call, step
<1>4. CASE t = G7 /\ Ready
  <2>1. step = "flush" /\ Tail(t) = G6
    BY <1>4, Orders DEF step
  <2>2. Ready' /\ panel'.image = "white" /\ panel'.residue = 0
    BY <1>4, <2>1, Drawn DEF Call, step
  <2> QED
    BY <2>1, <2>2 DEF GracefulAt, Clean
<1>5. CASE t = G6 /\ Ready /\ Clean({"white"})
  <2>1. step = "wait" /\ Tail(t) = G5
    BY <1>5, Orders DEF step
  <2> QED
    BY <1>5, <2>1 DEF GracefulAt, Clean, Ready, Call, step
<1>6. CASE t = G5 /\ Ready /\ Clean({"white"})
  <2>1. step = "cover" /\ Tail(t) = G4
    BY <1>6, Orders DEF step
  <2>2. Ready' /\ panel'.image = "cover" /\ panel'.residue = 0
    BY <1>1, <1>6, <2>1, Drawn DEF Clean, Call, step
  <2> QED
    BY <2>1, <2>2 DEF GracefulAt, Clean
<1>7. CASE t = G4 /\ Ready /\ Clean({"cover"})
  <2>1. step = "wait" /\ Tail(t) = G3
    BY <1>7, Orders DEF step
  <2> QED
    BY <1>7, <2>1 DEF GracefulAt, Clean, Ready, Call, step
<1>8. CASE t = G3 /\ Clean({"cover"}) /\ ~panel.busy
  <2>1. step = "park"
    BY <1>8, Orders DEF step
  <2>2. /\ panel'.asleep /\ panel'.image = panel.image
        /\ panel'.residue = panel.residue /\ panel'.busy = panel.busy
    BY <2>1, Parked DEF Call, step
  <2> QED
    BY <1>8, <2>2 DEF GracefulAt, Clean, Resting
<1> QED
  BY <1>2, <1>3, <1>4, <1>5, <1>6, <1>7, <1>8 DEF GracefulAt

\* So does an emergency wipe.
LEMMA EmergencyStep ==
  ASSUME panel \in Panels, NEW t, EmergencyAt(t), Call(Head(t))
  PROVE  EmergencyAt(Tail(t))'
<1> DEFINE step == Head(t)
<1>1. panel.residue \in Nat
  BY DEF Panels
<1> HIDE DEF step
<1>2. CASE Resting({"cover", "white"})
  BY <1>2, CallEffects DEF EmergencyAt
<1>3. CASE t = EmergencySteps /\ Ready
  <2>1. step = "mask" /\ Tail(t) = E9
    BY <1>3, Orders DEF step
  <2> QED
    BY <1>3, <2>1 DEF EmergencyAt, Ready, Call, step
<1>4. CASE t = E9 /\ Ready
  <2>1. step = "radioOff" /\ Tail(t) = E8
    BY <1>4, Orders DEF step
  <2> QED
    BY <1>4, <2>1 DEF EmergencyAt, Ready, Call, step
<1>5. CASE t = E8 /\ Ready
  <2>1. step = "wait" /\ Tail(t) = E7
    BY <1>5, Orders DEF step
  <2> QED
    BY <1>5, <2>1 DEF EmergencyAt, Ready, Call, step
<1>6. CASE t = E7 /\ Ready
  <2>1. step = "flush" /\ Tail(t) = E6
    BY <1>6, Orders DEF step
  <2>2. Ready' /\ panel'.image = "white" /\ panel'.residue = 0
    BY <1>6, <2>1, Drawn DEF Call, step
  <2> QED
    BY <2>1, <2>2 DEF EmergencyAt, Clean
<1>7. CASE t = E6 /\ Ready /\ Clean({"white"})
  <2>1. step = "wait" /\ Tail(t) = E5
    BY <1>7, Orders DEF step
  <2> QED
    BY <1>7, <2>1 DEF EmergencyAt, Clean, Ready, Call, step
<1>8. CASE t = E5 /\ Ready /\ Clean({"white"})
  <2>1. step = "coverIfVoltage" /\ Tail(t) = E4
    BY <1>8, Orders DEF step
  <2>2. \/ panel' = panel
        \/ Ready' /\ panel'.image = "cover" /\ panel'.residue = panel.residue
    BY <1>1, <1>8, <2>1, Drawn DEF Call, step
  <2> QED
    BY <1>8, <2>1, <2>2 DEF EmergencyAt, Clean, Ready
<1>9. CASE t = E4 /\ Ready /\ Clean({"cover", "white"})
  <2>1. step = "wait" /\ Tail(t) = E3
    BY <1>9, Orders DEF step
  <2> QED
    BY <1>9, <2>1 DEF EmergencyAt, Clean, Ready, Call, step
<1>10. CASE t = E3 /\ Clean({"cover", "white"}) /\ ~panel.busy
  <2>1. step = "park"
    BY <1>10, Orders DEF step
  <2>2. /\ panel'.asleep /\ panel'.image = panel.image
        /\ panel'.residue = panel.residue /\ panel'.busy = panel.busy
    BY <2>1, Parked DEF Call, step
  <2> QED
    BY <1>10, <2>2 DEF EmergencyAt, Clean, Resting
<1> QED
  BY <1>2, <1>3, <1>4, <1>5, <1>6, <1>7, <1>8, <1>9, <1>10 DEF EmergencyAt

\* The order of the contexts.
LEMMA AboveFacts ==
  /\ Above("ui") = {"watchdog", "emergency"} /\ Above("watchdog") = {"emergency"}
  /\ Above("emergency") = {}
BY DEF Above

\* Nothing is drawn, no wipe moves and nobody falls asleep.
LEMMA StillStep ==
  ASSUME PanelInv, UNCHANGED <<panel, wipe, mcu, crossed>>, monitor' \in Monitors,
         wipe["ui"] # <<>> => ui' = "wiping",
         wipe["emergency"] # <<>> => monitor'.em = "idle"
  PROVE  PanelInv'
BY DEF PanelInv, PanelType, Turns, CutsParked, Progress, RevealsNothing, Awake, NoneLeft, Leads,
       At, Overtaken, Ready, Clean, Resting, GracefulAt, EmergencyAt

\* Under a wipe that would lead the panel can draw, or rests behind a cover.
LEMMA Beneath ==
  ASSUME PanelInv, Awake, ~crossed, NEW c \in Contexts, wipe[c] = <<>>, ~Overtaken(c)
  PROVE  Ready \/ Resting({"cover"})
<1>1. \A t : GracefulAt(t) => Ready \/ Resting({"cover"})
  BY DEF GracefulAt
<1>2. \A d \in {"ui", "watchdog"} : Leads(d) => Ready \/ Resting({"cover"})
  BY <1>1 DEF PanelInv, Progress, At, Contexts
<1>3. NoneLeft \/ \E d \in {"ui", "watchdog"} : Leads(d)
  BY AboveFacts DEF Leads, Overtaken, Contexts, NoneLeft
<1> QED
  BY <1>2, <1>3 DEF PanelInv, Progress

\* A wipe may begin at any time, over the ones below it and under the ones above.
LEMMA WipeBegins ==
  ASSUME PanelInv, Awake, NEW c \in Contexts, wipe[c] = <<>>,
         wipe' = [wipe EXCEPT ![c] = IF c = "emergency" THEN EmergencySteps ELSE GracefulSteps],
         UNCHANGED <<panel, mcu, crossed>>, monitor' \in Monitors,
         ui' = "wiping" \/ (c # "ui" /\ ui' = ui),
         monitor'.em = "idle" \/ (c # "emergency" /\ monitor'.em = monitor.em)
  PROVE  PanelInv'
<1> DEFINE first == IF c = "emergency" THEN EmergencySteps ELSE GracefulSteps
<1>1. /\ wipe'[c] = first /\ DOMAIN wipe' = Contexts
      /\ \A d \in Contexts \ {c} : wipe'[d] = wipe[d]
  BY DEF PanelInv, PanelType
<1>2. first \in StagesOf(c) /\ first # <<>> /\ first \notin {G2, G1, E2, E1}
  BY DEF StagesOf, GracefulStages, EmergencyStages, GracefulSteps, EmergencySteps, G2, G1, E2, E1
<1> HIDE DEF first
<1>3. PanelType'
  BY <1>1, <1>2 DEF PanelInv, PanelType
<1>4. Turns' /\ ~NoneLeft'
  BY <1>1, <1>2 DEF PanelInv, Turns, Awake, NoneLeft, Contexts
<1>5. CutsParked'
  BY <1>1, <1>2 DEF PanelInv, CutsParked
<1>6. ASSUME ~crossed, NEW d \in Contexts, Leads(d)' PROVE At(d)'
  <2>1. CASE d = c
    <3>1. ~Overtaken(c)
      BY <1>1, <1>6, <2>1, AboveFacts DEF Leads, Overtaken, Contexts
    <3>2. Ready \/ Resting({"cover"})
      BY <1>6, <3>1, Beneath
    <3>3. Ready' \/ Resting({"cover"})'
      BY <3>2 DEF Ready, Resting, Clean
    <3> QED
      BY <1>1, <2>1, <3>3 DEF At, GracefulAt, EmergencyAt, Resting, Clean, first
  <2>2. CASE d # c
    <3>1. Leads(d)
      BY <1>1, <1>6, <2>2, AboveFacts DEF Leads, Overtaken, Contexts
    <3>2. At(d)
      BY <1>6, <3>1 DEF PanelInv, Progress
    <3> QED
      BY <1>1, <2>2, <3>2 DEF At, GracefulAt, EmergencyAt, Ready, Resting, Clean
  <2> QED
    BY <2>1, <2>2
<1>7. Progress'
  BY <1>4, <1>6 DEF Progress
<1>8. RevealsNothing'
  BY DEF RevealsNothing, Awake
<1> QED
  BY <1>3, <1>4, <1>5, <1>7, <1>8 DEF PanelInv

\* The screen is drawn: no wipe leads, or the drawing crosses the one that does.
LEMMA ScreenStep ==
  ASSUME PanelInv, ScreenReturns
  PROVE  PanelInv'
<1>1. /\ Awake /\ UNCHANGED <<wipe, mcu, monitor>> /\ ui = "key" /\ ui' = "idle"
      /\ wipe["ui"] = <<>>
  BY DEF ScreenReturns, Runs, power, PanelInv, Turns
<1>2. CASE UNCHANGED <<panel, crossed>>
  BY <1>1, <1>2, StillStep DEF PanelInv, PanelType, Turns
<1>3. ASSUME NEW r \in Refreshes, Present(r), crossed' = (crossed \/ Overtaken("ui"))
      PROVE  PanelInv'
  <2>1. panel \in Panels /\ panel.residue \in Nat
    BY DEF PanelInv, PanelType, Panels
  <2>2. PICK n \in Nat : Starts("view", n)
    BY <1>3, <2>1 DEF Present
  <2>3. /\ panel' \in Panels /\ (Ready => Ready')
        /\ panel'.asleep = panel.asleep
    BY <2>1, <2>2, Drawn
  <2>4. PanelType' /\ Turns' /\ CutsParked'
    BY <1>1, <1>3, <2>3 DEF PanelInv, PanelType, Turns, CutsParked, Awake, NoneLeft
  <2>5. ~crossed' => NoneLeft /\ ~crossed
    BY <1>1, <1>3, AboveFacts DEF Overtaken, NoneLeft, Contexts
  <2>6. Progress'
    BY <1>1, <2>3, <2>5 DEF PanelInv, Progress, NoneLeft, Leads
  <2>7. RevealsNothing'
    BY <1>1 DEF RevealsNothing, Awake
  <2> QED
    BY <2>4, <2>6, <2>7 DEF PanelInv
<1> QED
  BY <1>2, <1>3 DEF ScreenReturns

\* A waveform ends: nothing asked for a busy panel.
LEMMA WaveformStep ==
  ASSUME PanelInv, WaveformEnds
  PROVE  PanelInv'
<1>1. /\ panel' \in Panels /\ panel'.image = panel.image /\ ~panel'.busy
      /\ panel'.residue = panel.residue
      /\ panel'.rail = panel.rail /\ panel'.asleep = panel.asleep
  BY DEF WaveformEnds, PanelInv, PanelType, Panels
<1>2. UNCHANGED <<wipe, mcu, monitor, ui, crossed>>
  BY DEF WaveformEnds, power
<1>3. /\ Ready' = Ready /\ \A S : Resting(S) => Resting(S)'
      /\ \A S : Clean(S) => Clean(S)'
  BY <1>1 DEF Ready, Resting, Clean
<1>4. PanelType' /\ Turns' /\ CutsParked'
  BY <1>1, <1>2 DEF PanelInv, PanelType, Turns, CutsParked, Awake, NoneLeft
<1>5. /\ \A t : GracefulAt(t) => GracefulAt(t)'
      /\ \A t : EmergencyAt(t) => EmergencyAt(t)'
  BY <1>1, <1>3 DEF GracefulAt, EmergencyAt
<1>6. \A c \in Contexts : At(c) => At(c)'
  BY <1>2, <1>5 DEF At
<1>7. Progress'
  BY <1>2, <1>3, <1>6 DEF PanelInv, Progress, Awake, NoneLeft, Leads, Overtaken
<1>8. RevealsNothing'
  BY <1>1, <1>2 DEF PanelInv, RevealsNothing, Awake
<1> QED
  BY <1>4, <1>7, <1>8 DEF PanelInv

\* One call of a wipe, whether it leads or only waits beneath another.
LEMMA WipeKeeps ==
  ASSUME PanelInv, NEW c \in Contexts, WipeStep(c)
  PROVE  PanelInv'
<1> DEFINE t == wipe[c]
<1>1. /\ Awake /\ t # <<>>
      /\ crossed' = (crossed \/ (Head(t) \notin {"mask", "wait"} /\ Overtaken(c)))
  BY StepEffects DEF PanelInv
<1>2. panel \in Panels /\ t \in StagesOf(c)
  BY <1>1 DEF PanelInv, PanelType
<1>3. ~crossed /\ ~Overtaken(c) => At(c)
  BY <1>1 DEF PanelInv, Progress, Leads
<1>4. ASSUME UNCHANGED <<mcu, monitor, ui>>, Call(Head(t)),
             wipe'[c] = Tail(t), wipe'[c] \in StagesOf(c), wipe'[c] # <<>>,
             DOMAIN wipe' = Contexts, \A d \in Contexts \ {c} : wipe'[d] = wipe[d]
      PROVE  PanelInv'
  <2>1. /\ panel' \in Panels /\ (panel.asleep => panel'.asleep)
        /\ Head(t) = "park" => panel'.asleep
        /\ Head(t) \in {"mask", "wait"} => panel' = panel
    BY <1>2, <1>4, CallEffects
  <2>2. PanelType'
    BY <1>1, <1>4, <2>1 DEF PanelInv, PanelType
  <2>3. \A d \in Contexts : wipe'[d] # <<>> <=> wipe[d] # <<>>
    BY <1>1, <1>4
  <2>4. Turns' /\ ~NoneLeft'
    BY <1>1, <1>4, <2>3 DEF PanelInv, Turns, Awake, NoneLeft, Contexts
  <2>5. CutsParked'
    <3>1. Tail(t) \in {G2, G1, E2, E1} => Head(t) = "park" \/ t \in {G2, E2}
      <4>1. Head(t) \notin {"sleep", "sleepForCharger"}
        BY <1>4 DEF Call
      <4> QED
        BY <1>2, <4>1, StageFacts
    <3>2. wipe'[c] \in {G2, G1, E2, E1} => panel'.asleep
      BY <1>4, <2>1, <3>1 DEF PanelInv, CutsParked
    <3>3. \A d \in Contexts \ {c} : wipe'[d] \in {G2, G1, E2, E1} => panel'.asleep
      BY <1>4, <2>1 DEF PanelInv, CutsParked
    <3> QED
      BY <3>2, <3>3 DEF CutsParked
  <2>6. \A d \in Contexts : Leads(d)' <=> Leads(d)
    BY <2>3, AboveFacts DEF Leads, Overtaken, Contexts
  <2>7. ASSUME ~crossed', NEW d \in Contexts, Leads(d) PROVE At(d)'
    <3>1. ~crossed /\ At(d)
      BY <1>1, <2>7 DEF PanelInv, Progress
    <3>2. CASE d = c
      <4>1. PICK u : u = t
        OBVIOUS
      <4>2. CASE c = "emergency"
        <5>1. EmergencyAt(Tail(u))'
          <6>1. EmergencyAt(u) /\ Call(Head(u))
            BY <1>4, <3>1, <3>2, <4>1, <4>2 DEF At, EmergencyAt
          <6> QED
            BY <1>2, <6>1, EmergencyStep
        <5> QED
          BY <1>4, <3>2, <4>1, <4>2, <5>1 DEF At, EmergencyAt
      <4>3. CASE c # "emergency"
        <5>1. GracefulAt(Tail(u))'
          <6>1. GracefulAt(u) /\ Call(Head(u))
            BY <1>4, <3>1, <3>2, <4>1, <4>3 DEF At, GracefulAt
          <6> QED
            BY <1>2, <6>1, GracefulStep
        <5> QED
          BY <1>4, <3>2, <4>1, <4>3, <5>1 DEF At, GracefulAt
      <4> QED
        BY <4>2, <4>3
    <3>3. CASE d # c
      <4>1. Overtaken(c)
        BY <1>1, <2>7, <3>3, AboveFacts DEF Leads, Overtaken, Contexts
      <4>2. panel' = panel /\ wipe'[d] = wipe[d]
        BY <1>1, <1>4, <2>1, <2>7, <3>3, <4>1
      <4> QED
        BY <3>1, <4>2 DEF At, GracefulAt, EmergencyAt, Ready, Resting, Clean
    <3> QED
      BY <3>2, <3>3
  <2>8. Progress'
    BY <2>4, <2>6, <2>7 DEF Progress
  <2>9. RevealsNothing'
    BY <1>1, <1>4 DEF RevealsNothing, Awake
  <2> QED
    BY <2>2, <2>4, <2>5, <2>8, <2>9 DEF PanelInv
<1>5. ASSUME NEW how \in {"asleep", "asleepForCharger"}, Sleeps(how),
             Head(t) \in {"sleep", "sleepForCharger"},
             ~crossed' => \/ Resting({"cover"})
                          \/ Resting({"cover", "white"}) /\ how = "asleepForCharger"
      PROVE  PanelInv'
  <2>1. /\ mcu' = how /\ UNCHANGED panel
        /\ wipe' = [d \in Contexts |-> <<>>]
        /\ monitor' = [pending |-> FALSE, latched |-> FALSE, em |-> "idle"]
    BY <1>5 DEF Sleeps
  <2>2. DOMAIN wipe' = Contexts /\ \A d \in Contexts : wipe'[d] = <<>>
    BY <2>1
  <2>3. PanelType'
    BY <1>1, <2>1, <2>2 DEF PanelInv, PanelType, Monitors
  <2>4. ~Awake'
    BY <2>1 DEF Awake
  <2>5. Turns'
    BY <2>2 DEF Turns, NoneLeft, Contexts
  <2>6. CutsParked'
    <3>1. <<>> \notin {G2, G1, E2, E1}
      BY DEF G2, G1, E2, E1
    <3> QED
      BY <2>2, <3>1 DEF CutsParked
  <2>7. Progress' /\ RevealsNothing'
    BY <1>5, <2>1, <2>4 DEF Progress, RevealsNothing, Resting, Clean
  <2> QED
    BY <2>3, <2>5, <2>6, <2>7 DEF PanelInv
<1>6. CASE c # "emergency" /\ t = G1 /\ Head(t) = "sleep" /\ Sleeps("asleep")
  <2>1. G1 \notin {GracefulSteps, G7, G6, G5, G4, G3}
    BY DEF GracefulSteps, G7, G6, G5, G4, G3, G1
  <2>2. ~crossed' => Resting({"cover"})
    BY <1>1, <1>3, <1>6, <2>1 DEF At, GracefulAt
  <2> QED
    BY <1>5, <1>6, <2>2
<1>7. CASE c = "emergency" /\ t = E1 /\ Head(t) = "sleepForCharger" /\ Sleeps("asleepForCharger")
  <2>1. E1 \notin {EmergencySteps, E9, E8, E7, E6, E5, E4, E3}
    BY DEF EmergencySteps, E9, E8, E7, E6, E5, E4, E3, E1
  <2>2. ~crossed' => Resting({"cover", "white"})
    BY <1>1, <1>3, <1>7, <2>1 DEF At, EmergencyAt
  <2> QED
    BY <1>5, <1>7, <2>2
<1> QED
  BY <1>4, <1>6, <1>7, StepEffects DEF PanelInv

\* Every step keeps the invariant.
LEMMA PanelStep ==
  ASSUME PanelInv, [Next]_vars
  PROVE  PanelInv'
<1>1. monitor \in Monitors
  BY DEF PanelInv, PanelType
<1>2. CASE \/ \E cap \in Caps : Press(cap)
           \/ \E raw \in Caps \cup {"error"} : Scan(raw)
           \/ Tick \/ Recovers \/ UNCHANGED vars
  <2>1. UNCHANGED <<panel, wipe, mcu, monitor, ui, crossed>>
    BY <1>2 DEF Press, Scan, Tick, Recovers, vars, power, dispatch
  <2> QED
    BY <1>1, <2>1, StillStep DEF PanelInv, Turns
<1>3. CASE Pump \/ DrainSync \/ DrainKey \/ Pop \/ SyncReturns \/ ScreenHangs
  <2>1. UNCHANGED <<panel, wipe, mcu, monitor, crossed>> /\ ui # "wiping"
    BY <1>3 DEF Pump, DrainSync, DrainKey, Pop, SyncReturns, ScreenHangs, Draining, power,
                dispatch
  <2>2. wipe["ui"] = <<>>
    BY <2>1 DEF PanelInv, Turns
  <2> QED
    BY <1>1, <2>1, <2>2, StillStep DEF PanelInv, Turns
<1>4. CASE ServiceEmergency \/ ClearAlert \/ Sags
  <2>1. UNCHANGED <<panel, wipe, mcu, ui, crossed>>
    BY <1>4 DEF ServiceEmergency, ClearAlert, Sags, dispatch
  <2>2. monitor' \in Monitors
    <3>1. CASE ServiceEmergency
      BY <1>1, <3>1 DEF ServiceEmergency, Monitors
    <3>2. CASE ClearAlert
      BY <1>1, <3>2 DEF ClearAlert, Monitors
    <3>3. CASE Sags
      BY <1>1, <3>3 DEF Sags, Monitors
    <3> QED
      BY <1>4, <3>1, <3>2, <3>3
  <2>3. wipe["emergency"] # <<>> => monitor'.em = "idle"
    <3>1. CASE ServiceEmergency
      BY <3>1 DEF ServiceEmergency
    <3>2. CASE ClearAlert
      BY <1>1, <3>2 DEF ClearAlert, Monitors
    <3>3. CASE Sags
      BY <1>1, <3>3 DEF Sags, PanelInv, Turns, Monitors
    <3> QED
      BY <1>4, <3>1, <3>2, <3>3
  <2> QED
    BY <2>1, <2>2, <2>3, StillStep DEF PanelInv, Turns
<1>5. ASSUME NEW valid \in BOOLEAN, Confirm(valid) PROVE PanelInv'
  <2>1. /\ Awake /\ UNCHANGED <<panel, mcu, ui, crossed>> /\ monitor.em = "delay"
        /\ \/ UNCHANGED wipe
           \/ /\ monitor'.em = "idle"
              /\ wipe' = [wipe EXCEPT !["emergency"] = EmergencySteps]
        /\ monitor' \in Monitors
    BY <1>1, <1>5 DEF Confirm, Runs, Monitors
  <2>2. wipe["emergency"] = <<>>
    BY <2>1 DEF PanelInv, Turns
  <2>3. CASE UNCHANGED wipe
    BY <2>1, <2>2, <2>3, StillStep DEF PanelInv, Turns
  <2>4. CASE /\ monitor'.em = "idle"
             /\ wipe' = [wipe EXCEPT !["emergency"] = EmergencySteps]
    <3>1. "emergency" \in Contexts
      BY DEF Contexts
    <3> QED
      BY <2>1, <2>2, <2>4, <3>1, WipeBegins
  <2> QED
    BY <2>1, <2>3, <2>4
<1>6. CASE ScreenReturns
  BY <1>6, ScreenStep
<1>7. CASE WaveformEnds
  BY <1>7, WaveformStep
<1>8. CASE \E c \in Contexts : WipeStep(c)
  BY <1>8, WipeKeeps
<1>9. CASE DrainPutAway
  <2>1. /\ Awake /\ ui = "drain" /\ ui' = "wiping" /\ UNCHANGED <<panel, mcu, monitor, crossed>>
        /\ wipe' = [wipe EXCEPT !["ui"] = GracefulSteps]
    BY <1>9 DEF DrainPutAway, WipesFromUi, Draining, Runs, power
  <2>2. wipe["ui"] = <<>> /\ "ui" \in Contexts
    BY <2>1 DEF PanelInv, Turns, Contexts
  <2> QED
    BY <1>1, <2>1, <2>2, WipeBegins
<1>10. ASSUME NEW r \in Reading, PollBattery(r) PROVE PanelInv'
  <2>1. /\ Awake /\ ui = "idle" /\ UNCHANGED <<panel, mcu, crossed>>
        /\ \/ UNCHANGED <<wipe, ui>>
           \/ wipe' = [wipe EXCEPT !["ui"] = GracefulSteps] /\ ui' = "wiping"
        /\ monitor' \in Monitors /\ monitor'.em = monitor.em
    BY <1>1, <1>10 DEF PollBattery, WipesFromUi, Runs, Monitors
  <2>2. wipe["ui"] = <<>> /\ "ui" \in Contexts
    BY <2>1 DEF PanelInv, Turns, Contexts
  <2>3. CASE UNCHANGED <<wipe, ui>>
    BY <2>1, <2>3, StillStep DEF PanelInv, Turns
  <2>4. CASE wipe' = [wipe EXCEPT !["ui"] = GracefulSteps] /\ ui' = "wiping"
    BY <2>1, <2>2, <2>4, WipeBegins
  <2> QED
    BY <2>1, <2>3, <2>4
<1>11. CASE Expire
  <2>1. /\ Awake /\ wipe["watchdog"] = <<>> /\ UNCHANGED <<panel, mcu, monitor, ui, crossed>>
        /\ wipe' = [wipe EXCEPT !["watchdog"] = GracefulSteps]
    BY <1>11 DEF Expire, Runs, power
  <2>2. "watchdog" \in Contexts
    BY DEF Contexts
  <2> QED
    BY <1>1, <2>1, <2>2, WipeBegins
<1>12. CASE Wakes
  <2>1. /\ ~Awake /\ mcu' = "awake" /\ UNCHANGED <<wipe, ui>> /\ crossed' = FALSE
        /\ panel' = [image |-> "view", busy |-> TRUE, residue |-> 1, torn |-> panel.torn,
                     asleep |-> FALSE, rail |-> TRUE]
        /\ monitor' = [monitor EXCEPT !.pending = gauge.volts = "low"]
    BY <1>12 DEF Wakes
  <2>2. panel' \in Panels /\ monitor' \in Monitors
    BY <1>1, <2>1 DEF PanelInv, PanelType, Panels, Monitors
  <2>3. Ready'
    BY <2>1 DEF Ready
  <2>4. NoneLeft /\ \A c \in Contexts : wipe'[c] = <<>>
    BY <2>1 DEF PanelInv, Turns, NoneLeft
  <2>5. PanelType'
    BY <2>1, <2>2 DEF PanelInv, PanelType
  <2>6. CutsParked'
    <3>1. <<>> \notin {G2, G1, E2, E1}
      BY DEF G2, G1, E2, E1
    <3> QED
      BY <2>4, <3>1 DEF CutsParked
  <2> QED
    BY <2>1, <2>3, <2>4, <2>5, <2>6
       DEF PanelInv, Turns, Progress, RevealsNothing, Awake, NoneLeft, Leads, Contexts
<1> QED
  BY <1>2, <1>3, <1>4, <1>5, <1>6, <1>7, <1>8, <1>9, <1>10, <1>11, <1>12
     DEF Next, InputStep, Emergency

\* The device starts awake with a screen on the glass.
LEMMA PanelInit == Init => PanelInv
<1> SUFFICES ASSUME Init PROVE PanelInv
  OBVIOUS
<1>1. PanelType
  BY DEF Init, PanelType, Panels, Monitors
<1>2. NoneLeft
  BY DEF Init, NoneLeft
<1>3. <<>> \notin {G2, G1, E2, E1}
  BY DEF G2, G1, E2, E1
<1> QED
  BY <1>1, <1>2, <1>3 DEF Init, PanelInv, Turns, CutsParked, Progress, RevealsNothing, Ready,
     NoneLeft, Awake, Leads, Contexts

\* The leading wipe makes of the panel what its next call needs, whichever wipes
\* it overtook and whichever begin beneath it.
THEOREM PanelInductive == Spec => []PanelInv
<1>1. PanelInv /\ [Next]_vars => PanelInv'
  BY PanelStep
<1> QED
  BY <1>1, PanelInit, PTL DEF Spec

\* A device that sleeps shows a cover, or white after an emergency: no screen
\* can be read off its glass, from any order of put-away, watchdog expiry, low
\* battery and emergency in which a wipe that was overtaken stays where it was
\* (panel.cpp's two orders).
THEOREM SleepsCovered == Spec => []RevealsNothing
<1>1. PanelInv => RevealsNothing
  BY DEF PanelInv
<1> QED
  BY <1>1, PanelInductive, PTL

\* A wipe cuts the rail of a parked panel, and parks an idle one or crosses another.
LEMMA ParkThenCut ==
  ASSUME PanelInv, NEW c \in Contexts, WipeStep(c)
  PROVE  /\ Head(wipe[c]) = "park" => ~panel.busy \/ crossed'
         /\ Head(wipe[c]) = "cut" => panel.asleep
<1>1. /\ Awake /\ wipe[c] # <<>>
      /\ crossed' = (crossed \/ (Head(wipe[c]) \notin {"mask", "wait"} /\ Overtaken(c)))
  BY StepEffects DEF PanelInv
<1>2. wipe[c] \in StagesOf(c)
  BY <1>1 DEF PanelInv, PanelType
<1>3. ASSUME Head(wipe[c]) = "park", ~crossed' PROVE ~panel.busy
  <2>1. At(c)
    BY <1>1, <1>3 DEF PanelInv, Progress, Leads
  <2> QED
    BY <1>3, <2>1, Orders DEF At, GracefulAt, EmergencyAt, Resting
<1>4. Head(wipe[c]) = "cut" => panel.asleep
  BY <1>2, StageFacts DEF PanelInv, CutsParked
<1> QED
  BY <1>3, <1>4

\* The controller is put to sleep between waveforms unless two wipes crossed, and
\* the rail is always cut after that, by whichever wipe gets there.
THEOREM RailCutLast == Spec => RailLast
<1> DEFINE Ordered == /\ (panel.rail /\ ~panel'.rail) => panel.asleep
                      /\ (~panel.asleep /\ panel'.asleep) => ~panel.busy \/ crossed'
<1>1. ASSUME PanelInv, [Next]_vars PROVE Ordered
  <2>1. panel \in Panels /\ panel.residue \in Nat
    BY <1>1 DEF PanelInv, PanelType, Panels
  <2>2. CASE UNCHANGED panel
    BY <2>2
  <2>3. ASSUME NEW image \in {"view", "white", "cover"}, NEW n \in Nat, Starts(image, n)
        PROVE  Ordered
    BY <2>1, <2>3, Drawn
  <2>4. CASE WaveformEnds
    BY <2>1, <2>4 DEF WaveformEnds, Panels
  <2>5. CASE ScreenReturns
    <3>1. ASSUME NEW r \in Refreshes, Present(r) PROVE \E n \in Nat : Starts("view", n)
      BY <2>1, <3>1 DEF Present
    <3> QED
      BY <2>2, <2>3, <2>5, <3>1 DEF ScreenReturns
  <2>6. CASE Wakes
    BY <2>1, <2>6 DEF Wakes, Panels
  <2>7. ASSUME NEW c \in Contexts, WipeStep(c) PROVE Ordered
    <3>1. /\ Head(wipe[c]) = "park" => ~panel.busy \/ crossed'
          /\ Head(wipe[c]) = "cut" => panel.asleep
      BY <1>1, <2>7, ParkThenCut
    <3>2. \/ panel' = panel
          \/ Starts("white", 0) \/ Starts("cover", panel.residue)
          \/ Head(wipe[c]) = "park" /\ panel' = [panel EXCEPT !.asleep = TRUE]
          \/ Head(wipe[c]) = "cut" /\ panel' = [panel EXCEPT !.rail = FALSE]
      BY <1>1, <2>7, StepEffects DEF Sleeps, Call, PanelInv
    <3>3. CASE Head(wipe[c]) = "park" /\ panel' = [panel EXCEPT !.asleep = TRUE]
      BY <2>1, <3>1, <3>3 DEF Panels
    <3>4. CASE Head(wipe[c]) = "cut" /\ panel' = [panel EXCEPT !.rail = FALSE]
      BY <2>1, <3>1, <3>4 DEF Panels
    <3> QED
      BY <2>1, <2>2, <2>3, <3>2, <3>3, <3>4
  <2>8. \/ UNCHANGED panel \/ WaveformEnds \/ ScreenReturns \/ Wakes
        \/ \E c \in Contexts : WipeStep(c)
    <3>1. CASE \/ \E cap \in Caps : Press(cap)
               \/ \E raw \in Caps \cup {"error"} : Scan(raw)
               \/ Tick \/ Recovers \/ Sags \/ UNCHANGED vars
      BY <3>1 DEF Press, Scan, Tick, Recovers, Sags, vars
    <3>2. CASE InputStep \/ SyncReturns \/ ScreenHangs \/ Expire
      BY <3>2 DEF InputStep, Pump, DrainPutAway, DrainSync, DrainKey, Pop, SyncReturns,
                  ScreenHangs, Expire
    <3>3. CASE Emergency \/ \E r \in Reading : PollBattery(r)
      BY <3>3 DEF Emergency, ServiceEmergency, ClearAlert, Confirm, PollBattery
    <3> QED
      BY <1>1, <3>1, <3>2, <3>3 DEF Next
  <2> QED
    BY <2>2, <2>4, <2>5, <2>6, <2>7, <2>8
<1> QED
  BY <1>1, PanelInductive, PTL DEF Spec, RailLast

---------------------------------------------------------------------------
(* The keys *)

\* A key that gives one event for one press.
Single(key) == key # "none" /\ ~Repeatable(key)

Scans == Caps \cup {"none"}

KeysType ==
  /\ touch \in [now : Scans, was : Scans, bouncing : BOOLEAN]
  /\ kb \in [candidate : Scans, age : Nat, accepted : Scans, armed : BOOLEAN, due : Nat,
             repeat : InputKeys]
  /\ struck \in Seq(InputKeys)

\* The cap under the finger has been accepted, or its event is still owed; once
\* it was given, a bounce back to the cap before starts a new age.
NowServed ==
  LET key == DecodeKeebDeck(touch.now)
  IN  Single(key) /\ key \notin owed =>
        /\ kb.accepted = touch.now
        /\ touch.bouncing /\ kb.candidate # touch.now => kb.age = 0

\* The cap the finger just left can still settle only if its event is owed.
WasServed ==
  LET key == DecodeKeebDeck(touch.was)
  IN  /\ touch.bouncing => touch.was # touch.now
      /\ /\ touch.bouncing /\ Single(key)
         /\ kb.candidate = touch.was /\ kb.accepted # touch.was /\ kb.age > 0
         => key \in owed

\* Only a key that repeats is armed to repeat.
RepeatsArmed == kb.armed => Repeatable(kb.repeat)

KeysInv == KeysType /\ NowServed /\ WasServed /\ RepeatsArmed

\* Caps whose key gives one event are told apart by their keys.
LEMMA DecodeFacts ==
  ASSUME NEW x, NEW y
  PROVE  /\ DecodeKeebDeck(x) \in InputKeys
         /\ Single(DecodeKeebDeck(x)) /\ DecodeKeebDeck(y) = DecodeKeebDeck(x) => x = y
         /\ ~Single(DecodeKeebDeck("none"))
BY DEF DecodeKeebDeck, InputKeys, Single, Repeatable

\* What a Poll makes of the source, and of which reading its event is.
LEMMA PollFacts ==
  ASSUME KeysType, NEW raw \in Scans \cup {"error"}
  PROVE  LET r == Poll(kb, raw)
         IN  /\ r.kb \in [candidate : Scans, age : Nat, accepted : Scans, armed : BOOLEAN,
                          due : Nat, repeat : InputKeys]
             /\ r.event \in InputKeys
             /\ \/ /\ r.event = "none" /\ r.kb.accepted = kb.accepted
                   /\ r.kb.candidate = kb.accepted /\ r.kb.age = 0 /\ ~r.kb.armed
                \/ /\ raw # "error" /\ r.event = "none" /\ r.kb.accepted = kb.accepted
                   /\ r.kb.candidate = raw /\ r.kb.age = 0
                   /\ r.kb.armed = kb.armed /\ r.kb.repeat = kb.repeat
                \/ /\ r.kb.accepted = kb.accepted /\ r.kb.candidate = kb.candidate
                   /\ r.kb.age = kb.age
                   /\ r.kb.armed = kb.armed /\ r.kb.repeat = kb.repeat
                   /\ r.event = "none" \/ (kb.armed /\ r.event = kb.repeat)
                \/ /\ raw # "error" /\ kb.candidate = raw /\ kb.accepted # raw
                   /\ kb.age > 0
                   /\ r.event = DecodeKeebDeck(raw)
                   /\ r.kb.accepted = raw /\ r.kb.candidate = raw /\ r.kb.age = 0
                   /\ r.kb.armed => Repeatable(r.kb.repeat)
<1> DEFINE r == Poll(kb, raw)
<1> USE KeyboardAssumption
<1>1. kb \in [candidate : Scans, age : Nat, accepted : Scans, armed : BOOLEAN, due : Nat,
              repeat : InputKeys]
  BY DEF KeysType
<1>2. "none" \in InputKeys /\ Debounce \in Nat \ {0} /\ RepeatDelay \in Nat
      /\ RepeatInterval \in Nat
  BY DEF InputKeys
<1>3. CASE raw = "error"
  BY <1>1, <1>2, <1>3 DEF Poll
<1>4. CASE raw # "error" /\ raw # kb.candidate
  BY <1>1, <1>2, <1>4 DEF Poll
<1>5. CASE raw # "error" /\ raw = kb.candidate /\ raw = kb.accepted
  <2>1. r = Repeat(kb)
    BY <1>5 DEF Poll
  <2>2. CASE kb.armed /\ kb.due = 0
    <3> DEFINE again == [kb EXCEPT !.due = RepeatInterval]
    <3>1. r.kb = again /\ r.event = kb.repeat
      BY <2>1, <2>2 DEF Repeat
    <3>2. /\ again \in [candidate : Scans, age : Nat, accepted : Scans, armed : BOOLEAN,
                        due : Nat, repeat : InputKeys]
          /\ again.accepted = kb.accepted /\ again.candidate = kb.candidate
          /\ again.age = kb.age /\ again.armed = kb.armed /\ again.repeat = kb.repeat
      BY <1>1, <1>2
    <3>3. kb.repeat \in InputKeys
      BY <1>1
    <3> HIDE DEF again, r
    <3> QED
      BY <2>2, <3>1, <3>2, <3>3 DEF r
  <2>3. CASE ~(kb.armed /\ kb.due = 0)
    <3>1. r.kb = kb /\ r.event = "none"
      BY <2>1, <2>3 DEF Repeat
    <3> QED
      BY <1>1, <1>2, <3>1
  <2> QED
    BY <2>2, <2>3
<1>6. CASE raw # "error" /\ raw = kb.candidate /\ raw # kb.accepted /\ kb.age < Debounce
  BY <1>1, <1>2, <1>6 DEF Poll
<1>7. CASE raw # "error" /\ raw = kb.candidate /\ raw # kb.accepted /\ ~(kb.age < Debounce)
  <2> DEFINE key == DecodeKeebDeck(raw)
  <2> DEFINE settled == [kb EXCEPT !.accepted = raw, !.armed = FALSE, !.due = 0, !.age = 0]
  <2>1. /\ r.event = key
        /\ r.kb = IF Repeatable(key)
                    THEN [settled EXCEPT !.armed = TRUE, !.due = RepeatDelay, !.repeat = key]
                    ELSE settled
    BY <1>7 DEF Poll
  <2>2. key \in InputKeys
    BY DecodeFacts
  <2>3. raw \in Scans /\ kb.age > 0
    BY <1>1, <1>2, <1>7
  <2>4. /\ settled \in [candidate : Scans, age : Nat, accepted : Scans, armed : BOOLEAN,
                        due : Nat, repeat : InputKeys]
        /\ settled.accepted = raw /\ settled.candidate = raw /\ settled.age = 0
        /\ ~settled.armed
    BY <1>1, <1>7, <2>3
  <2> HIDE DEF key, settled
  <2>5. CASE Repeatable(key)
    <3> DEFINE armed == [settled EXCEPT !.armed = TRUE, !.due = RepeatDelay, !.repeat = key]
    <3>1. /\ armed \in [candidate : Scans, age : Nat, accepted : Scans, armed : BOOLEAN,
                        due : Nat, repeat : InputKeys]
          /\ armed.accepted = raw /\ armed.candidate = raw /\ armed.age = 0
          /\ armed.repeat = key
      BY <1>2, <2>2, <2>4
    <3>2. r.kb = armed
      BY <2>1, <2>5
    <3> HIDE DEF armed, r
    <3> QED
      BY <1>7, <2>1, <2>2, <2>3, <2>5, <3>1, <3>2 DEF key, r
  <2>6. CASE ~Repeatable(key)
    BY <1>2, <1>7, <2>1, <2>2, <2>3, <2>4, <2>6 DEF key
  <2> QED
    BY <2>5, <2>6
<1> QED
  BY <1>3, <1>4, <1>5, <1>6, <1>7

\* A Poll: nothing it changes makes a press count twice.
LEMMA ScanKeeps ==
  ASSUME KeysInv, NEW raw \in Caps \cup {"error"}, Scan(raw)
  PROVE  KeysInv'
<1> DEFINE r == Poll(kb, raw)
<1> HIDE DEF r
<1>1. /\ UNCHANGED touch /\ kb' = r.kb /\ owed' = owed \ {r.event}
      /\ struck' = IF r.event = "none" THEN struck ELSE Append(struck, r.event)
      /\ raw = touch.now \/ (touch.bouncing /\ raw = touch.was) \/ raw = "error"
  BY DEF Scan, r, Readings
<1>2. /\ r.kb \in [candidate : Scans, age : Nat, accepted : Scans, armed : BOOLEAN,
                   due : Nat, repeat : InputKeys]
      /\ r.event \in InputKeys
      /\ \/ /\ r.event = "none" /\ r.kb.accepted = kb.accepted
            /\ r.kb.candidate = kb.accepted /\ r.kb.age = 0 /\ ~r.kb.armed
         \/ /\ raw # "error" /\ r.event = "none" /\ r.kb.accepted = kb.accepted
            /\ r.kb.candidate = raw /\ r.kb.age = 0
            /\ r.kb.armed = kb.armed /\ r.kb.repeat = kb.repeat
         \/ /\ r.kb.accepted = kb.accepted /\ r.kb.candidate = kb.candidate
            /\ r.kb.age = kb.age
            /\ r.kb.armed = kb.armed /\ r.kb.repeat = kb.repeat
            /\ r.event = "none" \/ (kb.armed /\ r.event = kb.repeat)
         \/ /\ raw # "error" /\ kb.candidate = raw /\ kb.accepted # raw
            /\ kb.age > 0
            /\ r.event = DecodeKeebDeck(raw)
            /\ r.kb.accepted = raw /\ r.kb.candidate = raw /\ r.kb.age = 0
            /\ r.kb.armed => Repeatable(r.kb.repeat)
  <2>1. KeysType /\ raw \in Scans \cup {"error"}
    BY DEF KeysInv, Scans
  <2> QED
    BY <2>1, PollFacts DEF r
<1>3. KeysType'
  BY <1>1, <1>2 DEF KeysInv, KeysType
<1>4. RepeatsArmed'
  BY <1>1, <1>2 DEF KeysInv, RepeatsArmed
<1>5. kb.age \in Nat
  BY DEF KeysInv, KeysType
<1> DEFINE now == DecodeKeebDeck(touch.now)
<1> DEFINE was == DecodeKeebDeck(touch.was)
<1>6. /\ Single(now) /\ r.event = now /\ r.event = DecodeKeebDeck(raw) => raw = touch.now
      /\ Single(was) /\ r.event = was /\ r.event = DecodeKeebDeck(raw) => raw = touch.was
  BY DecodeFacts
<1>7. /\ \A key : Single(key) => key # "none"
      /\ kb.armed => ~Single(kb.repeat)
  BY DEF Single, KeysInv, RepeatsArmed
<1>8. NowServed'
  <2> SUFFICES ASSUME Single(now), now \notin owed'
               PROVE  /\ kb'.accepted = touch.now
                      /\ touch.bouncing /\ kb'.candidate # touch.now => kb'.age = 0
    BY <1>1 DEF NowServed
  <2>1. CASE now \in owed
    <3>1. r.event = now
      BY <1>1, <2>1
    <3>2. raw = touch.now /\ r.kb.accepted = raw /\ r.kb.age = 0
      BY <1>2, <1>6, <1>7, <3>1
    <3> QED
      BY <1>1, <3>2
  <2>2. CASE now \notin owed
    <3>1. /\ kb.accepted = touch.now
          /\ touch.bouncing /\ kb.candidate # touch.now => kb.age = 0
      BY <2>2 DEF KeysInv, NowServed
    <3>2. ~(raw # "error" /\ kb.candidate = raw /\ kb.accepted # raw /\ kb.age > 0)
      BY <1>1, <1>5, <3>1
    <3> QED
      BY <1>1, <1>2, <3>1, <3>2
  <2> QED
    BY <2>1, <2>2
<1>9. WasServed'
  <2>1. touch'.bouncing => touch'.was # touch'.now
    BY <1>1 DEF KeysInv, WasServed
  <2> SUFFICES ASSUME touch.bouncing, Single(was), kb'.candidate = touch.was,
                      kb'.accepted # touch.was, kb'.age > 0
               PROVE  was \in owed'
    BY <1>1, <2>1 DEF WasServed
  <2>2. /\ kb'.accepted = kb.accepted /\ kb'.candidate = kb.candidate /\ kb'.age = kb.age
        /\ r.event = "none" \/ (kb.armed /\ r.event = kb.repeat)
    BY <1>1, <1>2
  <2>3. was \in owed
    BY <2>2 DEF KeysInv, WasServed
  <2> QED
    BY <1>1, <1>7, <2>2, <2>3
<1> QED
  BY <1>3, <1>4, <1>8, <1>9 DEF KeysInv

\* Every step keeps it.
LEMMA KeysStep ==
  ASSUME KeysInv, [Next]_vars
  PROVE  KeysInv'
<1>1. KeysType /\ touch.now \in Scans
  BY DEF KeysInv, KeysType
<1>2. ASSUME NEW cap \in Caps, Press(cap) PROVE KeysInv'
  <2>1. /\ cap # touch.now /\ UNCHANGED <<kb, struck>>
        /\ touch' = [now |-> cap, was |-> touch.now, bouncing |-> TRUE]
        /\ owed' = IF cap = "none" THEN owed ELSE owed \cup {DecodeKeebDeck(cap)}
    BY <1>2 DEF Press
  <2>2. touch'.now = cap /\ touch'.was = touch.now /\ touch'.bouncing
    BY <2>1
  <2>3. KeysType'
    BY <1>1, <2>1 DEF KeysType, Scans
  <2>4. NowServed'
    BY <2>1, <2>2, DecodeFacts DEF NowServed
  <2>5. WasServed'
    BY <2>1, <2>2 DEF WasServed, KeysInv, NowServed
  <2>6. RepeatsArmed'
    BY <2>1 DEF KeysInv, RepeatsArmed
  <2> QED
    BY <2>3, <2>4, <2>5, <2>6 DEF KeysInv
<1>3. ASSUME NEW raw \in Caps \cup {"error"}, Scan(raw) PROVE KeysInv'
  BY <1>3, ScanKeeps
<1>4. CASE Tick
  <2>1. /\ kb' = Aged(kb) /\ UNCHANGED <<owed, struck>>
        /\ touch' = [touch EXCEPT !.bouncing = FALSE, !.was = touch.now]
    BY <1>4 DEF Tick
  <2>2. /\ touch' \in [now : Scans, was : Scans, bouncing : BOOLEAN]
        /\ touch'.now = touch.now /\ ~touch'.bouncing
    BY <1>1, <2>1 DEF KeysType
  <2>3. /\ kb' \in [candidate : Scans, age : Nat, accepted : Scans, armed : BOOLEAN,
                    due : Nat, repeat : InputKeys]
        /\ kb'.accepted = kb.accepted /\ kb'.armed = kb.armed /\ kb'.repeat = kb.repeat
    <3> DEFINE age == IF kb.age < Debounce /\ kb.candidate # kb.accepted
                      THEN kb.age + 1 ELSE kb.age
               due == IF kb.due > 0 THEN kb.due - 1 ELSE 0
    <3>1. kb \in [candidate : Scans, age : Nat, accepted : Scans, armed : BOOLEAN,
                  due : Nat, repeat : InputKeys]
      BY <1>1 DEF KeysType
    <3>2. kb.age \in Nat /\ kb.due \in Nat
      BY <3>1
    <3>3. age \in Nat /\ due \in Nat
      BY <3>2
    <3>4. kb' = [kb EXCEPT !.age = age, !.due = due]
      BY <2>1, <3>1 DEF Aged
    <3> HIDE DEF age, due
    <3> QED
      BY <3>1, <3>3, <3>4
  <2> QED
    BY <1>1, <2>1, <2>2, <2>3
       DEF KeysInv, KeysType, NowServed, WasServed, RepeatsArmed
<1>5. ASSUME Unread PROVE KeysInv'
  <2>1. /\ kb' = SourceAtBoot /\ struck' = <<>>
        /\ touch' = [now |-> "none", was |-> "none", bouncing |-> FALSE]
    BY <1>5 DEF Unread, Released
  <2>2. KeysType'
    BY <2>1 DEF KeysType, SourceAtBoot, Scans, InputKeys
  <2>3. touch'.now = "none" /\ ~touch'.bouncing /\ ~kb'.armed
    BY <2>1 DEF SourceAtBoot
  <2> QED
    BY <2>2, <2>3, DecodeFacts DEF KeysInv, NowServed, WasServed, RepeatsArmed
<1>6. ASSUME UNCHANGED <<touch, kb, owed>>,
             struck' = struck \/ (struck # <<>> /\ struck' = Tail(struck))
      PROVE  KeysInv'
  <2>1. struck' \in Seq(InputKeys)
    BY <1>1, <1>6 DEF KeysType
  <2> QED
    BY <1>6, <2>1 DEF KeysInv, KeysType, NowServed, WasServed, RepeatsArmed
<1>7. CASE DrainPutAway \/ DrainSync \/ DrainKey
  BY <1>5, <1>6, <1>7 DEF DrainPutAway, DrainSync, DrainKey, Draining, WipesFromUi
<1>8. CASE \/ Pump \/ Pop \/ SyncReturns \/ ScreenReturns \/ ScreenHangs
           \/ Expire \/ WaveformEnds \/ Wakes
  BY <1>6, <1>8 DEF Pump, Pop, SyncReturns, ScreenReturns, ScreenHangs, Expire,
                    WaveformEnds, Wakes, input
<1>9. CASE \/ Sags \/ Recovers \/ Emergency
           \/ \E r \in Reading : PollBattery(r)
           \/ UNCHANGED vars
  BY <1>5, <1>6, <1>9 DEF Sags, Recovers, Emergency, ServiceEmergency, ClearAlert, Confirm,
                          PollBattery, WipesFromUi, input, vars
<1>10. ASSUME NEW c \in Contexts, WipeStep(c) PROVE KeysInv'
  <2>1. UNCHANGED input \/ Unread
    BY <1>10 DEF WipeStep, Sleeps
  <2> QED
    BY <1>5, <1>6, <2>1 DEF input
<1> QED
  BY <1>2, <1>3, <1>4, <1>7, <1>8, <1>9, <1>10 DEF Next, InputStep

\* No cap is down and none is owed an event.
LEMMA KeysInit == Init => KeysInv
<1> SUFFICES ASSUME Init PROVE KeysInv
  OBVIOUS
<1>1. KeysType
  BY DEF Init, Released, KeysType, SourceAtBoot, Scans, InputKeys
<1>2. touch.now = "none" /\ ~touch.bouncing /\ ~kb.armed
  BY DEF Init, Released, SourceAtBoot
<1> QED
  BY <1>1, <1>2, DecodeFacts DEF KeysInv, NowServed, WasServed, RepeatsArmed

\* Only a Poll makes an event, and it makes at most one.
LEMMA EventsFromPolls ==
  ASSUME KeysInv, [Next]_vars, Len(struck') > Len(struck)
  PROVE  \E raw \in Caps \cup {"error"} :
           /\ Scan(raw) /\ Poll(kb, raw).event # "none"
           /\ Last(struck') = Poll(kb, raw).event
<1>1. struck \in Seq(InputKeys)
  BY DEF KeysInv, KeysType
<1>2. /\ ~(UNCHANGED struck) /\ ~(struck # <<>> /\ struck' = Tail(struck))
      /\ struck' # <<>> /\ ~Unread
  BY <1>1 DEF Unread
<1>3. ~(\E cap \in Caps : Press(cap)) /\ ~Tick /\ ~UNCHANGED vars
  BY <1>2 DEF Press, Tick, vars
<1>4. ~(DrainPutAway \/ DrainSync \/ DrainKey)
  BY <1>2 DEF DrainPutAway, DrainSync, DrainKey, Draining, WipesFromUi
<1>5. ~(Pump \/ Pop \/ SyncReturns \/ ScreenReturns \/ ScreenHangs \/ Expire
        \/ WaveformEnds \/ Wakes)
  BY <1>2 DEF Pump, Pop, SyncReturns, ScreenReturns, ScreenHangs, Expire, WaveformEnds,
              Wakes, input
<1>6. ~(Sags \/ Recovers \/ Emergency \/ \E r \in Reading : PollBattery(r))
  BY <1>2 DEF Sags, Recovers, Emergency, ServiceEmergency, ClearAlert, Confirm,
              PollBattery, WipesFromUi, input
<1>7. ASSUME NEW c \in Contexts, WipeStep(c) PROVE FALSE
  <2>1. UNCHANGED input \/ Unread
    BY <1>7 DEF WipeStep, Sleeps
  <2> QED
    BY <1>2, <2>1 DEF input
<1>8. PICK raw \in Caps \cup {"error"} : Scan(raw)
  BY <1>3, <1>4, <1>5, <1>6, <1>7 DEF Next, InputStep
<1> DEFINE ev == Poll(kb, raw).event
<1>9. struck' = IF ev = "none" THEN struck ELSE Append(struck, ev)
  BY <1>8 DEF Scan
<1>10. ev \in InputKeys
  <2>1. KeysType /\ raw \in Scans \cup {"error"}
    BY DEF KeysInv, Scans
  <2> QED
    BY <2>1, PollFacts
<1> HIDE DEF ev
<1>11. ev # "none" /\ struck' = Append(struck, ev)
  BY <1>2, <1>9
<1>12. Last(struck') = ev
  <2>1. Len(struck') = Len(struck) + 1 /\ struck'[Len(struck) + 1] = ev
    BY <1>1, <1>10, <1>11
  <2> QED
    BY <2>1 DEF Last
<1> QED
  BY <1>8, <1>11, <1>12 DEF ev

\* A press of a key that does not repeat is answered by at most one event,
\* however its dome bounces and its bus fails, and however the polls fall
\* between the presses (KeebDeckSource::Poll).
THEOREM PressesAnsweredOnce == Spec => OnePressOneEvent
<1>1. KeysInv /\ [Next]_vars => KeysInv'
  BY KeysStep
<1>2. ASSUME KeysInv, [Next]_vars, Len(struck') > Len(struck), ~Repeatable(Last(struck'))
      PROVE  Last(struck') \in owed
  <2>1. PICK raw \in Caps \cup {"error"} :
          /\ Scan(raw) /\ Poll(kb, raw).event # "none"
          /\ Last(struck') = Poll(kb, raw).event
    BY <1>2, EventsFromPolls
  <2> DEFINE ev == Poll(kb, raw).event
  <2>2. \/ ev = "none" \/ (kb.armed /\ ev = kb.repeat)
        \/ /\ raw # "error" /\ kb.candidate = raw /\ kb.accepted # raw /\ kb.age > 0
           /\ ev = DecodeKeebDeck(raw)
    <3>1. KeysType /\ raw \in Scans \cup {"error"}
      BY <1>2 DEF KeysInv, Scans
    <3> QED
      BY <3>1, PollFacts
  <2> HIDE DEF ev
  <2>3. Single(ev)
    BY <1>2, <2>1 DEF Single, ev
  <2>4. /\ raw # "error" /\ kb.candidate = raw /\ kb.accepted # raw /\ kb.age > 0
        /\ ev = DecodeKeebDeck(raw)
    BY <1>2, <2>2, <2>3 DEF Single, KeysInv, RepeatsArmed
  <2>5. raw = touch.now \/ (touch.bouncing /\ raw = touch.was)
    BY <2>1, <2>4 DEF Scan, Readings
  <2>6. ev \in owed
    BY <1>2, <2>3, <2>4, <2>5 DEF KeysInv, NowServed, WasServed
  <2> QED
    BY <2>1, <2>6 DEF ev
<1>3. KeysInv /\ [Next]_vars =>
        [(Len(struck') > Len(struck) /\ ~Repeatable(Last(struck')))
           => Last(struck') \in owed]_vars
  BY <1>2
<1> QED
  BY <1>1, <1>3, KeysInit, PTL DEF Spec, OnePressOneEvent
============================================================================
