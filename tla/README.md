# Verification of chaskiwasi

Chaskiwasi is a letter service for a child. A small e-paper device (the *chaski*,
`firmware/chaski`) exchanges letters with a server (the *wasi*, `cmd/wasi`, `internal/`),
which is a gateway to one ordinary mailbox. Guardians keep the list of people who may
write and be written to (the *ayllu*) on web pages or by command line. This directory
models the letter and contact paths of the server and nearly all of the device's own
code, checks them with TLC and proves the central ones with TLAPS.

## 1. The system

### Parts, state and operations

| part | state | operations |
|---|---|---|
| device outbox (`components/store`, `FileOutbox`) | one file per letter, a counter file for local ids, a RAM copy of both | Add, Sendable, Resolve, Discard, reload at boot |
| device letters (`FileLetterStore`, `FileSeenRing`, `FileStateStore`) | letter files with read marks, ring of seen ids, cursor, doorbell counter | Put, Contains, Add, EvictBeyond, SetCursor, SetHighWater |
| draft, settings (`draft.cpp`, `settings.cpp`) | one slot; one record | Start, Save, Discard; Commit, pushed configuration |
| device contact list (`components/ayllu`) | snapshot file, overlay file, RAM copies | ApplySnapshot, SetOverlay, ClearOverlay, Contacts |
| sync engine (`components/syncengine`) | failures, Retry-After, halt | BuildRequest, ApplyResponse (acks, contacts, letters, config, cursor, in this order), RunOnce |
| transport (`components/transport`, `components/wire`) | sequence number, decoder buffer | Sync (one exchange), Next (frame decoder), DecodeResponse |
| bench control (`main/bench_control.cpp`) | a second decoder on the same pipe | Dispatch of one command per frame |
| wake policy (`main/wake.cpp`, `app_main.cpp`), doorbell verifier (`components/pututu`) | RTC memory: limiter, next sync, unread mirror | Decide, the jobs of a boot, Verify |
| screens (`components/ui`) | current screen, open letter, PIN state | one handler per screen, Tick, ShowFault, AutosaveDraft |
| text (`components/layout`, `text_util.cpp`, utf8proc) | none | boundaries, erase, break into lines and pages |
| panel, input, power | waveform, image; key source, backlog, watchdog; gauge, alert | two wipes; Poll, Pump; ServiceEmergency |
| sync handler (`internal/syncsvc`) | none between requests | authorise, decode, reconcile, process the outbox, assemble letters, commit |
| state store (`internal/state`) | `state.json`: ack ring, pending notices, doorbell counter, last sync | Snapshot, Update (durable, then published) |
| filing (`internal/filing`) | mutex, `arrivalHighWater` | Start, Reconcile, ReconcileSync, CheckSpam, HandleNotify, three releases |
| contact table (`internal/ayllu`) | `ayllu.toml`, `ayllu-log.jsonl`, RAM copy | Resolve, ResolveActive, Mutate, ReadLog |
| notices (`internal/notice`) | `pending_notices` | Announce, Flush, Reconcile |
| mailbox (`internal/mailbox`) | INBOX, Held, spam folder, UIDVALIDITY; external | List, FetchAbove, Recent, Move, Append, Idle, Send |
| guardian pages (`internal/web`), command line (`cmd/wasi`) | sessions; lock file | contact changes, releases, accounts, serve, backup |
| server doorbell (`internal/pututu`) | counter, coalescing window | Ring, retry |

### How they interact

* The device sends one request: its cursor and the sendable letters. The handler lets
  filing clean INBOX, hands letters to the mail relay, fetches INBOX above the cursor and
  answers with acks, letters and a new cursor. The device applies the answer in a fixed
  order, the cursor last, and asks again while there is more.
* The provider puts mail into INBOX at any time. An IDLE goroutine calls `HandleNotify`,
  a ticker `CheckSpam`; they, the releases and the sync's reconciliation exclude each
  other through the filing mutex, and nothing else does.
* A guardian's change goes to `ayllu.toml`, to the log, and out as a notice letter in
  INBOX. A release adds a change of the table, a MOVE and an arrival pass.
* On the device one boot has one job, chosen from the wake reason, the RTC memory and the
  buffered SMS. The screens run in the input task; the watchdog and the battery alert may
  wipe the panel under them. A sync replaces the contact list, the settings and the outbox
  entries the screens are showing.
* On a bench, one USB cable carries commands and sync answers to two readers in turn.

### What is hard, and what makes each part correct

| part | hard behaviour | correct when |
|---|---|---|
| outbound letters | crash or failed write between hand-over and record; lost answers; overlapping requests; reused ids | no letter lost, none repeated without cause, one answer per id, no false "sent" |
| inbound letters | mail and table changes between the steps of a pass and of a sync; faults while applying; factory reset; UIDVALIDITY reset | the cursor never gets ahead of the letters, what the child had stays, what was evicted stays gone, removed senders stay out, active senders get through |
| contact changes | failure between table, log, pending entry, APPEND and removal; restart at each of them | only real changes announced, each once, and each eventually |
| wakes | RTC memory lost or kept; an SMS repeated, late or forged; a failed sync; a stale mirror | the schedule is kept, a token counts once, doorbells are spaced, the flag on the glass is true |
| the child's words | leaving the screen by key, fault, wipe or power cut; two writes per send; a full bag; a rejected letter; a second draft | the newest words are somewhere, a letter is not both queued and a draft |
| contact list | a snapshot replaced under the screen that edits it; a write that took effect and reported failure | RAM is what flash says; a decoration survives |
| text | clusters of several code points at a cut, words longer than a line, a font change deep in a letter, a file cut at any byte | clusters stay whole, lines fit, pages give the text back, settings come back as chosen |
| glass, keys, battery | three contexts that may wipe; waveforms that outlive their call; bounce; a hung screen; a sag that comes back | a sleeping device shows nothing private, put-away and a low cell are always answered |
| cable and retries | half a frame with each reader; late answers; malformed answers; 401 | an answer belongs to its request, is read whole or not at all; a halt holds; a command is answered |

`PROJECT.json` lists the hazards line by line, with the property that watches each.

## 2. The modules

### Server, and the protocol between the two

`OutboxPromise` is the abstract specification: what the child is promised about a letter
put in the bag. It knows nothing of servers, rings or flash.

`Outbound` is the path of an outbound letter on both sides. Device: `files` and `counter`
are flash, `entries` and `highWater` the RAM copies; `Add`, `AddCounterFails`,
`AddEntryFails`, `SendRequest`, `GiveUp`, `Resolve`, `ResolveFails`, `Discard`,
`PowerCut` and `Format` are the store's and the engine's operations with their failing
forms. Server: per goroutine a program counter, the rest of its request, its copy of the
ring and its acks; `Begin`, `Replay`, `RejectItem`, `SendOk`, `SendUndeliverable`,
`SendFails`, `RecordAck`, `RecordAckFails`, `Reply`, `ReplyFails`, `Refuse`, `Crash` are
the stretches of `processOutbound` and `commitSync` between points where another
goroutine, a fault or a crash can come in. A letter is a number, its local id another:
the two part after a format. History variables (`sends`, `excuses`, `told`, ...) are read
by properties and bounds only.

`Contacts` has the server's contact table as a value: resolution by current and past
address in sorted order of ids, and what every mutation makes of the table, or that it is
refused.

`Delivery` extends `Contacts` with the mailbox, filing, the sync handler and the receiving
half of the device. `pass` is the pass that holds the filing mutex, with the listing it
works on; `phase` is where the handler is. Mail arrives, the table changes and a letter is
released between any two steps, before filing's start is through as well; an `n:*` with
nothing above `n` is answered with the last message, as RFC 3501 has it
(`StarReturnsLast`). The mailbox may be rebuilt with new UIDs at any time but in the middle
of a filing pass, whose list would then name other messages. The budget of an answer is a nondeterministic cut after the first letter, which
covers every size of letters.

`Notices` has the making and announcing of a change: `Commit` and `Log` are `Mutate` under
its mutex; then the contacts page announces, a release moves its letter first, and the
command line, possible only with the server down, leaves it to the next start. `Start`,
`Look`, `StartAppend`, `StartRemove`, `FlushEnd` and `ReconcileEnd` are `Flush` and
`Reconcile` of `serve`. `Sieve` is the one loop its lists need.

### Device

`Wake` is one boot after another: `TimerFires`, `WokenBy`, `PowerOn` and `PowerCut` begin
and end it, `Open` reads the stores and `Decide`s, `VerifySms` is the verifier with its
limiter, MAC and counter (persisted before it counts), `SyncRound`, `SyncIncomplete` and
`SyncFault` are a sync, the `Ui...` actions what a session does to the store, `Cover` and
`ToSleep` the end. Time is absolute; the code sees the uptime, which each wake may find
started again, as `esp_timer_get_time` (`app_main.cpp:62`) is after deep sleep, or running
on, as the RTC's own clock would be (`Restarts`).

`Compose` is the screen machine of `ui.cpp` over the draft slot and the outbox, one action
per key handler, with `Send` and a recompose stopped between their two writes, and the
kinds of content each screen draws. `outbox` is the store's RAM copy and `files` what is on
flash: an entry whose write reported failure may be in the second and not in the first,
until a boot reads it. `Ayllu` is the device's contact list and the screen that edits it
from a copy of the merged list; `hist` keeps which one field the child chose, not what the
code filed for it.

`Graphemes` is text on bytes: UTF-8 decoding and the stateful grapheme break of utf8proc,
and the two edits of `text_util.cpp`. `Layout` breaks a body into lines and pages over it;
`Records` is the line record codec of `fsutil.cpp`. `Pages` composes the three with the
reading and writing screens, the settings file, the health log and `Paint`.

`Keyboard` is the key source as a function of one reading, with debounce and repeat.
`Panel` composes it with the dispatcher, the watchdog, the two wipes, the gauge and the
refreshes of the screens, in the three contexts the headers give them. A context that
waits for the panel, or for the confirming reading of the gauge, lets the ones below it run
(`delay_ms` is `vTaskDelay`), and there is no lock between their wipes.

`Frames` is the frame decoder on cells, `Wire` the decoding of a response, `Link` the two
readers of one pipe with the transport's exchange, the bench's dispatch and the engine's
retry state.

### How the device's parts are put together

`main/` does not wire everything yet: nothing there calls `NewDispatcher`, `NewWatchdog`,
`NewMonitor`, `NewWipeController`, `NewKeebDeckSource` or `NewApp`, and the jobs that poll
the doorbell, open the screens and draw the cover are stubs in this build. `Wake` and
`Panel` compose these parts as the headers say they are to be called, and model what is
outside `src/` (drivers, gauge, fingers, modem) from how the code uses it.

### Failing writes

`atomicfile.WriteFile` and `fsutil::WriteAtomic`: an error means the file is the old or the
new one, never a mixture; which one is decided at the write. `fsutil::Remove` may fail the
same way. `AppendLine` and the change log are plain appends;
the log's torn line is modelled, the seen ring's is not.

`MC...` modules give constants their values where a cfg cannot; `...Proofs` modules hold a
component's inductive invariant, theorems and proofs, `SieveFacts` the lemmas about lists
and least elements they share. Definitions marked "(A slip: ...)" or
"Mutant: ..." are wrong variants of the definition below them; no specification uses them,
and each violates the property it was written for, which shows that the property can fail.

## 3. What the runs check

| run | distinct states | shows |
|---|---|---|
| `outbound` | 877 thousand | Two letters of each kind, every write able to fail, both sides able to stop anywhere, one request at a time: `NothingLost`, `RepeatsAreExcused`, `OneTerminalAck`, `SentMeansTaken`, the inductive `NothingLostInv`, and that every step is a step of `OutboxPromise` (`KeepsThePromise`). |
| `delivery` | 2.7 million | One sender, two letters, a store that keeps one, arrivals filed one at a time, one factory reset, one UIDVALIDITY reset, one table change, one fault, early releases, `n:*` answered with the last message: `CursorCovers`, `EvictedStaysGone`, `CursorRises`, `HistoryStays`. |
| `delivery_live` | 587 thousand | Under fairness, past one fault anywhere and one table change, with mail arriving at any point of a sync: `ActiveMailDelivered`, `RemovedStaysOut`. |
| `notices` | 78 thousand | Two changes, three faults, three crashes, lost APPEND replies, 90 days passing: `TrueNotice`, `SecondLetterExcused`, `NothingOwed`. |
| `wake` | 6.2 million | Times 0 to 4, an uptime that starts again or runs on at each wake, two counters, one buffered SMS at a time, a battery floor that comes and goes: `ScheduleKept`, `TokenOnce`, `CoverFollowsStore`, `DoorbellSpacing`. |
| `compose` | 1.2 million | Two letters of two versions, a bag of one, two entries, one wrong PIN, two kinds of fault screens, power cuts, writes of the slot and of the outbox that fail with or without effect: `WordsKept`, `OneCopy`, `GuardedScreens`. |
| `ayllu` | 670 thousand | Two contacts, one of them the system's, two names, snapshots that drop and bring back a contact: `RamIsDisk`, `DecorationKept`. |
| `pages` | 142 thousand | Every text of up to four of nine code points (a letter, space, LF, CR, backslash, combining mark, ZWJ, pictograph, regional indicator) on a panel of a few columns and rows at two fonts: `ClustersAreWhole`, `LinesFit`, `PagesWhole`, `CutRecordsDecode`, `SettingsSurvive`, `LogIsTheLatest`. |
| `panel` | 603 thousand | Three events of nature, two of them strokes or bus errors, a backlog of one, wipes that run in each other's waits: `RevealsNothing`, `RailLast`, `OnePressOneEvent`, `PutAwayAnswered`, `SagAnswered`. |
| `link` | 468 thousand | Three commands of six kinds, answers of every class, frames of three cells read at most two at a time, one late answer: `StaleExcused`, `WholeOrNothing`, `HaltHolds`, `CommandAnswered`. |

Some properties of these runs name exceptions, each a thing the code does that a reader
might wish it did not. They are part of the property, so that it says how far it goes.

* `HistoryStays` and `RemovedStaysOut` except what `n:*` brings back (`FetchedAgain`; a
  letter an earlier sync met), what a release before the start takes along (`MarkUnset`),
  what a device with a lost boundary sweeps (`BoundaryLost`), and mail that came after the
  sync's pass had listed INBOX (`late`). A change of address is in the theorem
  `HistoryNeverLeaves` only: the runs have one address.
* `ScheduleKept` keeps the interval only while the uptime has not started again since the
  due time was written. On the device it starts again at every wake, so there the property
  is what remains: a waiting letter is sent, and a sync follows a loss of power.
* `DecorationKept` allows an edit two effects on the field it is not about: the nickname
  goes when it equals the guardian's name in the list on the screen, and a nickname brings
  along the pin its row showed.
* `RevealsNothing` and `RailLast` except a context that draws, parks or sleeps while the
  wipe of a higher one waits (`crossed`).

Two letters are the least that make order matter (one delivered, one not; one evicted, one
kept; one replayed, one new; one open, one rejected); two changes the least for interleaved
announcements. One fault per run is what separates a step from its failing form; the
notices pipeline has three, since its duplicates need two faults and a crash. Four code
points are enough for a cluster of three with a neighbour, a word longer than a line, and
more than one page. Frames of three cells leave a head, a middle and a tail for the two
readers to share.

`MCDelivery.cfg` has a VIEW: `late` and `shutOut` are read by `RemovedStaysOut` alone, which
that run does not check, and nothing tells `skipped` and `beyond` apart. Each exception of
`HistoryStays` happens in the run. `MCCompose.cfg` has one too: past the lock neither the
PIN nor what was entered for it is read until the next start, before which home may push
either value, so states that differ only in them are one. Its letters and ids are a symmetry
set; the run checks safety only.

Two runs are expected to be violated:

| run | disagreement |
|---|---|
| `outbound_reused_ids` | `store.h` says local ids are never reused; formatting the partition resets their counter, and a new letter is answered with an old letter's ack and dropped. |
| `compose_fault` | `ui.cpp` says every path that leaves the writing screen saves first; `ShowFault` does not. A rejected letter reopened afterwards finds an empty slot and replaces the open one, with the words typed since the last autosave. |

### Further configurations

Each of these is run by hand (`tlc -config X.cfg M`). The first passes; the others turn one switch
or drop one exception of a run above, and end in the counterexample described.

| configuration | module | result |
|---|---|---|
| `MCOutboundRing` | `MCOutbound` | passes: with a ring of one and a bag of one, formats allowed, repeats still need a fault |
| `MCOutboundTwoAcks` | `MCOutbound` | `OneTerminalAck`: two overlapping requests copy the ring before either records |
| `MCDeliverySweep` | `MCDelivery` | `HistoryNeverHeld`: an arrival pass asks for `n:*`, gets the newest letter again and judges it by the table of today |
| `MCDeliverySkip` | `MCDelivery` | `NothingSkipped`: a sender added after a sync passed the letter over leaves it behind the cursor |
| `MCNoticesSilent` | `Notices` | `NoSilentChange`: a failed log write leaves a change nobody hears of |
| `MCNoticesTwice` | `Notices` | `NoticeOnce`: a pending entry recorded twice, and a crash, make two letters |
| `MCWakeClock` | `Wake` | `ScheduleRuns`: with an uptime that restarts at every wake a due time kept in RTC memory lies ahead, and timer wakes sync no more |
| `MCWakeFlag` | `Wake` | `FlagRaised`: a cover drawn behind the mirror (a session, charge-me) leaves the flag wrong |
| `MCAylluStale` | `MCAyllu` | `PinShowsThrough`: a nickname edit stores the guardian's pin as the child's own; with that invariant left out, `NicknameSurvivesPins`: a pin drops a nickname that equals the guardian's name in the list on the screen (`ui.cpp:753`) |
| `MCPagesShown` | `MCPages` | `WholePageShown`: `Paint` takes title and footer out of a page height that already left them out |
| `MCPanelTorn` | `Panel` | `NoTornWaveform`: `Present` does not wait for the last waveform, if the driver does not |
| `MCPanelCrossed` | `Panel` | `NeverAborted`: a wipe puts the controller to sleep in the middle of a waveform that another, further ahead or behind, has begun |
| `MCLinkHeld` | `MCLink` | `EveryCommandAnswered`: the transport's decoder holds half of a command |
| `MCLinkStale` | `MCLink` | `OneRequestOneResponse`: the numbering restarts with a boot or a token while an answer is out |

`TypeOK` of `Wake`, `Compose`, `Delivery` and `Notices` was checked on the same instances.

One constant is a choice the source leaves to a driver that is not in `src/`: `DriverWaits`,
whether a refresh waits for the last waveform. The passing run has a driver that waits;
`MCPanelTorn` is the other.

### Fairness

`Delivery`: weak fairness of each step of a running goroutine or of the device's task, of
the start of filing, and of `SendRequest`: the device syncs on its interval. IDLE reports
changes of INBOX, so it falls silent once these end (`<>[][~HandleNotify]_vars`): else
`n:*`, which always has something to return, would let notifications keep the filing mutex
for ever. Nothing is assumed of arrivals, guardians, faults, crashes or the notification path, so
`ActiveMailDelivered` rests on the periodic sync alone, as the design says it must. Faults
are bounded, so it says what happens once they stop.

`Panel`: weak fairness of the input task, time, the watchdog, the emergency handler, the
steps of a wipe and the end of a waveform. Nothing is assumed of a screen or a sync, which
may never return: that is what the watchdog is for.

`Link`: weak fairness of the device's one thread. Nothing is assumed of the host or the
bridge.

## 4. What is proved

The theorems hold for every value of the constants the named assumptions allow: the types
of the constants, and where stated one condition more. The bounds of the models (`MaxFaults`,
`MaxVersion`, `MaxNow` and the like) are constants too, so they limit no theorem. Every
inductive invariant was checked with TLC on the instance of its component's run before it
was proved.

| module | theorem | statement |
|---|---|---|
| `OutboundProofs` | `TypeCorrect`, `FormatTypeCorrect` | `Spec => []TypeOK`, `FormatSpec => []TypeOK` |
| | `NothingLostInductive`, `NoLetterLost`, `AcksAreTrue` | `Spec =>` `[]NothingLostInv`, `[]NothingLost`, `[]SentMeansTaken` |
| | `PromiseInductive`, `PromiseKept` | `Spec => []PromiseInv`, `Spec => KeepsThePromise` (the refinement of `OutboxPromise`) |
| | `OnceInductive` | `Serial => (Spec => []OnceInv)` |
| | `RepeatsExcused`, `OneAnswerEach` | `Serial => (Spec => [](Remembers => ...))` of `RepeatsAreExcused`, `OneTerminalAck` |
| `NoticesProofs` | `NoticesInductive`, `NoticesAreTrue`, `SecondLettersExcused` | `Spec =>` `[]NoticesInv`, `[]TrueNotice`, `[]SecondLetterExcused` |
| | `CleanStartOwesNothing` | `Spec => NothingOwed` |
| `WakeProofs` | `WakeInductive`, `TokensOnce`, `CoverTells` | `Spec =>` `[]WakeInv`, `[]TokenOnce`, `[]CoverFollowsStore` |
| | `DoorbellsSpaced` | `Spec => DoorbellSpacing` |
| | `SchedulesKept` | `Spec => []ScheduleKept` |
| `PanelProofs` | `PanelInductive`, `SleepsCovered`, `RailCutLast` | `Spec =>` `[]PanelInv`, `[]RevealsNothing`, `RailLast` |
| | `PressesAnsweredOnce` | `Spec => OnePressOneEvent` |
| `LinkProofs` | `LinkInductive`, `AnswersWhole`, `HaltKept` | `Spec =>` `[]LinkInv`, `[]WholeOrNothing`, `HaltHolds` |
| | `AnswersBelong` | `Spec => [](StaleExcused \/ WentRound)` |
| `DeliveryProofs` | `DeliveryInductive`, `CursorNeverAhead` | `Spec => []DeliveryInv`, `Spec => []CursorCovers` |
| | `CursorNeverFalls`, `EvictedNeverReturns` | `Spec => CursorRises`, `Spec => EvictedStaysGone` |
| | `FilingInductive` | `Spec => [](DeliveryInv /\ FilingWork)` |
| | `RemovedNeverSent`, `HistoryNeverLeaves` | `Spec => []RemovedStaysOut`, `Spec => HistoryStays` |
| `ComposeProofs` | `ComposeInductive`, `WordsKeptAlways`, `OneCopyAlways`, `LockGuards` | `Spec =>` `[](ComposeInv /\ Named)`, `[]WordsKept`, `[]OneCopy`, `[]GuardedScreens` |

### Outbound letters

`Spec` is the life of one letters partition; `FormatSpec` adds `Format`. Overlapping
requests need no hypothesis but in the last three theorems: the others hold for any finite
set of goroutines.

`NothingLost` is not inductive: the step that erases a letter is `Resolve`, and nothing in
`NothingLost` says that the "sent" it acts on is true. The strengthening is
`SentMeansTaken`: every "sent" that exists anywhere (told, on its way, in the ring, on
disk, in any goroutine's copy) is true of every copy of a letter under that id. To keep it
when an ack is recorded one needs `VerdictTrue` (a verdict "sent" about to be recorded is
about a letter the relay took) and `IdsAgree` (one id, one letter); to keep those when a
letter is written, `IdsFresh` (the next id is above everything in use, in RAM, on flash,
or known to the server). These are not theorems of `FormatSpec`: `outbound_reused_ids` is
the counterexample.

The refinement maps the bag to the letters with a queued file that RAM does not call
rejected, what came back to the child to the other letters on flash (the file says
rejected, or RAM has no queued entry for it), and delivery to what the relay took at least
once. A step of `Outbound` can take a letter out of the bag in three ways (its file goes,
its entry goes, its entry is rejected) and the promise allows it only with the relay's word
or back to the child. `PromiseInv` says what rules the other cases out: one entry per id in RAM and on
flash (`OneEach`), one id per letter (`Numbered`), and an entry that is queued, or that an
ack may still reach, has its file or is with the relay (`EntriesBacked`). The clause
leaves out exactly the rejected entry whose discarding was reported failed after its file
had gone.

`RepeatsAreExcused` and `OneTerminalAck` need two conditions, which are the hypotheses.
`Serial`: one request at a time, for two that overlap each ask a ring that does not have
the other's answer (`MCOutboundTwoAcks`). `Remembers`: the ring has room for every local id
there has been (`AckRingSize` is 4,096), for what the ring has evicted is sent and answered
anew (with two letters and a ring of one entry TLC finds both properties violated). `OnceInv` has two parts. `RingWork`: the ring holds one entry per id and everything
that was ever told; `state.json` holds at least that, so a crash only adds; the handler's
copy is the ring itself, and what it is about to record is not in it. That nothing is
evicted is a count: distinct ids up to `highWater` are at most `highWater`
(`DistinctLength`). `SentOnce`: a letter that was taken once more than excused is in the
ring, or about to be recorded, under every id a copy of it has, so that no copy is sent
again; a recording that fails, or is cut off by a crash, is itself an excuse.

### Notices

`NoticesInv` adds to the three properties who may be at work in each phase of the server
(`Phases`), that a change has no letter and no pending entry before its goroutine comes to
it (`Fresh`), that a list names a change twice only with an excuse (`Single`), and what a
startup without an error has settled so far (`Settling`). `NothingOwed` is about one step,
and follows from `Settling` at that step.

### Wakes

`Boot` ties the locals of a boot to the clocks, `Window` the doorbell limiter to the last
doorbell and the last power cut, `Glass` the mirror to what was drawn, `Tokens` the
accepted counters to the high-water mark in NVS. An uptime that starts again only moves the
limiter's window further away, so `Window` needs no clock that runs on. `Schedule` needs
none for the letters that wait and for the attempt after a loss of power; for the interval
it does, and says so (`hist.restarted`): with a clock that starts again at every wake the
claim without that clause is false (`MCWakeClock`). The set of intervals a server may push
is any finite non-empty set.

### The panel and the keys

`PanelInv` follows the two wipes call by call: what each call that is left requires of the
panel (`GracefulAt`, `EmergencyAt`), and that no wipe begins twice (`Turns`). Up to three
wipes may be under way, each let in by a wait of one above it, or interrupted by it. Only the
one that leads counts, that of the highest context (`Progress`): a wipe below it that gets
the processor while it waits either waits itself, or draws, parks or sleeps, which is
`crossed`. A higher one may take over anywhere, also when the controller is asleep
already, which is why both allow `Resting` at each of their calls. `CutsParked`, that a
wipe which has parked the panel finds it parked, holds of every wipe, crossed or not, so
the first half of `RailLast` has no exception. `KeysInv`, for the
key source, says that a settled cap has had its event (`NowServed`), and that the cap
before it can come back in a bounce only with its event owed (`WasServed`).

### The cable

`Genuine` says that only cells of frames that were written are on the cable and in the two
decoders, and that a response carries the number of its request; `Fits` relates the
distance of two requests to the distance of their numbers modulo 65,536. `AnswersBelong`
has one disjunct more than the property the run checks: the exact statement for any length
of a session must allow for the 16-bit counter to go round (`usbbridge.h:94`), which the
run's bounds do not reach. That it is no more than a boot or a new token that makes an
answer stale otherwise is `MCLinkStale`'s subject.

### Inbound letters

`CursorCovers` speaks of the cursor on flash, and is not inductive: nothing in it says that
the cursor an answer brings is as good. `DeliveryInv` follows the claim back along the way
a cursor comes. `Answered`: what INBOX holds at or below the cursor of the answer being
applied is stored, let go, or still in that answer. `Derived`: the same of the handler, up
to the letter it derived last, and with the letters fetched but not derived yet, in order,
up to each of them; `FetchNoGap` and `WindowNoGap` are the two reads that establish it, and
need INBOX to be in the order of its UIDs (`InOrder`, which `KeptOrdered` carries over a
MOVE). Mail goes on arriving meanwhile, so `Boundaries` keeps every boundary below the next
UID, or in an earlier UIDVALIDITY. A repeat that is dropped counts as stored, for which the
rings may hold nothing but stored letters (`RingsAreGot`). Filing and the guardian come in
by one lemma: they leave the sync alone and move mail only as `MailMoved` says
(`AroundStep`, `QuietStep`).

`EvictedStaysGone` has an exception that the proof asked for and TLC confirmed with three
letters and two faults (two letters if the ring holds one): `FileSeenRing::Add` pushes to
the RAM ring, and drops its oldest id, before it appends to the file. After an append that
failed a full RAM ring has forgotten an id the file still has, and an evicted letter under
that id is stored again when a cursor that was not written makes the server repeat it.
`RamAhead` says that this is the only case. `CursorRises` speaks of the letters the boundary
is above and not of its number, for `n:*` may bring the number down to the last letter that
is left in INBOX. `Rising` follows the claim along the way of a cursor, as `Derived` and
`Answered` do: whatever is fetched above a boundary, or named again at it, is above all that
the boundary is above (`NotBelow`).

`FilingWork` is what `RemovedStaysOut` and `HistoryStays` share: a letter lies in one place
(`OnePlace`), what a pass lists is still in INBOX where it was found (`PassWork`), the
handler waits for a pass of its own, made with the cursor it was asked with
(`HandlerWork`), and the contact table is one (`IsTable`). It needs no hypothesis.

`RemovedStaysOut` follows a sender who is shut out through one request (`SweptAbove`):
while the handler reconciles, what such a sender sent above the cursor is on the pass's
list, or came after the pass had listed INBOX (`late`); after that, what is above the cursor
from one of them is late. So is what is fetched and what is derived from it, but for the
message `n:*` names at or below the cursor, which the device or an earlier sync had met
(`Passed`: that is `CursorCovers`, by `DeliveryInv`). Senders come into `shutOut` only with
new mail, and a release moves only letters of the active (`ReleasesOthers`). All of it is
about the request the device waits for (`awaiting`): an answer nobody waits for is thrown
away.

`HistoryStays` is kept by keeping every settled letter out of each pass's reach
(`SettledStays`): it is filed, and behind the cursor. A sweep lists what is above the cursor
of its request, which is the one on flash, unless that one has been wiped or the mailbox
rebuilt meanwhile (`OneCursor`); so it takes a settled letter only when the boundary was lost
(`BoundaryLost`). An arrival pass lists what is above the high-water mark (`MarkKept`), and a
settled letter is at or below it, or the start that will list it is still to end (`FiledBy`):
so it takes one only before the start is through, in a rebuilt mailbox (`MarkUnset`), or as the
one message that `n:*` names when none is above the mark (`FetchedAgain`). A start or a
resync moves strangers only: the sender of a settled letter was known when it was derived,
and the table forgets no address (`FromSomebody`). The theorems have no hypothesis; the
three exceptions are in the property, each with the condition it needs, and
`HistoryNeverHeld` (`MCDeliverySweep`) is the property without them.

### The child's words

`WordsKept` allows the words to be on the open screen; the invariant must say when that is
enough. `WordsSafe`: words that are needed are in the outbox and in its file, in a slot that
the store takes for occupied, or open on the writing screen. `SlotTrusted`: words that are in
the slot and nowhere else are in a slot that is taken for occupied. `SlotIsOurs`: while a
letter is open no other letter depends on the slot, so an autosave overwrites nothing.
`Asked` is about the prompt: the entry to be taken up again is still there, a letter to be
begun has no copy. `Stepping` describes the two moments between two writes of one key.
`Copies` counts the letters with two copies: slot and entry, two entries (an `Add` that
reported failure, had its file in place, and was tried again), or an entry and the open
screen. The outbox in RAM and its files are told apart everywhere, since a write that fails
after its rename, or a removal, leaves an entry in one of them only. `Named` (words have a letter)
is carried beside it.

### Only model-checked

* Liveness (`ActiveMailDelivered`, `PutAwayAnswered`, `SagAnswered`, `CommandAnswered`):
  out of this prover's reach.
* `Ayllu`, `Pages` and the modules under them: no proofs. `Pages` compares what recursive
  algorithms compute with a reference, and `RamIsDisk` of `Ayllu` says that decoding a file
  by a fold gives back what was encoded, which `DecorationKept` needs at every boot. That is
  induction over data, which the library offers only as rules with an operator parameter
  that the provers cannot instantiate; TLC checks it on bounded inputs. Where a list matters
  in a proof above (`Sieve`) the induction is carried out by hand, from the least length at
  which a claim would fail (`SieveFacts!LeastNat`); a fold gives no such length to start
  from, since that its recursion is well defined is itself one of those rules.

## 5. What is not modelled

* utf8proc's tables (`utf8proc_data.c`, 16,925 generated lines, most of the firmware's
  source) are data: the model takes the class of a code point as a constant. Normalisation
  and case mapping are not called by the firmware. Of the lines outside the tables about
  half are mapped; the rest is declarations, fixed strings, formatting, logging and
  includes.
* `EncodeRequest`, `EncodeKipu`, the fields of the bench's events, the wording of screens
  and notices, MIME, quote stripping and subjects: formatting and text without state.
* The modem, a stub. TLS and HTTP. A MAC matches or it does not.
* Server parts that touch neither letters nor the contact table: the doorbell's sender and
  carrier, telemetry, guardian accounts and sessions, the web shell, configuration, backup,
  user creation, the strip service. Four hazards of theirs, of the handler and of the
  session have no model: `kipu.Append` reads and rewrites a day file without a lock
  (`kipu.go:100`); a restored `state.json` has an old doorbell counter until the device
  reports what it saw (`pututu.go:264`); a request above 64 KB is refused whole
  (`syncsvc.go:299`), which depends on encoded sizes; a format that fails leaves the
  session without stores until the next boot (`session.cpp:123`).
* Tools and test benches.

Every component is listed in `PROJECT.json` with its status and reason.
