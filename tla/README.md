# Verification of the floor heating controller

TLA+ specifications of the ESP32 firmware in `src/firmware`, TLC configurations that
check them on small instances, and TLAPS proofs of what matters most for every value of
the constants. Line references are to the files under `src/firmware/main` unless they
say otherwise.

- [1. The system](#1-the-system)
- [2. What can go wrong](#2-what-can-go-wrong)
- [3. The modules](#3-the-modules)
- [4. The runs](#4-the-runs)
- [5. Fairness and time](#5-fairness-and-time)
- [6. The proofs](#6-the-proofs)
- [7. Where the code and its documents disagree](#7-where-the-code-and-its-documents-disagree)
- [8. What is not modelled](#8-what-is-not-modelled)
- [9. Plan](#9-plan)

To check a run: `tlc -config MCControl_commands.cfg MCControl.tla`; to check the proofs
of a module: `tlapm ControlProofs.tla`.

## 1. The system

A relay drives the pump of a floor heating loop from the water temperature of one
DS18B20. Everything runs in one ESP32 with three actors: the **control task** (alone on
core 1, highest priority), the **HTTP task** of `esp_http_server` (one handler at a
time), and the environment (sensor, clock, NTP, watchdog, flash, power).

| Part | State | Operations | Talks to |
|---|---|---|---|
| Pump decisions, `control_logic.c` | none, works on a `ctl_state_t` | `ctl_init`, `ctl_sensor`, `ctl_manual`, `ctl_decide` | called by `control.c` under `s_lock` |
| Control, `control.c`, `pump.c` | `s_state`, relay level, run time and start counters, heartbeat | `control_task` (a pass per second or notification, a read every 5 s), `control_manual`, `control_settings_changed`, `control_alive`, `control_status` | reads the sensor, copies the settings, drives the relay, publishes events, feeds the history and the watchdog |
| Settings, `settings.c` | three thresholds in RAM, a blob in NVS | `settings_init`, `settings_get`, `settings_set` | `settings_handler` writes, control copies, `s_mux` |
| Event log, `events.c` | ring of 50 events | `events_publish`, `events_recent` | published under `s_lock` from both tasks, read by `events_handler` without it; hands messages to home-idf for the pump and the error topic |
| History, `history.c` | rings of 1440 temperatures and packed pump bits | `history_add`, `history_copy` | fed by the control task, read by `history_handler` |
| Sensor driver, `temp_sensor.c` | the address found, a count of bad reads | `temp_sensor_read` | 1-Wire bus; called by the control task only |
| HTTP API, `api.c` | none | `pump_command`, `settings_handler`, `status`, `events`, `history` | all of the above |
| Start-up, `main.c` | none | `app_main`, `healthy` | initializes in order, verifies a new image |
| Web app, `web/app.html` | status shown, poll timer, swipe, command under way | poll, tabs, hide and show, swipe, auto chip | the HTTP API |

What makes each part correct:

- *Decisions*: overheat beats the manual command, which beats the sensor fail-safe, then
  the hysteresis, then the maintenance run; a dead sensor ends with the pump running.
- *Control*: whoever leaves the lock leaves a decision that fits the state, with the
  relay and the event log in agreement; commands and overrides end; the task is watched.
- *Settings*: the thresholds in force always keep their bounds and margins; a change
  that was confirmed survives.
- *Event log, history*: a reader gets the last N entries, in order, of one instant; the
  samples keep their pace.
- *Messages*: what somebody knows who reads only the two topics is not wrong about the
  pump when it matters.
- *Web app*: it never stops polling, and ends up showing what the controller does.
- *Sensor driver*: it and the controller agree on when a sensor is lost.

## 2. What can go wrong

`PROJECT.json` lists the hazards at their lines. The hard ones:

- **Two deciders.** README.md:38 calls the control task the only code that touches the
  relay, but `control_manual` runs `decide_locked`, and with it `pump_set`, in the HTTP
  task, between any two steps of a pass.
- **State sampled before the lock.** The pass takes its clock sample before `s_lock`,
  `control_manual` after it, so the state sees time run backwards by a second; the
  thresholds are copied twice per pass and may change between the copies.
- **Memory in the logic.** `hot`, `overheat`, `sensor_failed` and the idle clock are
  carried from read to read while commands, expiry and thresholds change around them.
- **Two counts of the same bad reads**, in `temp_sensor.c` and in `ctl_state_t`.
- **Bounds in seconds** that hold only because of scheduling: end of an override, the
  fail-safe, the watchdog against the heartbeat, the pace of the history.
- **Failure between NVS write and commit**, a boot that cannot read what is stored, and
  restarts anywhere.
- **Rings** at their wraps, and a saturating `uint8_t`.
- **Readers without the lock**: `events_recent` takes only the spinlock of the ring, so a
  list may end in the middle of a decision's events.
- **Messages chosen by reason**: `notify` looks at the reason before and after, and each
  of the many ways into overheat and fail-safe must still leave the right last message.
- **Answers out of order**: the page has a poll and a command in flight, several polls
  after a hide and show, and any of the answers may come last or never.

## 3. The modules

| Module | Models | Extends |
|---|---|---|
| `ControlLogic` | the pure operators of `control_logic.c` | |
| `Control` | `control_task`, `control_manual`, the notification, relay, clock, watchdog, resets | `ControlLogic` |
| `ControlRuntime` | `count_runtime_locked` and the start counters, NTP and midnight | `Control` |
| `Pump` | abstract: a pump that changes in one step and keeps a command for its time | |
| `TempSensor` | `temp_sensor.c` joined to `ctl_sensor`, sensors coming and going | `ControlLogic` |
| `Settings` | `settings.c`, `settings_handler`, NVS | |
| `Thresholds` | abstract: thresholds that change in one step | |
| `EventLog` | the ring of `events.c` and its reader | |
| `Device` | the decisions of both tasks, the events they publish into the ring, the messages handed over | `ControlLogic`, `EventLog` |
| `AppPage` | the page of `app.html` and the HTTP handlers it talks to | `Device` |
| `History` | the rings of `history.c` and their reader | |
| `HistoryPace` | the passes of the control task that feed the rings | `History` |
| `RecentLog` | abstract: a log of the last N entries | |
| `MCControl`, `MCRuntime`, `MCSettings`, `MCTempSensor`, `MCDevice`, `MCAppPage`, `MCHistory` | instances for TLC | |
| `LogicProofs`, `RingLemmas` | lemmas on decisions and on rings | |
| `ControlProofs`, `TimingProofs`, `SettingsProofs`, `TempSensorProofs`, `DeviceProofs`, `HistoryProofs` | theorems | |

An operator whose comment begins "Bug:" is a plausible mistake in the definition after
it. No specification uses it; putting it in that definition's place makes a property
fail, which shows that the property depends on the code.

### Control

A pass of `control_task` is cut where another task can run between two statements:

| Action | Code | |
|---|---|---|
| `BeginPass` | control.c:130-136 | wakes on a notification or after its second, samples the clock, sees whether a read is due |
| `ReadSensor`, `Hang` | 137-138 | the read returns and the clock is sampled again; or it never returns |
| `TakeReading` | 141-148 | takes `s_lock`, first copy of the thresholds, `ctl_sensor` |
| `Decide` | 149-153 | second copy, `decide_locked`, heartbeat, releases `s_lock` |
| `EndPass` | 155-161 | feeds the watchdog and sleeps |
| `pump_command`, `control_manual` | api.c:176-202, control.c:197-214 | clamps, samples the clock, refuses or decides, in one locked section |
| `settings_set` | settings.c:65-69 | the thresholds change without `s_lock` |
| `NotifyTask` | control.c:219-225 | after the lock is released |
| `Tick`, `WatchdogReset`, `PowerCycle` | events.c:28, sdkconfig.defaults:22 | time; resets that lose the RAM |

`decide_locked` is one operator, used by both callers: the state after `ctl_decide`, the
relay (`pump_set` on a change; the control task also repairs a level that does not
agree), and what the published events say. `reported` is what somebody who reads every
event believes of pump, overheat and sensor, and whether any event repeated the one
before it of its kind. `lastOff` is a history variable.

`Pump` is what whoever looks at the controller while nobody decides may believe: one
step per command, pass or restart, in which overheat, fail-safe and command change
together with the relay that obeys them; a command that nobody shortens or changes but
an overheat or another command, and that is over 4 s after its time at the latest. Its
variables are mapped to `reported` (what was announced of overheat and sensor), the
command fields of `s_state` and `relay`: the announcement is made with the decision, so
a reading that has not been decided about yet is not seen. `settings_set`, the reading
and the notification are stutters.

`changed_s` of `ctl_state_t`, which is only reported, and the texts of events and logs
are left out. Temperatures and times are scaled down for TLC and arbitrary integers in
the proofs.

### ControlRuntime

Adds the counters of `count_runtime_locked` to every step of `Control` that calls it.
They are modulo `UINT32_MOD`, as the cast at control.c:78 makes them. `onTime` and
`sinceCount` are history variables: the seconds the relay was really on, up to the last
count and since. The clock counts them and no guard of the code enters them. So are
`started`, the starts of this boot, as each run may cost `RuntimeTracksRelay` a second,
and `ranEarly`, that the pump ran in the first second of the boot. A last tick of 0 is
taken for none (control.c:77), so of such a pump everything is lost that passes until the
first count with another sample: a pass and its sleep, or all the time until the watchdog
if that pass hangs, `BootLoss` at most and once in a boot.

### TempSensor

A read of the driver and the `ctl_sensor` after it are one step (the control task is the
only caller); the set of sensors that answer changes between reads, several at once if
need be. `source` remembers which sensor the last good reading came from and `quiet` how
many reads the bus has been left alone for.

### Settings and Thresholds

A request is JSON with any of the three thresholds; what is missing is filled from the
thresholds in force. The handler and `settings_set` are cut between copy, apply, write,
commit and answer. NVS may fail at each call, those of a boot (`LoadFails`) included, and
after a failed or interrupted commit either blob may be found. Restarts may happen
anywhere; the partition may be erased. Blobs that another version wrote under other
bounds are among the initial ones. `Thresholds` is what the rest of the firmware may
believe: thresholds change in one step, and a restart comes back with one of the `durable`
ones, or, if it cannot read them, with the defaults (`Unread`), forgetting nothing.

### EventLog, History and RecentLog

Every access to a ring is one critical section of a spinlock and therefore one step. The
slots, the head and the count are the code's; so are the packed pump bits (a byte is the
set of its bits; `BYTE` and the ring size are chosen so that the last byte is partly
used). Both implement `RecentLog`, the log of the newest entries; the history variable
`given`, the entry last handed in, ties what is stored to what was asked to be stored.

`HistoryPace` is the control task as far as it feeds the history: a pass that reads the
sensor samples the clock three times (before the conversion, after it, and once more in
`history_add`), and the second sample decides whether the third is taken down. `taken`
is a history variable, the time of each sample in the ring.

### Device

`Device` is the controller as its clients see it. Whoever reads the control state takes
`s_lock`, so the locked section is one step here (`Pass`, `Command`); `Control` has its
inside. The events it publishes go to `outbox` and are published one by one (`Publish`),
since `ListEvents`, the reader of the ring, does not take the lock; the lock is free
again when the outbox is empty. `ToldAfter` is `notify` of events.c: `told` is the pump's
state in the last message that says anything about it, on either topic. A message counts
as told when it is handed to home-idf; whether and when that delivers it, and its pause
between two equal errors, are outside the repository. Entries of the ring are numbers,
which tells any two apart.

### AppPage

| Action | Code |
|---|---|
| `TimerFires`, `OpenTab`, `LateRefresh`, `Show` | the callers of `refresh()`, app.html: the poll timer, the tabs, an accepted update check and the 8 s after a reboot (468-473), the page shown again; each clears the timer it knows and asks for the status |
| `PollAnswered`, `PollFails` | the two ends of `refresh()`; both set the next timer unless the page is hidden |
| `Hide` | `visibilitychange`: nothing but the flag that `refresh()` looks at |
| `Slide`, `Fire` | the swipe: allowed by the status at its start, fired on the status at its end |
| `AutoChip`, `CommandAnswered`, `CommandFails` | `command()`; it may fail before or after it was executed |
| `status_handler`, `pump_handler`, `AnswerCommand` | api.c: one handler at a time; a command is answered with the status as it is when the lock has been taken a second time |
| `Restart` | the handler in progress dies with the device; requests that wait are sent again or fail |

Two polls may be in flight, and a timer whose number was overwritten (`strays`) can no
longer be cleared; the model keeps both. The strays fire first, as all poll timers have
the same delay; `LateRefresh` may come at any time, as the 8 s timer is none of them. Of
the status it has what the page compares and acts on.

## 4. The runs

| Run | Shows | Bounds, and why they are enough |
|---|---|---|
| `commands` | decision, relay and event log agree outside the lock, and no event repeats the one before it; overheat wins; hot and cold water under any mix of thresholds; the tasks implement `Pump` | readings cold, between or hot, and critical; two threshold sets; durations below and above the clamps; 4 s, two reads with a pass between, enough for the two bad reads of the fail-safe and for overrides to expire |
| `timing` | overrides end in time; the maintenance run starts in time and not early | 7 s against an idle interval of 2 s and overrides of 1 s: every deadline plus its slack lies inside |
| `sensor` | type invariant, fail-safe and its deadline, watchdog and heartbeat, a hung task is reset (liveness) | 15 s: deadline 10 s, watchdog 5 s, both reached and repeated |
| `counters` | run time follows the relay to a second for each run; the first synced day keeps what was counted since boot | one start, two day changes (sync and midnight), 4 s; that a run of the first second may lose `BootLoss` takes longer and is left to the proof |
| `settings` | bounds and margins, confirmed changes survive, refinement of `Thresholds` | the numbers of config.h; requests rejected, below, rounded to and above the bounds; a legacy blob that breaks every bound |
| `probe` | driver and fail-safe agree on a swapped sensor | the numbers of config.h; two sensors, values at and outside the range and the power-on value |
| `events` | refinement of `RecentLog` under both tasks; an overheat is told | ring of 2 and 5 events: empty, partly filled, full and wrapped, and a decision of three events read in the middle; cold, warm and critical water, all ways into overheat |
| `history` | refinement of `RecentLog`; a sample never starves and the ring covers the span it claims | ring of 3 with bytes of 2 bits: a wrap inside a byte; period 3 s, reads every 2 s: not a multiple, so samples drift; 15 s fill and wrap the ring |
| `page` | polling never dies; the page catches up (liveness) | two polls and a command in flight, three events or boots; two polls are enough for overtaking, a stray timer and a second chain |
| `stale_thresholds`, `wrap`, `topics` | the disagreements of section 7; each ends in a counterexample | |

`settings` and `probe` run with the numbers of `config.h`; the other runs scale times and
temperatures down and keep their order.

`MaxTime` bounds the clock of one power cycle; power cycles are unlimited. The other
bounds are `MaxDay` (day changes) and `MaxStarts` (commands that may start the pump per
boot), both in `ControlRuntime`, `MaxEvents` (events and boots) in `Device`, `MaxPolls` and
`MaxOrders` in `AppPage`, `MaxBlobs` in `Settings`, and the saturation of `quiet` in `TempSensor`, above anything a
property asks for. Deadlock is
checked in every run: a power cycle is always possible, so what would really stand still
is caught by `OverrideEndsOnTime`, `DeadSensorNoticedInTime` and `HungTaskIsReset`.

The slack in these timed properties is tight. A second less and TLC finds a trace. (Not in
`BootLoss`: with a hung pass in the first second TLC reaches `TASK_WDT_TIMEOUT_S + 1`, the
proof gives `TASK_WDT_TIMEOUT_S + 2`.)

- An override ends within **4 s** of its time: the pass that sampled the clock just
  before, its lock, its sleep, the next pass.
- The fail-safe runs the pump within `SENSOR_FAIL_READS * (CONTROL_READ_PERIOD_S + 2) + 2`
  seconds of the last good reading, 23 s for the real constants.
- The maintenance run starts at most a second early and at most 4 s late.
- A history sample is at most `HISTORY_PERIOD_S + CONTROL_READ_PERIOD_S + 3` s old.

What the runs taught about the code:

- `control_alive()` is never seen false by a client: the watchdog (10 s) resets the task
  before three read periods (15 s) have passed.
- A manual stop beats the sensor fail-safe. That is documented and tested, and the reason
  why `DeadSensorRunsPump` excepts it.
- The `EV_MANUAL_END` event for "overheat" in `decide_locked` is dead code
  (`StoppedByHandIsOff`): a stop dropped by an overheat always switches the pump.
- A sensor swapped for another always passes through the fail-safe, because driver and
  controller use the same `SENSOR_FAIL_READS`. With a driver that gave up one read
  earlier the readings would change their sensor silently.
- The start threshold wins: `sanitize` moves stop and critical around it, never it.
- After a failed save the answer is 500, but the new thresholds are in force until the
  next restart.
- After a boot that could not read NVS the defaults are in force, and the stored thresholds
  come back at a later restart. A request for one threshold is merged with the defaults
  meanwhile, and saved with them over the other two.
- A pump that is on in the first second after boot is not counted until the first sample
  that is not 0.
- A restart resets the idle clock of the maintenance run.
- Samples of the history are 60 to 66 s apart, never less than the period but for the one
  second of the third clock sample. The chart places them exactly 60 s apart
  (app.html:399), so its old end may be off by up to two hours.
- An overheat is told whatever the pump did before: the error topic tells it each time,
  and no message that says "off" can follow before it ends.
- A page hidden and shown again while a poll is in flight has two polls side by side. The
  second one to end overwrites the timer of the first, which can no longer be cleared but
  fires first and clears the other: the two chains become one, never none.

## 5. Fairness and time

Time is in whole seconds. `Tick` cannot pass `due`, the second by which the task's
current activity is over: it runs alone at the highest priority of its core, a conversion
takes 750 ms, the lock is held for microseconds, and the sleep is one second of FreeRTOS
ticks. So every activity may see the clock move once, and a pass with its sleep takes at
most 4 s. A hung driver lifts that limit. It is the only unbounded wait in the task.

`FairSpec` assumes weak fairness of the control task, of the clock and of the watchdog
interrupt. The first two are FreeRTOS and the hardware timer; the third is
`CONFIG_ESP_TASK_WDT_PANIC` (sdkconfig.defaults:22-26). No fairness is assumed of
clients, of a driver that hangs, or of power failures. The timed properties other than
`HungTaskIsReset` are safety properties over the bounded clock.

`PFairSpec` assumes weak fairness of the lock's release (`Publish`), of the browser's
timers, of the end of a command (with an answer or without: a browser gives up on a
request) and of the HTTP task, which takes its sockets in turn; and strong fairness of
an answered poll: of the polls sent again and again one comes through at last. Nothing
obliges the user, the sensor or the clock, and nothing has to go on failing. "The
controller comes to rest" is `MaxEvents`: when the events are used up no pass and no
command changes anything, and until then it may change as often as the bound allows.

## 6. The proofs

All theorems hold for every value of the constants that meets the named assumptions:
`LogicAssumption` (counts and intervals are positive, the fail-safe threshold fits the
saturating counter), `ControlAssumption`, `ThresholdsOrdered` (stop below start, and an
overheat that clears only above start), `SettingsAssumption`, `BoundsAssumption` (the
order of the bounds in `config.h`), `SensorAssumption`, `WatchdogAssumption` (a watchdog
of more than the 4 s of a pass and its sleep, and of less than three read periods; 10 s
and 5 s in the code), `RuntimeAssumption`, `DeviceAssumption`, `EventLogAssumption`,
`HistoryAssumption`, `PaceAssumption`, `PageAssumption`. TLC evaluates each in some run.
`SafeThresholdsAreOrdered` shows that sanitized thresholds satisfy `ThresholdsOrdered`
when the overheat hysteresis is smaller than the critical margin (2 C and 5 C in the
code), which joins the two parts.

**LogicProofs** has the lemmas on `control_logic.c` that the others share: types, what a
decision keeps and makes, what a bad and a good reading do to the count.

**ControlProofs.** `ControlTypes` is the type invariant, with the lock discipline and
the saturation. The safety properties are not inductive: between `TakeReading` and
`Decide` the state holds a new reading and an old decision, and the interesting facts
must be carried over that gap. `IInv` is therefore

- `DecisionIsCurrent` and `StoppedByHandIsOff` themselves, and that no stop is pending
  under overheat while the lock is free;
- `FailSafeExact`: `sensor_failed` exactly from `SENSOR_FAIL_READS` bad reads on;
- `HysteresisExact`: `hot` and `overheat` agree with the last reading as far as *every*
  threshold set in use decides it. This carries "hot water" through threshold changes
  that come between two copies in one pass;
- `LogComplete`: what the log says, but for the changes the reading in progress has put
  into `r`, is the state, and it repeated nothing; and `ResultExact`: `r` says nothing else.

`InitIInv`, `NextIInv` (one step per action; `TakeReadingIInv` and `DecideLockedIInv` do
the work for the reading and for both users of the locked section) give
`ControlInvariant`, from which `DecisionsAreCurrent`, `OverheatWins`, `StopMeansOff`,
`FailSafeRunsPump`, `HotWaterIsPumped`, `ColdWaterStands` and `LogIsComplete` follow.

**SettingsProofs.** `sanitize` makes safe thresholds of any numbers, keeps safe ones and
keeps an allowed start. The invariant adds to the properties that a handler between
write and commit holds the thresholds in force, and that no answer is out yet; a boot
(`BootedIInv`) brings it about whether it could read the blob or not. It proves
types, `SettingsAlwaysSafe`, `SavedChangesSurvive`, the action property
`StartThresholdWins`, and that `Settings` implements `Thresholds` step by step.

**TempSensorProofs.** The invariant says that the driver's count never runs ahead of the
controller's, that outside the fail-safe the driver still has the sensor it read last,
and how many reads a missing sensor can still cost. It gives `SensorTypes`,
`SourceChangesAreNoticed` and `SwapsAreFound`.

**TimingProofs** proves the timed bounds of `Control` for all periods. Each is a race
between a deadline and the control task's activities, and none is inductive: the bound
holds because the activity under way must be over by `due`, and the next ones last at
most so long each. `TInv` therefore bounds, for every place `pc` a pass can be at, how
far `due` and the clock samples of the pass may be from the deadline in question: the
heartbeat and the watchdog (`WatchdogIsPatient`, `ControlStaysAlive`), the end of an
override (`OverridesEnd`), the next read and the count of bad reads (`DeadSensorIsNoticed`:
each read missing from `SENSOR_FAIL_READS` may still cost a read period and two seconds).
`IdleInv` does the same for the idle clock of the maintenance run (`PumpIsExercised`,
`MaintenanceWaits`), with the fact that the controller's idle clock is at most a second
older than the relay's.

Of `ControlRuntime` it proves that the counters never change what the controller does
(`CountersOnlyCount`: every behaviour with them is one of `Control`, so all of the above
holds with them), that the first synced day keeps what was counted (`FirstDayKept`, from
a count of day changes), and `RunTimeIsRelayTime`. The last is about a counter modulo
2^32 to which differences of clock samples are added that may be negative. `RunInv` says
that the counter is `onTime + e + k * UINT32_MOD` for some error `e` and some number of
turns `k`, and bounds `e` (`ErrorBounds`): `Lag`, by how much the last sample was behind
the clock, is 0 or 1, and a count trades the lag of the sample before for its own, so
that the error of a run telescopes to the difference of the lags of its ends. A last tick
of 0 breaks that chain, since the code takes it for none: what passes until the next count
is lost. It happens in a boot's first second, and once more when a pass that sampled the
clock then decides after a command did (`Early`). It lasts until `FirstCountBy`, as only a
count with a sample of 0 leaves a heartbeat of 0 and the watchdog resets a task that takes
no other (`TickBounds`, which needs `TInv`). `Lost` adds up what these two may cost a boot,
`BootLoss` at most, and only one with `ranEarly`.

`ControlIsPump` is the refinement of `Pump`, step by step: `DecideIsPass`,
`RequestIsCommand`, `BootRests`, and `PumpStep` for all of `Next`. What it needs of a
state is the conjunction of the invariants above: `IInv` for what the relay obeys and
what was reported, `TInv` for the time of a command and the age of the pass's clock
sample, and `NewsOfLiving`, that an overheat begins or ends only by a reading that also
ends the fail-safe.

**RingLemmas** has the arithmetic of rings: which slot holds the i-th newest entry, where
it goes when the head moves, with the wrap or without, and what a packed bit is after a
neighbour in its byte was written.

**DeviceProofs.** `RingIsRecentLog` is the refinement of the ring alone: a publish pushes
one entry onto the log, a copy is the log's newest entries in order, a reboot empties it.
`DeviceLogIsRecentLog` has the same of the ring inside the device. `OverheatAnnounced`
rests on `DInv`: while it is overheated no event in the outbox says that the pump stands
still, and either the last message already says that it runs or one in the outbox will.
That needs `ctl_decide` to keep overheat above every reason
with an "off" message.

`PageKeepsDevice` shows that the page, its lost and repeated requests included, makes the
device do nothing that module `Device` does not allow, so that
`OverheatAnnouncedWithPage` follows. `PagePolls` proves `PollingNeverDies` for every
number of polls. It is not inductive, as a timer that fires could find no free place for
its poll: `PollInv` adds that polls in flight, strays and the named timer together never
exceed `MaxPolls`, which is a count of a set from which each step takes or to which it
adds one element (`PlaceTaken`, `PollBegins`, `PollEnds`).

**HistoryProofs.** `HistoryIsRecentLog` maps two rings with different packing to one log.
`PaceInv` bounds, for each part of a pass, its samples of the clock and the time it may
take from the newest sample of the history on, and says how old each sample will at least
be when the next one is due; it gives `HistoryIsFresh` and `RingSpansItsSamples`.

Left to TLC alone: `HungTaskIsReset` and `StatusCatchesUp`, as liveness is out of the
prover's reach. Every other property of a passing run is stated by a theorem.

## 7. Where the code and its documents disagree

- **Threshold changes are not applied on the next decision** (`stale_thresholds`).
  control.h:35 promises "applied on the next decision (immediately)". The change wakes
  the task, but `hot` and `overheat` are only recomputed by a sensor read, so for up to a
  read period the pass it wakes decides from the old comparison. For the same reason a
  manual stop is accepted for up to a read period after the critical threshold was
  lowered below the water temperature, where README.md:152 promises `409 overheat`.
- **The run time can wrap** (`wrap`). `control_task` samples the clock before the lock. If
  `control_manual` starts the pump in the next second while the task waits for the lock,
  `(uint32_t)(now_s - s_last_tick_s)` at control.c:78 is 2^32 - 1. Usually the next count
  makes it good; if the pump had not run before, the status shows 4294967295 until then.
- **A pump that the fail-safe runs is not always announced** (`topics`). README.md:32
  promises "pump start and stop on one topic, overheat, sensor failure and every error
  line on another", and `notify` leaves out a start by the fail-safe because "the error
  topic already has it" (events.c:78). If the pump is stopped by hand after the sensor
  failed, that stop is announced; when it is handed back to automatic the fail-safe
  starts it and neither topic says so.

## 8. What is not modelled

- Of the web app: the loading of events and history for display, the threshold buttons,
  rendering, login. What they do wrong shows on the screen only, until the next poll.
- Verification and rollback of an image (`healthy` in main.c): the deadline, the
  unverified boots and the rollback are in home-idf. `ControlStaysAlive` shows that the
  control task does not make `healthy` false.
- Of the event log: `events_unix_time`, which turns a time since boot into one of the day.
- JSON of `/api/status`, chunked streaming, log texts, layout: no control in them.
- Authentication, WiFi, NTP, OTA, delivery of notifications: in home-idf and ESP-IDF,
  whose sources are not in the repository. They appear as environment steps.
- The migrator: a straight sequence of library calls that runs once.
- Two handlers at once: `esp_http_server` runs one at a time, on which the read, merge and
  write of `settings_handler` relies.
- Host tests, screenshots and release scripts: no behaviour of the controller.

## 9. Plan

Done, in this order: the decision logic; the control task with commands, relay and log,
its counters, settings, rings, pace and sensor driver; the safety theorems of control,
settings and driver; the rings fed by the task that feeds them; the messages of the two
topics; the web page against the device; the proofs of the rings, the pace and the timed
bounds; the run time, the page's polling, and the abstract pump that the tasks implement.

Left, should the code grow that way:

1. `TempSensor` composed with `Control`: the deadline of the fail-safe after a swap, with
   the rescan in it. Both parts use the same count of reads, so the deadline stays that
   of `DeadSensorIsNoticed` as long as a scan fits into a pass.
2. The threshold buttons of the page, whose clicks add to the last status it has.
