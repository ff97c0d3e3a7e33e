--------------------------- MODULE ControlRuntime ---------------------------
(***************************************************************************)
(* Module Control with the counters of control.c for the status report:    *)
(* run time and starts, since boot and of the local day.  They are written *)
(* in the same locked section as the decision, from the clock sample that  *)
(* section was entered with, and read by no decision.                      *)
(***************************************************************************)
EXTENDS Control

CONSTANTS
  UINT32_MOD,      \* the counters are uint32_t: they wrap at this value
  MaxDay,          \* bound on the local days of one power cycle
  MaxStarts        \* bound on the starts after which clients only stop the pump

ASSUME RuntimeAssumption ==
  /\ UINT32_MOD \in Nat \ {0}
  /\ MaxDay \in Nat
  /\ MaxStarts \in Nat

VARIABLES
  s_last_tick_s,
  s_today_yday,        \* the day the today counters are of, -1 before NTP sync
  s_runtime_today_s, s_starts_today,
  s_runtime_boot_s, s_starts_boot,
  yday,                \* the day localtime_r would give now, -1 before NTP sync
  onTime,              \* history: seconds the relay was on, up to the last count
  sinceCount,          \* history: seconds the relay was on since then
  started,             \* history: starts of the pump since boot
  ranEarly             \* history: it was on in the first second of the boot

counters == <<s_last_tick_s, s_today_yday, s_runtime_today_s, s_starts_today,
              s_runtime_boot_s, s_starts_boot>>
history == <<onTime, sinceCount, started, ranEarly>>
rvars == <<vars, counters, yday, history>>

-----------------------------------------------------------------------------

\* Bug: the tick is kept only while the pump runs.
LastTickWhileOn(now) == IF s_state.on THEN now ELSE s_last_tick_s

LastTick(now) == now

\* Bug: the first synced day starts at zero.
NewDayAtSync == yday >= 0 /\ yday # s_today_yday

\* The today counters restart, except when the day becomes known for the first time.
TodayRestarts == yday >= 0 /\ yday # s_today_yday /\ s_today_yday >= 0

SecondsCounted(now) == IF s_state.on /\ s_last_tick_s > 0 THEN now - s_last_tick_s ELSE 0

StartsCounted == IF ~s_state.on /\ s_state'.on THEN 1 ELSE 0

\* count_runtime_locked, before the decision, and the starts decide_locked adds after it.
count_runtime_locked(now) ==
  LET today(n, d) == ((IF TodayRestarts THEN 0 ELSE n) + d) % UINT32_MOD
  IN /\ s_today_yday' = IF yday >= 0 THEN yday ELSE s_today_yday
     /\ s_runtime_today_s' = today(s_runtime_today_s, SecondsCounted(now))
     /\ s_starts_today' = today(s_starts_today, StartsCounted)
     /\ s_runtime_boot_s' = (s_runtime_boot_s + SecondsCounted(now)) % UINT32_MOD
     /\ s_starts_boot' = (s_starts_boot + StartsCounted) % UINT32_MOD
     /\ s_last_tick_s' = LastTick(now)
     /\ onTime' = onTime + sinceCount
     /\ sinceCount' = 0
     /\ started' = started + StartsCounted
     /\ ranEarly' = (ranEarly \/ (relay' /\ clock <= 1))

ClearCounters ==
  /\ s_last_tick_s' = 0
  /\ s_today_yday' = -1
  /\ s_runtime_today_s' = 0
  /\ s_starts_today' = 0
  /\ s_runtime_boot_s' = 0
  /\ s_starts_boot' = 0
  /\ yday' = -1
  /\ onTime' = 0
  /\ sinceCount' = 0
  /\ started' = 0
  /\ ranEarly' = FALSE

-----------------------------------------------------------------------------

RInit ==
  /\ Init
  /\ s_last_tick_s = 0
  /\ s_today_yday = -1
  /\ s_runtime_today_s = 0
  /\ s_starts_today = 0
  /\ s_runtime_boot_s = 0
  /\ s_starts_boot = 0
  /\ yday = -1
  /\ onTime = 0
  /\ sinceCount = 0
  /\ started = 0
  /\ ranEarly = FALSE

DecideCounted == Decide /\ count_runtime_locked(now_s) /\ UNCHANGED yday

ManualCounted(m, d) ==
  /\ m # "stop" => started < MaxStarts
  /\ pump_command(m, d)
  /\ count_runtime_locked(clock)
  /\ UNCHANGED yday

TickCounted ==
  /\ Tick
  /\ sinceCount' = IF relay THEN sinceCount + 1 ELSE sinceCount
  /\ UNCHANGED <<counters, yday, onTime, started, ranEarly>>

\* NTP synchronizes, or local midnight passes.
NewDay == yday < MaxDay /\ yday' = yday + 1 /\ UNCHANGED <<vars, counters, history>>

Uncounted ==
  /\ \/ BeginPass
     \/ \E rd \in Readings : ReadSensor(rd)
     \/ TakeReading
     \/ EndPass
     \/ \E c \in SettingsValues : settings_set(c)
     \/ NotifyTask
     \/ Hang
  /\ UNCHANGED <<counters, yday, history>>

RNext ==
  \/ DecideCounted
  \/ \E m \in Manual, d \in Durations : ManualCounted(m, d)
  \/ TickCounted
  \/ NewDay
  \/ Uncounted
  \/ (WatchdogReset \/ PowerCycle) /\ ClearCounters

RSpec == RInit /\ [][RNext]_rvars

-----------------------------------------------------------------------------
(***************************************************************************)
(* Properties                                                              *)
(***************************************************************************)

\* A last tick of 0 is taken for none, so what passes until the next count is lost: a
\* pass and its sleep, or all the time until the watchdog if that pass hangs.
BootLoss == TASK_WDT_TIMEOUT_S + 2

\* However the clock samples of the two tasks are ordered, the run time is the time the
\* relay was on, to a second for each run: a stale sample is made good by the next one.
\* Only a pump that ran in the first second of the boot loses BootLoss more, once.
RuntimeTracksRelay ==
  \E e \in -(started + IF ranEarly THEN BootLoss ELSE 0) .. started :
    s_runtime_boot_s = (onTime + e) % UINT32_MOD

\* "keep pre-sync runtime in the first synced day": until the second day begins, the
\* today counters are the since-boot counters, however late the clock is synced.
FirstDayKeepsBoot ==
  s_today_yday <= 0 =>
    s_runtime_today_s = s_runtime_boot_s /\ s_starts_today = s_starts_boot

-----------------------------------------------------------------------------

\* control.h:12, "local day once the clock is synced, since boot before that": the run
\* time since boot, which the status reports, never exceeds the time since boot.
RuntimeWithinUptime == s_runtime_boot_s <= clock
=============================================================================
