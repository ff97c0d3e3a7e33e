------------------------------ MODULE Settings ------------------------------
(***************************************************************************)
(* settings.c and the only caller of settings_set, settings_handler of     *)
(* api.c: a partial change of the thresholds is read, merged, sanitized,   *)
(* applied and then persisted in NVS, with a failure or a restart possible *)
(* between any two of these.  httpd runs one handler at a time, so one     *)
(* request is in progress at most; the control task may copy the           *)
(* thresholds at any step.                                                 *)
(*                                                                         *)
(* NVS is modelled by the set of blobs a restart may find: a written value *)
(* that was not committed may be lost.  A restart may also fail to read    *)
(* the blob, which then stays where it is.  Thresholds are in 0.1 C; the   *)
(* numbers in a request are in 0.01 C, so that rounding shows.             *)
(***************************************************************************)
EXTENDS Integers, FiniteSets

CONSTANTS
  START_DEFAULT_X10, STOP_DEFAULT_X10, CRITICAL_DEFAULT_X10,
  START_MIN_X10, START_MAX_X10, STOP_MIN_X10, CRITICAL_MAX_X10,
  HYSTERESIS_MIN_X10, CRITICAL_MARGIN_MIN_X10,
  JSON_MIN, JSON_MAX,      \* a number outside is ignored (exclusive, 0.01 C)
  Numbers,                 \* numbers a request may hold (0.01 C)
  Stored,                  \* blobs another firmware version may have left in NVS
  MaxBlobs                 \* bound on the blobs a restart may find

Thresholds3 == [start_x10 : Int, stop_x10 : Int, critical_x10 : Int]

ASSUME SettingsAssumption ==
  /\ START_DEFAULT_X10 \in Int /\ STOP_DEFAULT_X10 \in Int /\ CRITICAL_DEFAULT_X10 \in Int
  /\ START_MIN_X10 \in Int /\ START_MAX_X10 \in Int
  /\ STOP_MIN_X10 \in Int /\ CRITICAL_MAX_X10 \in Int
  /\ HYSTERESIS_MIN_X10 \in Nat \ {0} /\ CRITICAL_MARGIN_MIN_X10 \in Nat \ {0}
  /\ JSON_MIN \in Int /\ JSON_MAX \in Int
  /\ Numbers \subseteq Int
  /\ Stored \subseteq Thresholds3
  /\ MaxBlobs \in Nat

\* The bounds of config.h leave room for every margin.
ASSUME BoundsAssumption ==
  /\ START_MIN_X10 <= START_MAX_X10
  /\ STOP_MIN_X10 <= START_MIN_X10 - HYSTERESIS_MIN_X10
  /\ START_MAX_X10 + CRITICAL_MARGIN_MIN_X10 <= CRITICAL_MAX_X10

VARIABLES
  s_settings,     \* thresholds in RAM
  nvs,            \* blobs a restart may find
  http,           \* where settings_handler is
  form,           \* its settings_t
  answer          \* its last answer since boot

vars == <<s_settings, nvs, http, form, answer>>

-----------------------------------------------------------------------------

Defaults == [ start_x10    |-> START_DEFAULT_X10,
              stop_x10     |-> STOP_DEFAULT_X10,
              critical_x10 |-> CRITICAL_DEFAULT_X10 ]

clamp(v, lo, hi) == IF v < lo THEN lo ELSE IF v > hi THEN hi ELSE v

\* Bug: stop and critical keep their margins around the start that was asked for.
SanitizeAroundRequest(s) ==
  [ start_x10    |-> clamp(s.start_x10, START_MIN_X10, START_MAX_X10),
    stop_x10     |-> clamp(s.stop_x10, STOP_MIN_X10, s.start_x10 - HYSTERESIS_MIN_X10),
    critical_x10 |-> clamp(s.critical_x10, s.start_x10 + CRITICAL_MARGIN_MIN_X10,
                           CRITICAL_MAX_X10) ]

\* Bug: start gives way to the stop threshold.
SanitizeStopWins(s) ==
  LET stop  == clamp(s.stop_x10, STOP_MIN_X10, START_MAX_X10 - HYSTERESIS_MIN_X10)
      lo    == IF stop + HYSTERESIS_MIN_X10 > START_MIN_X10 THEN stop + HYSTERESIS_MIN_X10
                                                            ELSE START_MIN_X10
      start == clamp(s.start_x10, lo, START_MAX_X10)
  IN [ start_x10    |-> start,
       stop_x10     |-> stop,
       critical_x10 |-> clamp(s.critical_x10, start + CRITICAL_MARGIN_MIN_X10,
                              CRITICAL_MAX_X10) ]

\* The start threshold wins: stop and critical move to keep their margins around it.
sanitize(s) ==
  LET start == clamp(s.start_x10, START_MIN_X10, START_MAX_X10)
  IN [ start_x10    |-> start,
       stop_x10     |-> clamp(s.stop_x10, STOP_MIN_X10, start - HYSTERESIS_MIN_X10),
       critical_x10 |-> clamp(s.critical_x10, start + CRITICAL_MARGIN_MIN_X10,
                              CRITICAL_MAX_X10) ]

\* A member of the request that is a number, or is not there or no number.
Number(n) == [given |-> TRUE, n |-> n]
NoNumber  == [given |-> FALSE, n |-> 0]
Members   == {NoNumber} \union {Number(n) : n \in Numbers}
Bodies    == [start_c : Members, stop_c : Members, critical_c : Members]

Accepted(m) == m.given /\ JSON_MIN < m.n /\ m.n < JSON_MAX

\* Rounded to the nearest 0.1 C, halves away from zero.
Rounded(n) == IF n < 0 THEN -((5 - n) \div 10) ELSE (n + 5) \div 10

json_celsius(m, field) == IF Accepted(m) THEN Rounded(m.n) ELSE field

Merged(body, s) ==
  [ start_x10    |-> json_celsius(body.start_c, s.start_x10),
    stop_x10     |-> json_celsius(body.stop_c, s.stop_x10),
    critical_x10 |-> json_celsius(body.critical_c, s.critical_x10) ]

\* What settings_init makes of the blob in NVS, if there is one.
Blob(s) == [found |-> TRUE, s |-> s]
NoBlob  == [found |-> FALSE, s |-> Defaults]
Load(b) == sanitize(IF b.found THEN b.s ELSE Defaults)

-----------------------------------------------------------------------------

\* A boot with b in NVS, of which settings_init read r: b itself, or nothing.
Booted(b, r) ==
  /\ nvs' = {b}
  /\ s_settings' = Load(r)
  /\ http' = "idle"
  /\ form' = Load(r)
  /\ answer' = "none"

Init ==
  /\ \E b \in {NoBlob} \union {Blob(s) : s \in Stored} : \E r \in {b, NoBlob} :
       nvs = {b} /\ s_settings = Load(r)
  /\ http = "idle"
  /\ form = s_settings
  /\ answer = "none"

\* settings_handler up to its call of settings_set.
settings_handler(body) ==
  /\ http = "idle"
  /\ form' = Merged(body, s_settings)
  /\ http' = "apply"
  /\ answer' = "none"
  /\ UNCHANGED <<s_settings, nvs>>

\* Bug: the stored thresholds are reported, the ones in force stay.
ApplyMissing ==
  /\ http = "apply"
  /\ form' = sanitize(form)
  /\ http' = "write"
  /\ UNCHANGED <<s_settings, nvs, answer>>

\* settings_set sanitizes its argument and applies it: effective immediately, even if
\* persisting fails.
apply ==
  /\ http = "apply"
  /\ form' = sanitize(form)
  /\ s_settings' = form'
  /\ http' = "write"
  /\ UNCHANGED <<nvs, answer>>

\* nvs_open or nvs_set_blob fails, and the error is answered.
WriteFails ==
  /\ http = "write"
  /\ http' = "idle"
  /\ answer' = "save_failed"
  /\ UNCHANGED <<s_settings, nvs, form>>

nvs_set_blob ==
  /\ http = "write"
  /\ Cardinality(nvs) < MaxBlobs
  /\ nvs' = nvs \union {Blob(form)}
  /\ http' = "commit"
  /\ UNCHANGED <<s_settings, form, answer>>

CommitFails ==
  /\ http = "commit"
  /\ http' = "idle"
  /\ answer' = "save_failed"
  /\ UNCHANGED <<s_settings, nvs, form>>

\* Bug: answered without nvs_commit.
AnswerUncommitted ==
  /\ http = "commit"
  /\ http' = "idle"
  /\ answer' = "ok"
  /\ UNCHANGED <<s_settings, nvs, form>>

nvs_commit ==
  /\ http = "commit"
  /\ nvs' = {Blob(form)}
  /\ http' = "idle"
  /\ answer' = "ok"
  /\ UNCHANGED <<s_settings, form>>

\* A restart at any point.
Restart == \E b \in nvs : Booted(b, b)

\* nvs_open or nvs_get_blob fails, or the blob has another length: the defaults are in
\* force, and the blob is still there for the next restart.
LoadFails == \E b \in nvs : Booted(b, NoBlob)

\* A restart for which hi_nvs_init had to erase the flash.
Erased == Booted(NoBlob, NoBlob)

Next ==
  \/ \E body \in Bodies : settings_handler(body)
  \/ apply
  \/ WriteFails
  \/ nvs_set_blob
  \/ CommitFails
  \/ nvs_commit
  \/ Restart
  \/ LoadFails
  \/ Erased

Spec == Init /\ [][Next]_vars

-----------------------------------------------------------------------------
(***************************************************************************)
(* Properties                                                              *)
(***************************************************************************)

MarginsKept(s) ==
  /\ START_MIN_X10 <= s.start_x10 /\ s.start_x10 <= START_MAX_X10
  /\ STOP_MIN_X10 <= s.stop_x10
  /\ s.stop_x10 + HYSTERESIS_MIN_X10 <= s.start_x10
  /\ s.start_x10 + CRITICAL_MARGIN_MIN_X10 <= s.critical_x10
  /\ s.critical_x10 <= CRITICAL_MAX_X10

Blobs == [found : BOOLEAN, s : Thresholds3]

\* Every variable has its type, and what a request is about to store is sanitized.
TypeOK ==
  /\ s_settings \in Thresholds3
  /\ nvs \subseteq Blobs
  /\ http \in {"idle", "apply", "write", "commit"}
  /\ form \in Thresholds3
  /\ http \in {"write", "commit"} => MarginsKept(form)
  /\ answer \in {"none", "ok", "save_failed"}

\* The control task never sees thresholds that are out of bounds or without their
\* margins: not while a request is half done, not from whatever blob a restart finds.
SettingsSafe == MarginsKept(s_settings)

\* A change answered with 200 survives: until the next request, every restart that
\* can read the flash comes back with the thresholds in force.
SavedSurvivesRestart ==
  answer = "ok" => \A b \in nvs : Load(b) = s_settings

\* The start threshold wins: a request for an allowed start gets exactly that start,
\* whatever it, or an earlier request, asked of the other two.
StartWins ==
  [][apply /\ START_MIN_X10 <= form.start_x10 /\ form.start_x10 <= START_MAX_X10
       => s_settings'.start_x10 = form.start_x10]_vars

SafeThresholds ==
  {s \in [ start_x10    : START_MIN_X10 .. START_MAX_X10,
            stop_x10     : STOP_MIN_X10 .. START_MAX_X10,
            critical_x10 : START_MIN_X10 .. CRITICAL_MAX_X10 ] : MarginsKept(s)}

\* The abstract thresholds: NVS stands for what a restart would load from it.
Abstract == INSTANCE Thresholds WITH
  Safe    <- SafeThresholds,
  Default <- sanitize(Defaults),
  current <- s_settings,
  durable <- {Load(b) : b \in nvs}

\* settings.c implements them, step by step.
ImplementsThresholds == Abstract!TSpec
=============================================================================
