--------------------------- MODULE SettingsProofs ---------------------------
(***************************************************************************)
(* Theorems about module Settings, for every bound, margin, request and    *)
(* blob: the thresholds in force are safe at every step, a change answered *)
(* with 200 survives every restart that can read NVS, and settings.c       *)
(* implements Thresholds, whatever of NVS fails.                           *)
(***************************************************************************)
EXTENDS Settings, TLAPS

-----------------------------------------------------------------------------
(***************************************************************************)
(* sanitize                                                                *)
(***************************************************************************)

\* sanitize makes safe thresholds of any three numbers (settings.c:22).
LEMMA SanitizeIsSafe ==
  ASSUME NEW s \in Thresholds3
  PROVE  sanitize(s) \in Thresholds3 /\ MarginsKept(sanitize(s))
BY SettingsAssumption, BoundsAssumption DEF Thresholds3, sanitize, clamp, MarginsKept

\* It leaves safe thresholds as they are, so applying it twice is applying it once.
LEMMA SanitizeKeepsSafe ==
  ASSUME NEW s \in Thresholds3, MarginsKept(s)
  PROVE  sanitize(s) = s
BY SettingsAssumption, BoundsAssumption DEF Thresholds3, sanitize, clamp, MarginsKept

\* It never moves an allowed start threshold.
LEMMA SanitizeKeepsStart ==
  ASSUME NEW s \in Thresholds3, START_MIN_X10 <= s.start_x10, s.start_x10 <= START_MAX_X10
  PROVE  sanitize(s).start_x10 = s.start_x10
BY SettingsAssumption, BoundsAssumption DEF Thresholds3, sanitize, clamp

\* The defaults of config.h are three numbers.
LEMMA DefaultsType == Defaults \in Thresholds3
BY SettingsAssumption DEF Defaults, Thresholds3

\* A merged request is three numbers, whichever members it had.
LEMMA MergedType ==
  ASSUME NEW body \in Bodies, NEW s \in Thresholds3
  PROVE  Merged(body, s) \in Thresholds3
<1>1. ASSUME NEW m \in Members, NEW f \in Int
      PROVE  json_celsius(m, f) \in Int
  <2>1. m.n \in Int
    BY SettingsAssumption DEF Members, Number, NoNumber
  <2>2. Rounded(m.n) \in Int
    BY <2>1 DEF Rounded
  <2> QED BY <2>2 DEF json_celsius
<1>2. body.start_c \in Members /\ body.stop_c \in Members /\ body.critical_c \in Members
  BY DEF Bodies
<1> QED BY <1>1, <1>2 DEF Merged, Thresholds3

\* Whatever blob NVS holds, or none, what is loaded from it is safe.
LEMMA LoadIsSafe ==
  ASSUME NEW b \in Blobs
  PROVE  Load(b) \in Thresholds3 /\ MarginsKept(Load(b))
BY SanitizeIsSafe, DefaultsType DEF Load, Blobs

\* What a save writes to NVS is a blob that can be loaded.
LEMMA BlobTypes ==
  /\ NoBlob \in Blobs
  /\ \A s \in Thresholds3 : Blob(s) \in Blobs
BY DefaultsType DEF NoBlob, Blob, Blobs

-----------------------------------------------------------------------------
(***************************************************************************)
(* Invariants                                                              *)
(***************************************************************************)

\* Strengthening of SavedSurvivesRestart: what is about to be confirmed is in force.
FormInForce == http \in {"write", "commit"} => form = s_settings

\* A request in progress has no answer yet.
NoAnswerYet == http # "idle" => answer = "none"

IInv == TypeOK /\ SettingsSafe /\ FormInForce /\ NoAnswerYet /\ SavedSurvivesRestart

\* The invariant holds after boot.
LEMMA InitIInv == Init => IInv
<1> SUFFICES ASSUME Init PROVE IInv
  OBVIOUS
<1>0. PICK b \in {NoBlob} \union {Blob(s) : s \in Stored} :
        \E r \in {b, NoBlob} : nvs = {b} /\ s_settings = Load(r)
  BY DEF Init
<1>1. PICK r \in {b, NoBlob} : nvs = {b} /\ s_settings = Load(r)
  BY <1>0
<1>2. b \in Blobs /\ r \in Blobs
  BY <1>1, BlobTypes, SettingsAssumption
<1> QED
  BY <1>1, <1>2, LoadIsSafe DEF Init, IInv, TypeOK, SettingsSafe, FormInForce, NoAnswerYet,
         SavedSurvivesRestart

\* settings_init restores it from whatever NVS holds and whatever it could read of it.
LEMMA BootedIInv ==
  ASSUME NEW b \in Blobs, NEW r \in Blobs, Booted(b, r)
  PROVE  IInv'
BY LoadIsSafe DEF Booted, IInv, TypeOK, SettingsSafe, FormInForce, NoAnswerYet,
         SavedSurvivesRestart

\* Every step of a request, every failure of NVS and every restart preserves it.
LEMMA NextIInv == IInv /\ [Next]_vars => IInv'
<1> SUFFICES ASSUME IInv, [Next]_vars PROVE IInv'
  OBVIOUS
<1> USE DEF IInv, TypeOK, SettingsSafe, FormInForce, NoAnswerYet,
         SavedSurvivesRestart
<1>1. ASSUME NEW body \in Bodies, settings_handler(body) PROVE IInv'
  BY <1>1, MergedType DEF settings_handler
<1>2. CASE apply
  <2>1. sanitize(form) \in Thresholds3 /\ MarginsKept(sanitize(form))
    BY SanitizeIsSafe
  <2> QED BY <1>2, <2>1 DEF apply
<1>3. CASE WriteFails
  BY <1>3 DEF WriteFails
<1>4. CASE nvs_set_blob
  <2>1. Blob(form) \in Blobs
    BY BlobTypes
  <2> QED BY <1>4, <2>1 DEF nvs_set_blob
<1>5. CASE CommitFails
  BY <1>5 DEF CommitFails
<1>6. CASE nvs_commit
  <2>1. Blob(form) \in Blobs
    BY BlobTypes
  <2>2. MarginsKept(form) /\ form = s_settings
    BY <1>6 DEF nvs_commit
  <2>3. Load(Blob(form)) = s_settings
    BY <2>2, SanitizeKeepsSafe DEF Load, Blob
  <2> QED BY <1>6, <2>1, <2>2, <2>3 DEF nvs_commit
<1>7. CASE Restart
  BY <1>7, BootedIInv DEF Restart
<1>8. CASE LoadFails
  BY <1>8, BootedIInv, BlobTypes DEF LoadFails
<1>9. CASE Erased
  BY <1>9, BootedIInv, BlobTypes DEF Erased
<1>10. CASE UNCHANGED vars
  BY <1>10 DEF vars
<1> QED
  BY <1>1, <1>2, <1>3, <1>4, <1>5, <1>6, <1>7, <1>8, <1>9, <1>10 DEF Next

\* So it holds in every state.
LEMMA SpecIInv == Spec => []IInv
BY InitIInv, NextIInv, PTL DEF Spec

\* Every variable of settings.c and its handler keeps its type, and nothing unsanitized
\* is ever stored.
THEOREM SettingsTypes == Spec => []TypeOK
<1>1. IInv => TypeOK
  BY DEF IInv
<1> QED BY <1>1, SpecIInv, PTL

\* The thresholds the control task copies are in bounds and keep their margins at every
\* step of a request and after every restart.
THEOREM SettingsAlwaysSafe == Spec => []SettingsSafe
<1>1. IInv => SettingsSafe
  BY DEF IInv
<1> QED BY <1>1, SpecIInv, PTL

\* A change answered with 200 is what every restart loads that can read NVS.
THEOREM SavedChangesSurvive == Spec => []SavedSurvivesRestart
<1>1. IInv => SavedSurvivesRestart
  BY DEF IInv
<1> QED BY <1>1, SpecIInv, PTL

-----------------------------------------------------------------------------
(***************************************************************************)
(* Action properties and refinement                                        *)
(***************************************************************************)

\* A request for an allowed start threshold gets exactly that one.
THEOREM StartThresholdWins == Spec => StartWins
<1>1. IInv /\ [Next]_vars =>
        [apply /\ START_MIN_X10 <= form.start_x10 /\ form.start_x10 <= START_MAX_X10
           => s_settings'.start_x10 = form.start_x10]_vars
  <2> SUFFICES ASSUME IInv, apply,
                      START_MIN_X10 <= form.start_x10, form.start_x10 <= START_MAX_X10
               PROVE  s_settings'.start_x10 = form.start_x10
    OBVIOUS
  <2>1. s_settings' = sanitize(form) /\ form \in Thresholds3
    BY DEF apply, IInv, TypeOK
  <2> QED BY <2>1, SanitizeKeepsStart
<1> QED BY <1>1, SpecIInv, PTL DEF Spec, StartWins

\* Thresholds that keep their margins are among the ones the abstract store may hold.
LEMMA SafeThresholdsDef ==
  \A s \in Thresholds3 : MarginsKept(s) => s \in SafeThresholds
<1> SUFFICES ASSUME NEW s \in Thresholds3, MarginsKept(s) PROVE s \in SafeThresholds
  OBVIOUS
<1>1. /\ s.start_x10 \in START_MIN_X10 .. START_MAX_X10
      /\ s.stop_x10 \in STOP_MIN_X10 .. START_MAX_X10
      /\ s.critical_x10 \in START_MIN_X10 .. CRITICAL_MAX_X10
  BY SettingsAssumption DEF MarginsKept, Thresholds3
<1> QED BY <1>1 DEF SafeThresholds, Thresholds3

\* settings.c and its handler, with writes, commits and loads that fail and restarts
\* between any two steps, implement thresholds that change in one step and are lost only
\* with the flash: a restart that could not read them leaves them for the next one.
THEOREM SettingsImplementThresholds == Spec => ImplementsThresholds
<1> USE DEF Abstract!TInit, Abstract!TNext, Abstract!tvars
<1>1. Init => Abstract!TInit
  <2> SUFFICES ASSUME Init PROVE Abstract!TInit
    OBVIOUS
  <2>1. IInv
    BY InitIInv
  <2>2. PICK b \in {NoBlob} \union {Blob(s) : s \in Stored} :
          nvs = {b} /\ s_settings \in {Load(b), Load(NoBlob)}
    BY DEF Init
  <2>3. Load(b) \in SafeThresholds
    BY <2>1, <2>2, LoadIsSafe, SafeThresholdsDef DEF IInv, TypeOK
  <2>4. {Load(x) : x \in nvs} = {Load(b)}
    BY <2>2
  <2>5. Load(NoBlob) = sanitize(Defaults)
    BY DEF Load, NoBlob
  <2> QED BY <2>2, <2>3, <2>4, <2>5
<1>2. IInv /\ IInv' /\ [Next]_vars => [Abstract!TNext]_(Abstract!tvars)
  <2> SUFFICES ASSUME IInv, IInv', [Next]_vars PROVE [Abstract!TNext]_(Abstract!tvars)
    OBVIOUS
  <2>1. ASSUME NEW body \in Bodies, settings_handler(body)
        PROVE  UNCHANGED Abstract!tvars
    BY <2>1 DEF settings_handler
  <2>2. CASE apply
    <3>1. s_settings' \in SafeThresholds
      BY SafeThresholdsDef DEF IInv, TypeOK, SettingsSafe
    <3> QED BY <2>2, <3>1 DEF apply, Abstract!Change
  <2>3. CASE WriteFails \/ CommitFails
    BY <2>3 DEF WriteFails, CommitFails
  <2>4. CASE nvs_set_blob
    <3>1. Load(Blob(form)) = s_settings
      BY <2>4, SanitizeKeepsSafe DEF nvs_set_blob, IInv, TypeOK, FormInForce, Load, Blob
    <3>2. {Load(b) : b \in nvs'} = {Load(b) : b \in nvs} \union {s_settings}
      BY <2>4, <3>1 DEF nvs_set_blob
    <3> QED BY <2>4, <3>2 DEF nvs_set_blob, Abstract!BeginSave
  <2>5. CASE nvs_commit
    <3>1. Load(Blob(form)) = s_settings
      BY <2>5, SanitizeKeepsSafe DEF nvs_commit, IInv, TypeOK, FormInForce, Load, Blob
    <3>2. {Load(b) : b \in nvs'} = {s_settings}
      BY <2>5, <3>1 DEF nvs_commit
    <3> QED BY <2>5, <3>2 DEF nvs_commit, Abstract!Confirm
  <2>6. CASE Restart
    <3>1. PICK b \in nvs : Booted(b, b)
      BY <2>6 DEF Restart
    <3>2. {Load(x) : x \in nvs'} = {s_settings'} /\ s_settings' \in {Load(x) : x \in nvs}
      BY <3>1 DEF Booted
    <3> QED BY <3>2 DEF Abstract!Restart
  <2>7. CASE LoadFails
    <3>1. PICK b \in nvs : Booted(b, NoBlob)
      BY <2>7 DEF LoadFails
    <3>2. {Load(x) : x \in nvs'} = {Load(b)} /\ s_settings' = sanitize(Defaults)
      BY <3>1 DEF Booted, Load, NoBlob
    <3> QED BY <3>2 DEF Abstract!Unread
  <2>8. CASE Erased
    <3>1. {Load(x) : x \in nvs'} = {s_settings'} /\ s_settings' = sanitize(Defaults)
      BY <2>8 DEF Erased, Booted, Load, NoBlob
    <3> QED BY <3>1 DEF Abstract!Forget
  <2>9. CASE UNCHANGED vars
    BY <2>9 DEF vars
  <2> QED
    BY <2>1, <2>2, <2>3, <2>4, <2>5, <2>6, <2>7, <2>8, <2>9 DEF Next
<1> QED
  BY <1>1, <1>2, SpecIInv, PTL DEF Spec, ImplementsThresholds, Abstract!TSpec

\* Thresholds with their margins are ordered, and an overheat that clears less than the
\* critical margin below the critical one clears above the start threshold: what module
\* Control assumes of SettingsValues.
THEOREM SafeThresholdsAreOrdered ==
  ASSUME NEW s \in SafeThresholds, NEW clear \in Int, clear < CRITICAL_MARGIN_MIN_X10
  PROVE  s.stop_x10 < s.start_x10 /\ s.start_x10 < s.critical_x10 - clear
<1>1. s.start_x10 \in Int /\ s.stop_x10 \in Int /\ s.critical_x10 \in Int /\ MarginsKept(s)
  BY SettingsAssumption DEF SafeThresholds
<1> QED BY <1>1, SettingsAssumption DEF MarginsKept
=============================================================================
