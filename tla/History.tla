------------------------------- MODULE History ------------------------------
(***************************************************************************)
(* The rings of history.c: temperatures and pump bits, the bits packed     *)
(* into bytes, with one head.  history_add, called by the control task,    *)
(* and history_copy, called by history_handler of api.c, are critical      *)
(* sections of s_mux and therefore one step each.  A byte is the set of    *)
(* its bits.  When samples are taken is in module HistoryPace.             *)
(***************************************************************************)
EXTENDS Integers, Sequences, SequencesExt

CONSTANTS
  HISTORY_SAMPLES,
  BYTE,                    \* bits of a byte
  SampleSet                \* the samples: a temperature or a failed read, and the pump

ASSUME HistoryAssumption ==
  /\ HISTORY_SAMPLES \in Nat \ {0}
  /\ BYTE \in Nat \ {0}
  /\ \A r \in SampleSet : r = [temp |-> r.temp, on |-> r.on] /\ r.on \in BOOLEAN

VARIABLES
  s_temps, s_pump,
  s_head,           \* next write position
  s_count,
  answer,           \* what the last history_handler since boot copied
  given             \* history: the last sample added since boot, if any

vars == <<s_temps, s_pump, s_head, s_count, answer, given>>

Slots == 0 .. HISTORY_SAMPLES - 1
Bytes == 0 .. (HISTORY_SAMPLES + BYTE - 1) \div BYTE - 1

Init ==
  /\ s_temps = [i \in Slots |-> 0]
  /\ s_pump = [b \in Bytes |-> {}]
  /\ s_head = 0
  /\ s_count = 0
  /\ answer = <<>>
  /\ given = <<>>

\* Bug: a bit is set but never cleared.
BitsSticky(on) ==
  [s_pump EXCEPT ![s_head \div BYTE] = IF on THEN @ \union {s_head % BYTE} ELSE @]

BitsAfter(on) ==
  [s_pump EXCEPT ![s_head \div BYTE] =
     IF on THEN @ \union {s_head % BYTE} ELSE @ \ {s_head % BYTE}]

history_add(temp, on) ==
  /\ s_temps' = [s_temps EXCEPT ![s_head] = temp]
  /\ s_pump' = BitsAfter(on)
  /\ s_head' = (s_head + 1) % HISTORY_SAMPLES
  /\ s_count' = IF s_count < HISTORY_SAMPLES THEN s_count + 1 ELSE s_count
  /\ given' = <<[temp |-> temp, on |-> on]>>
  /\ UNCHANGED answer

Sample(slot) == [temp |-> s_temps[slot],
                 on   |-> slot % BYTE \in s_pump[slot \div BYTE]]

\* The newest n samples, oldest first.
Samples(n) ==
  LET start == (s_head + HISTORY_SAMPLES - n) % HISTORY_SAMPLES
  IN [i \in 1 .. n |-> Sample((start + i - 1) % HISTORY_SAMPLES)]

history_copy(max) ==
  /\ answer' = Samples(IF s_count < max THEN s_count ELSE max)
  /\ UNCHANGED <<s_temps, s_pump, s_head, s_count, given>>

history_handler == history_copy(HISTORY_SAMPLES)

\* A reset loses the history.
Reboot ==
  /\ s_temps' = [i \in Slots |-> 0]
  /\ s_pump' = [b \in Bytes |-> {}]
  /\ s_head' = 0
  /\ s_count' = 0
  /\ answer' = <<>>
  /\ given' = <<>>

Next ==
  \/ \E r \in SampleSet : history_add(r.temp, r.on)
  \/ history_handler
  \/ Reboot

Spec == Init /\ [][Next]_vars

-----------------------------------------------------------------------------

\* The log the two rings stand for.
Log == INSTANCE RecentLog WITH
  Capacity <- HISTORY_SAMPLES,
  Entries  <- SampleSet,
  log      <- Reverse(Samples(s_count)),
  shown    <- Reverse(answer)

\* Temperatures and packed pump bits stay in step through every wrap of the head, the
\* last byte being partly used: a reader gets the samples that were taken, in order.
ImplementsRecentLog == Log!LSpec
=============================================================================
