---------------------------- MODULE HistoryProofs ---------------------------
(***************************************************************************)
(* Theorems about modules History and HistoryPace, for every size of the   *)
(* rings and of a byte, every sample and every period: the two rings are   *)
(* the log of the newest samples, and the samples keep their pace.         *)
(***************************************************************************)
EXTENDS HistoryPace, RingLemmas

-----------------------------------------------------------------------------
(***************************************************************************)
(* The rings of history.c                                                  *)
(***************************************************************************)

\* The i-th newest sample, from 1.
Newer(i) == Sample((s_head + HISTORY_SAMPLES - i) % HISTORY_SAMPLES)

\* Every variable has its type, and the samples within the count have been written.
RingTypes ==
  /\ DOMAIN s_temps = Slots
  /\ s_temps = [i \in Slots |-> s_temps[i]]
  /\ s_pump = [b \in Bytes |-> s_pump[b]]
  /\ s_head \in Slots
  /\ s_count \in 0 .. HISTORY_SAMPLES
  /\ \A i \in 1 .. s_count : Newer(i) \in SampleSet

\* The log that the rings stand for, newest first.
TheLog == [i \in 1 .. s_count |-> Newer(i)]

\* What history_copy copies, read backwards, is that log.
CopyIsLog == Reverse(Samples(s_count)) = TheLog

\* It always is.
LEMMA CopiesTheLog == RingTypes => CopyIsLog
<1> SUFFICES ASSUME RingTypes PROVE Reverse(Samples(s_count)) = TheLog
  BY DEF CopyIsLog
<1> DEFINE N == HISTORY_SAMPLES
           start == (s_head + N - s_count) % N
           copy == Samples(s_count)
<1>1. N \in Nat \ {0} /\ s_head \in 0 .. N - 1 /\ s_count \in 0 .. N
  BY HistoryAssumption DEF RingTypes, Slots
<1>2. copy = [i \in 1 .. s_count |-> Sample((start + i - 1) % N)]
  BY DEF Samples
<1>3. Len(copy) = s_count
  BY <1>1, <1>2
<1> HIDE DEF copy
<1>4. ASSUME NEW i \in 1 .. s_count PROVE copy[s_count - i + 1] = Newer(i)
  <2>1. s_count \in 1 .. N /\ i \in 1 .. N /\ s_count - i + 1 \in 1 .. s_count
    BY <1>1
  <2>2. start = IF s_count <= s_head THEN s_head - s_count ELSE s_head + N - s_count
    BY <1>1, <2>1, SlotBehind
  <2> HIDE DEF start
  <2>3. start + (s_count - i + 1) - 1 \in {s_head - i, s_head + N - i}
    BY <1>1, <2>1, <2>2
  <2>4. (start + (s_count - i + 1) - 1) % N = (s_head + N - i) % N
    <3>1. CASE start + (s_count - i + 1) - 1 = s_head + N - i
      BY <3>1
    <3>2. CASE start + (s_count - i + 1) - 1 = s_head - i
      <4>1. s_head - i \in 0 .. N - 1
        BY <1>1, <2>1, <2>2, <3>2
      <4>2. (s_head - i) + N = s_head + N - i
        BY <1>1, <2>1
      <4> QED BY <1>1, <3>2, <4>1, <4>2, Remainders
    <3> QED BY <2>3, <3>1, <3>2
  <2>5. copy[s_count - i + 1] = Sample((start + (s_count - i + 1) - 1) % N)
    BY <1>2, <2>1
  <2> QED BY <2>4, <2>5 DEF Newer
<1> QED BY <1>3, <1>4 DEF Reverse, TheLog, copy

\* A sample goes in front of the others: the others keep their temperatures, their pump
\* bits, though one of them may share its byte, and their order.
LEMMA AddedNewest ==
  ASSUME RingTypes, NEW r \in SampleSet, history_add(r.temp, r.on)
  PROVE  /\ Newer(1)' = r
         /\ \A i \in 1 .. HISTORY_SAMPLES - 1 : Newer(i + 1)' = Newer(i)
<1> DEFINE N == HISTORY_SAMPLES
           After(slot) == [temp |-> s_temps'[slot],
                           on   |-> slot % BYTE \in s_pump'[slot \div BYTE]]
<1>1. /\ N \in Nat \ {0} /\ BYTE \in Nat \ {0}
      /\ s_head \in Slots /\ s_head \in 0 .. N - 1
  BY HistoryAssumption DEF RingTypes, Slots
<1>2. s_head' = IF s_head + 1 < N THEN s_head + 1 ELSE 0
  BY HeadMoves, <1>1 DEF history_add
<1>3. s_head' \in 0 .. N - 1
  BY <1>1, <1>2
<1>4. s_head \div BYTE \in Bytes
  BY <1>1, ByteExists DEF Bytes
<1>5. /\ s_temps'[s_head] = r.temp
      /\ \A j \in Slots : j # s_head => s_temps'[j] = s_temps[j]
  BY <1>1 DEF history_add, RingTypes
<1>6. /\ s_head % BYTE \in s_pump'[s_head \div BYTE] <=> r.on
      /\ \A x : x # s_head % BYTE =>
           (x \in s_pump'[s_head \div BYTE] <=> x \in s_pump[s_head \div BYTE])
      /\ \A b \in Bytes : b # s_head \div BYTE => s_pump'[b] = s_pump[b]
  BY <1>4 DEF history_add, BitsAfter, RingTypes
<1>7. After(s_head) = r
  <2>1. r = [temp |-> r.temp, on |-> r.on] /\ r.on \in BOOLEAN
    BY HistoryAssumption
  <2>2. (s_head % BYTE \in s_pump'[s_head \div BYTE]) = r.on
    BY <1>6, <2>1
  <2> QED BY <1>5, <2>1, <2>2
<1>8. ASSUME NEW j \in Slots, j # s_head PROVE After(j) = Sample(j)
  <2>1. j \in Nat /\ s_head \in Nat /\ j \in 0 .. N - 1
    BY <1>1 DEF Slots
  <2>2. j \div BYTE \in Bytes
    BY <1>1, <2>1, ByteExists DEF Bytes
  <2>3. j % BYTE \in s_pump'[j \div BYTE] <=> j % BYTE \in s_pump[j \div BYTE]
    <3>1. CASE j \div BYTE = s_head \div BYTE
      <4>1. j % BYTE # s_head % BYTE
        BY <1>1, <1>8, <2>1, <3>1, OwnBit
      <4> QED BY <1>6, <3>1, <4>1
    <3>2. CASE j \div BYTE # s_head \div BYTE
      BY <1>6, <2>2, <3>2
    <3> QED BY <3>1, <3>2
  <2>4. (j % BYTE \in s_pump'[j \div BYTE]) = (j % BYTE \in s_pump[j \div BYTE])
    BY <2>3
  <2> QED BY <1>5, <1>8, <2>4 DEF Sample
<1>9. \A i \in 1 .. N : Newer(i) = Sample(IF i <= s_head THEN s_head - i ELSE s_head + N - i)
  BY <1>1, SlotBehind DEF Newer
<1>10. \A i \in 1 .. N :
         Newer(i)' = After(IF i <= s_head' THEN s_head' - i ELSE s_head' + N - i)
  BY <1>1, <1>3, SlotBehind DEF Newer, Sample
<1> HIDE DEF After
<1>11. Newer(1)' = r
  <2>1. 1 \in 1 .. N /\ (IF 1 <= s_head' THEN s_head' - 1 ELSE s_head' + N - 1) = s_head
    BY <1>1, <1>2
  <2> QED BY <1>7, <1>10, <2>1
<1>12. ASSUME NEW i \in 1 .. N - 1 PROVE Newer(i + 1)' = Newer(i)
  <2> DEFINE j == IF i <= s_head THEN s_head - i ELSE s_head + N - i
  <2>1. i \in 1 .. N /\ i + 1 \in 1 .. N
    BY <1>1
  <2>2. (IF i + 1 <= s_head' THEN s_head' - (i + 1) ELSE s_head' + N - (i + 1)) = j
    BY <1>1, <1>2
  <2>3. j \in Slots /\ j # s_head
    BY <1>1 DEF Slots
  <2>4. Newer(i) = Sample(j)
    BY <1>9, <2>1
  <2>5. Newer(i + 1)' = After(j)
    BY <1>10, <2>1, <2>2
  <2> QED BY <1>8, <2>3, <2>4, <2>5
<1> QED BY <1>11, <1>12

\* The types after a sample, ...
LEMMA AddedTypes ==
  ASSUME RingTypes, NEW r \in SampleSet, history_add(r.temp, r.on)
  PROVE  RingTypes'
<1>1. /\ HISTORY_SAMPLES \in Nat \ {0} /\ s_head \in 0 .. HISTORY_SAMPLES - 1
      /\ s_count \in 0 .. HISTORY_SAMPLES
  BY HistoryAssumption DEF RingTypes, Slots
<1>2. /\ s_head' = IF s_head + 1 < HISTORY_SAMPLES THEN s_head + 1 ELSE 0
      /\ s_count' = IF s_count < HISTORY_SAMPLES THEN s_count + 1 ELSE s_count
  BY <1>1, HeadMoves DEF history_add
<1>3. s_head' \in Slots /\ s_count' \in 0 .. HISTORY_SAMPLES
  BY <1>1, <1>2 DEF Slots
<1>4. ASSUME NEW i \in 1 .. s_count' PROVE Newer(i)' \in SampleSet
  <2>1. CASE i = 1
    BY <2>1, AddedNewest
  <2>2. CASE i # 1
    <3>1. i - 1 \in 1 .. HISTORY_SAMPLES - 1 /\ i - 1 \in 1 .. s_count /\ (i - 1) + 1 = i
      BY <2>2, <1>1, <1>2
    <3>2. Newer((i - 1) + 1)' = Newer(i - 1)
      BY <3>1, AddedNewest
    <3> QED BY <3>1, <3>2 DEF RingTypes
  <2> QED BY <2>1, <2>2
<1>5. s_temps' = [i \in Slots |-> s_temps'[i]] /\ s_pump' = [b \in Bytes |-> s_pump'[b]]
  BY DEF history_add, BitsAfter, RingTypes
<1> QED BY <1>3, <1>4, <1>5 DEF RingTypes

\* ... after a reset, ...
LEMMA ClearedTypes ==
  ASSUME Reboot
  PROVE  RingTypes'
<1>1. 0 \in Slots /\ 0 \in 0 .. HISTORY_SAMPLES /\ 1 .. 0 = {}
  BY HistoryAssumption DEF Slots
<1> QED BY <1>1 DEF Reboot, RingTypes

\* ... and after a step that leaves the rings alone.
LEMMA KeptTypes ==
  ASSUME RingTypes, UNCHANGED <<s_temps, s_pump, s_head, s_count>>
  PROVE  RingTypes' /\ TheLog' = TheLog
<1>1. \A i : Newer(i)' = Newer(i)
  BY DEF Newer, Sample
<1> QED BY <1>1 DEF RingTypes, TheLog

\* A sample is added to the log.
LEMMA SampleAdds ==
  ASSUME RingTypes, NEW r \in SampleSet, history_add(r.temp, r.on),
         CopyIsLog, CopyIsLog'
  PROVE  Log!Add(r)
<1> DEFINE f == TheLog
           g == TheLog'
<1>1. RingTypes'
  BY AddedTypes
<1>2. f \in [1 .. s_count -> SampleSet] /\ g \in [1 .. s_count' -> SampleSet]
  BY <1>1 DEF RingTypes, TheLog
<1>3. /\ HISTORY_SAMPLES \in Nat \ {0}
      /\ s_count \in 0 .. HISTORY_SAMPLES /\ s_count' \in 0 .. HISTORY_SAMPLES
      /\ s_count' = IF s_count < HISTORY_SAMPLES THEN s_count + 1 ELSE s_count
  BY <1>1, HistoryAssumption DEF RingTypes, history_add
<1>4. 1 \in 1 .. s_count'
  BY <1>3
<1>5. g[1] = r
  BY <1>4, AddedNewest DEF TheLog
<1>6. ASSUME NEW i \in 1 .. s_count' - 1 PROVE g[i + 1] = f[i]
  <2>1. i + 1 \in 1 .. s_count' /\ i \in 1 .. s_count /\ i \in 1 .. HISTORY_SAMPLES - 1
    BY <1>3
  <2>2. Newer(i + 1)' = Newer(i)
    BY <2>1, AddedNewest
  <2>3. g[i + 1] = Newer(i + 1)' /\ f[i] = Newer(i)
    BY <2>1 DEF TheLog
  <2> QED BY <2>2, <2>3
<1> HIDE DEF f, g
<1>7. g = SubSeq(<<r>> \o f, 1, IF HISTORY_SAMPLES < Len(<<r>> \o f)
                                THEN HISTORY_SAMPLES ELSE Len(<<r>> \o f))
  BY <1>2, <1>3, <1>5, <1>6, NewestOfPushed
<1>8. Reverse(Samples(s_count)) = f /\ Reverse(Samples(s_count))' = g
  BY DEF CopyIsLog, f, g
<1>9. given' = <<r>> /\ answer' = answer
  <2>1. r = [temp |-> r.temp, on |-> r.on]
    BY HistoryAssumption
  <2> QED BY <2>1 DEF history_add
<1> QED BY <1>7, <1>8, <1>9 DEF Log!Add, Log!Newest

\* A step of history.c.
LEMMA HistoryTypeStep ==
  ASSUME RingTypes, [Next]_vars
  PROVE  RingTypes'
<1>1. CASE history_handler
  BY <1>1, KeptTypes DEF history_handler, history_copy
<1>2. CASE UNCHANGED vars
  BY <1>2, KeptTypes DEF vars
<1> QED BY <1>1, <1>2, AddedTypes, ClearedTypes DEF Next

\* It maps to a step of the abstract log, or leaves it alone.
LEMMA HistoryStep ==
  ASSUME RingTypes, [Next]_vars, CopyIsLog, CopyIsLog'
  PROVE  [Log!LNext]_(Log!lvars)
<1> USE DEF Log!LNext, Log!lvars
<1>1. ASSUME NEW r \in SampleSet, history_add(r.temp, r.on)
      PROVE  [Log!LNext]_(Log!lvars)
  BY <1>1, SampleAdds
<1>2. CASE history_handler
  <2>1. (IF s_count < HISTORY_SAMPLES THEN s_count ELSE HISTORY_SAMPLES) = s_count
    BY HistoryAssumption DEF RingTypes
  <2>2. answer' = Samples(s_count) /\ UNCHANGED <<s_temps, s_pump, s_head, s_count, given>>
    BY <1>2, <2>1 DEF history_handler, history_copy
  <2>3. TheLog' = TheLog
    BY <2>2, KeptTypes
  <2> QED BY <2>2, <2>3 DEF CopyIsLog, Log!Show
<1>3. CASE Reboot
  <2>1. TheLog' = <<>> /\ answer' = <<>> /\ given' = <<>>
    BY <1>3 DEF Reboot, TheLog
  <2>2. Reverse(answer)' = <<>>
    BY <2>1 DEF Reverse
  <2> QED BY <2>1, <2>2 DEF CopyIsLog, Log!Clear
<1>4. CASE UNCHANGED vars
  <2>1. TheLog' = TheLog /\ answer' = answer /\ given' = given
    BY <1>4, KeptTypes DEF vars
  <2> QED BY <2>1 DEF CopyIsLog
<1> QED BY <1>1, <1>2, <1>3, <1>4 DEF Next

\* Init is the empty log.
LEMMA HistoryInit ==
  ASSUME Init
  PROVE  RingTypes /\ Log!LInit
<1>1. 0 \in Slots /\ 0 \in 0 .. HISTORY_SAMPLES /\ 1 .. 0 = {}
  BY HistoryAssumption DEF Slots
<1>2. TheLog = <<>>
  BY DEF Init, TheLog
<1>3. Reverse(answer) = <<>>
  BY DEF Init, Reverse
<1>4. RingTypes
  BY <1>1 DEF Init, RingTypes
<1> QED BY <1>2, <1>3, <1>4, CopiesTheLog DEF Init, CopyIsLog, Log!LInit

-----------------------------------------------------------------------------
(***************************************************************************)
(* The pace                                                                *)
(***************************************************************************)

PaceTypes ==
  /\ clock \in Nat /\ now_s \in Nat /\ due \in Nat
  /\ next_read_s \in Nat /\ next_history_s \in Nat
  /\ pc \in {"waiting", "reading", "decided"}
  /\ taken \in Seq(Nat) /\ Len(taken) <= HISTORY_SAMPLES

\* How far a pass can be behind its samples of the clock.
PassTimes ==
  /\ clock <= due
  /\ pc = "reading" => next_read_s <= clock + CONTROL_READ_PERIOD_S
  /\ pc = "decided" => now_s <= clock /\ due = now_s + 1
                       /\ next_read_s <= now_s + CONTROL_READ_PERIOD_S

Period == HISTORY_PERIOD_S + CONTROL_READ_PERIOD_S

\* When the present activity is over at the latest, from the newest sample.
DueAfter ==
  Period + (CASE pc = "waiting" -> 1 [] pc = "reading" -> 2 [] pc = "decided" -> 3)

\* Strengthening of HistoryKeepsUp.
NewestIsRecent ==
  Len(taken) > 0 =>
    /\ next_history_s <= Last(taken) + HISTORY_PERIOD_S
    /\ due <= Last(taken) + DueAfter

\* n periods.
Periods(n) == n * HISTORY_PERIOD_S

\* Strengthening of RingCoversItsSpan: how long each sample is ago when the next is due.
EachIsOldEnough ==
  \A i \in 1 .. Len(taken) :
    taken[i] + Periods(Len(taken) - i + 1) <= next_history_s + 1

PaceInv == RingTypes /\ PaceTypes /\ PassTimes /\ NewestIsRecent /\ EachIsOldEnough

\* A sample's period and the period of the reads.
LEMMA PeriodType == Period \in Nat
BY PaceAssumption DEF Period

\* One period more.
LEMMA OneMore ==
  ASSUME NEW n \in Nat
  PROVE  Periods(n) \in Nat /\ Periods(n + 1) = Periods(n) + HISTORY_PERIOD_S
         /\ Periods(1) = HISTORY_PERIOD_S
BY PaceAssumption DEF Periods

\* The list of the times of the samples, with one more.
LEMMA TimedList ==
  ASSUME NEW times \in Seq(Nat), Len(times) <= HISTORY_SAMPLES, NEW t \in Nat
  PROVE  LET new == Timed(times, t)
         IN /\ new \in Seq(Nat) /\ Len(new) \in 1 .. HISTORY_SAMPLES
            /\ Last(new) = t
            /\ \A i \in 1 .. Len(new) :
                 \/ i = Len(new) /\ new[i] = t
                 \/ \E j \in 1 .. Len(times) :
                      new[i] = times[j] /\ Len(new) - i = Len(times) - j + 1
<1> DEFINE N    == HISTORY_SAMPLES
           kept == IF Len(times) < N THEN times ELSE Tail(times)
           new  == Append(kept, t)
<1>1. N \in Nat \ {0} /\ Len(times) \in Nat
  BY HistoryAssumption, LenProperties
<1>2. /\ kept \in Seq(Nat) /\ Len(kept) \in 0 .. N - 1
      /\ \A i \in 1 .. Len(kept) : \E j \in 1 .. Len(times) :
           kept[i] = times[j] /\ Len(kept) - i = Len(times) - j
  <2>1. CASE Len(times) < N
    BY <1>1, <2>1
  <2>2. CASE ~(Len(times) < N)
    <3>1. times # <<>>
      BY <1>1, <2>2
    <3>2. /\ kept \in Seq(Nat) /\ Len(kept) = Len(times) - 1
          /\ \A i \in 1 .. Len(kept) : kept[i] = times[i + 1]
      BY <2>2, <3>1, HeadTailProperties
    <3> HIDE DEF kept
    <3>3. ASSUME NEW i \in 1 .. Len(kept)
          PROVE  \E j \in 1 .. Len(times) :
                   kept[i] = times[j] /\ Len(kept) - i = Len(times) - j
      <4>1. i + 1 \in 1 .. Len(times) /\ Len(kept) - i = Len(times) - (i + 1)
        BY <1>1, <3>2
      <4> QED BY <3>2, <4>1
    <3>4. Len(kept) \in 0 .. N - 1
      BY <1>1, <2>2, <3>2
    <3> QED BY <3>2, <3>3, <3>4
  <2> QED BY <2>1, <2>2
<1> HIDE DEF kept
<1>3. /\ new \in Seq(Nat) /\ Len(new) = Len(kept) + 1
      /\ \A i \in 1 .. Len(kept) : new[i] = kept[i]
      /\ new[Len(kept) + 1] = t
  BY <1>2, AppendProperties
<1> HIDE DEF new
<1>4. ASSUME NEW i \in 1 .. Len(new)
      PROVE  \/ i = Len(new) /\ new[i] = t
             \/ \E j \in 1 .. Len(times) :
                  new[i] = times[j] /\ Len(new) - i = Len(times) - j + 1
  <2>1. CASE i = Len(new)
    BY <1>3, <2>1
  <2>2. CASE i # Len(new)
    <3>1. i \in 1 .. Len(kept)
      BY <1>2, <1>3, <2>2
    <3>2. PICK j \in 1 .. Len(times) : kept[i] = times[j] /\ Len(kept) - i = Len(times) - j
      BY <1>2, <3>1
    <3>3. new[i] = times[j]
      BY <1>3, <3>1, <3>2
    <3>4. Len(new) - i = Len(times) - j + 1
      <4>1. Len(kept) \in Nat /\ Len(new) = Len(kept) + 1 /\ Len(kept) - i = Len(times) - j
        BY <1>2, <1>3, <3>2
      <4> QED BY <1>1, <4>1
    <3> QED BY <3>3, <3>4
  <2> QED BY <2>1, <2>2
<1>5. Last(new) = t /\ Len(new) \in 1 .. N
  BY <1>1, <1>2, <1>3 DEF Last
<1> QED BY <1>3, <1>4, <1>5 DEF Timed, new, kept

\* What the steps of a pass leave of the invariant.
LEMMA PassInv ==
  ASSUME PaceInv, StartRead \/ Converted
  PROVE  PaceInv'
<1>1. RingTypes' /\ UNCHANGED <<vars, clock, next_history_s, taken>>
  <2>1. UNCHANGED <<vars, clock, next_history_s, taken>>
    BY DEF StartRead, Converted
  <2> QED BY <2>1, KeptTypes DEF vars, PaceInv
<1>2. Len(taken) > 0 => Last(taken) \in Nat
  <2> SUFFICES ASSUME Len(taken) > 0 PROVE Last(taken) \in Nat
    OBVIOUS
  <2>1. taken \in Seq(Nat) /\ Len(taken) \in Nat
    BY LenProperties DEF PaceInv, PaceTypes
  <2>2. Len(taken) \in 1 .. Len(taken)
    BY <2>1
  <2> QED BY <2>1, <2>2, ElementOfSeq DEF Last
<1> USE PaceAssumption DEF PaceInv, PaceTypes, PassTimes
<1>3. CASE StartRead
  <2>1. PaceTypes' /\ PassTimes'
    BY <1>1, <1>3 DEF StartRead
  <2>2. NewestIsRecent'
    <3>1. DueAfter = Period + 1 /\ DueAfter' = Period + 2
      BY <1>3 DEF StartRead, DueAfter, Period
    <3>2. due' <= due + 1 /\ due' \in Nat /\ due \in Nat
      BY <1>3 DEF StartRead
    <3> QED BY <1>1, <1>2, <3>1, <3>2, PeriodType DEF NewestIsRecent
  <2>3. EachIsOldEnough'
    BY <1>1 DEF EachIsOldEnough
  <2> QED BY <1>1, <2>1, <2>2, <2>3
<1>4. CASE Converted
  <2>1. PaceTypes' /\ PassTimes'
    BY <1>1, <1>4 DEF Converted
  <2>2. NewestIsRecent'
    <3>1. DueAfter = Period + 2 /\ DueAfter' = Period + 3
      BY <1>4 DEF Converted, DueAfter, Period
    <3>2. due' <= due + 1 /\ due' \in Nat /\ due \in Nat
      BY <1>4 DEF Converted
    <3> QED BY <1>1, <1>2, <3>1, <3>2, PeriodType DEF NewestIsRecent
  <2>3. EachIsOldEnough'
    BY <1>1 DEF EachIsOldEnough
  <2> QED BY <1>1, <2>1, <2>2, <2>3
<1> QED BY <1>3, <1>4

\* The end of a pass that takes no sample ...
LEMMA SkipInv ==
  ASSUME PaceInv, NEW r \in SampleSet, EndRead(r), ~(now_s >= next_history_s)
  PROVE  PaceInv'
<1>1. /\ UNCHANGED <<vars, taken, clock, now_s, next_read_s>>
      /\ next_history_s' = next_history_s /\ pc = "decided" /\ pc' = "waiting"
      /\ due' = (IF clock > next_read_s THEN clock ELSE next_read_s) + 2
  BY DEF EndRead, NextHistory
<1>2. RingTypes'
  BY <1>1, KeptTypes DEF vars, PaceInv
<1>3. /\ clock \in Nat /\ now_s \in Nat /\ next_read_s \in Nat /\ next_history_s \in Nat
      /\ clock <= now_s + 1 /\ next_read_s <= now_s + CONTROL_READ_PERIOD_S
  BY <1>1 DEF PaceInv, PaceTypes, PassTimes
<1>4. due' \in Nat /\ clock <= due' /\ due' <= now_s + CONTROL_READ_PERIOD_S + 2
  BY <1>1, <1>3, PaceAssumption
<1>5. PaceTypes' /\ PassTimes'
  BY <1>1, <1>4 DEF PaceInv, PaceTypes, PassTimes
<1>6. NewestIsRecent'
  <2> SUFFICES ASSUME Len(taken) > 0
               PROVE  /\ next_history_s <= Last(taken) + HISTORY_PERIOD_S
                      /\ due' <= Last(taken) + DueAfter'
    BY <1>1 DEF NewestIsRecent
  <2>1. next_history_s <= Last(taken) + HISTORY_PERIOD_S
    BY DEF PaceInv, NewestIsRecent
  <2>2. Last(taken) \in Nat
    <3>1. taken \in Seq(Nat) /\ Len(taken) \in Nat
      BY LenProperties DEF PaceInv, PaceTypes
    <3> QED BY <3>1, ElementOfSeq DEF Last
  <2>3. DueAfter' = Period + 1
    BY <1>1 DEF DueAfter, Period
  <2>4. now_s + 1 <= next_history_s
    BY <1>3
  <2>5. due' <= Last(taken) + HISTORY_PERIOD_S + CONTROL_READ_PERIOD_S + 1
    BY <1>3, <1>4, <2>1, <2>2, <2>4, PaceAssumption
  <2> QED BY <2>1, <2>2, <2>3, <2>5, PaceAssumption DEF Period
<1>7. EachIsOldEnough'
  BY <1>1 DEF PaceInv, EachIsOldEnough
<1> QED BY <1>2, <1>5, <1>6, <1>7 DEF PaceInv

\* ... and of one that takes one.
LEMMA SampleInv ==
  ASSUME PaceInv, NEW r \in SampleSet, EndRead(r), now_s >= next_history_s
  PROVE  PaceInv'
<1>1. /\ history_add(r.temp, r.on) /\ taken' = Timed(taken, clock)
      /\ UNCHANGED <<clock, now_s, next_read_s>>
      /\ next_history_s' = now_s + HISTORY_PERIOD_S /\ pc = "decided" /\ pc' = "waiting"
      /\ due' = (IF clock > next_read_s THEN clock ELSE next_read_s) + 2
  BY DEF EndRead, NextHistory
<1>2. RingTypes'
  BY <1>1, AddedTypes DEF PaceInv
<1>3. /\ clock \in Nat /\ now_s \in Nat /\ next_read_s \in Nat /\ next_history_s \in Nat
      /\ now_s <= clock /\ clock <= now_s + 1
      /\ next_read_s <= now_s + CONTROL_READ_PERIOD_S
      /\ taken \in Seq(Nat) /\ Len(taken) <= HISTORY_SAMPLES /\ Len(taken) \in Nat
  BY <1>1, LenProperties DEF PaceInv, PaceTypes, PassTimes
<1>4. due' \in Nat /\ clock <= due' /\ due' <= clock + CONTROL_READ_PERIOD_S + 2
  BY <1>1, <1>3, PaceAssumption
<1>5. next_history_s' \in Nat /\ next_history_s' <= clock + HISTORY_PERIOD_S
      /\ clock + HISTORY_PERIOD_S <= next_history_s' + 1
      /\ next_history_s + HISTORY_PERIOD_S <= next_history_s'
  BY <1>1, <1>3, PaceAssumption
<1>6. /\ taken' \in Seq(Nat) /\ Len(taken') \in 1 .. HISTORY_SAMPLES
      /\ Last(taken') = clock
      /\ \A i \in 1 .. Len(taken') :
           \/ i = Len(taken') /\ taken'[i] = clock
           \/ \E j \in 1 .. Len(taken) :
                taken'[i] = taken[j] /\ Len(taken') - i = Len(taken) - j + 1
  BY <1>1, <1>3, TimedList
<1>7. PaceTypes' /\ PassTimes'
  <2>1. Len(taken') <= HISTORY_SAMPLES
    BY <1>6, HistoryAssumption
  <2> QED BY <1>1, <1>3, <1>4, <1>5, <1>6, <2>1 DEF PaceTypes, PassTimes
<1>8. NewestIsRecent'
  <2>1. DueAfter' = Period + 1
    BY <1>1 DEF DueAfter, Period
  <2>2. due' <= clock + (Period + 1)
    BY <1>3, <1>4, PaceAssumption DEF Period
  <2>3. Last(taken)' = clock
    BY <1>6 DEF Last
  <2> QED BY <1>5, <2>1, <2>2, <2>3 DEF NewestIsRecent
<1>9. EachIsOldEnough'
  <2> SUFFICES ASSUME NEW i \in 1 .. Len(taken')
               PROVE  taken'[i] + Periods(Len(taken') - i + 1) <= next_history_s' + 1
    BY DEF EachIsOldEnough, Periods
  <2>1. CASE i = Len(taken') /\ taken'[i] = clock
    <3>1. Len(taken') - i + 1 = 1
      BY <1>6, <2>1
    <3> QED BY <1>5, <2>1, <3>1, OneMore, 0 \in Nat
  <2>2. ASSUME NEW j \in 1 .. Len(taken),
               taken'[i] = taken[j], Len(taken') - i = Len(taken) - j + 1
        PROVE  taken'[i] + Periods(Len(taken') - i + 1) <= next_history_s' + 1
    <3> DEFINE n == Len(taken) - j + 1
    <3>1. n \in Nat /\ Len(taken') - i + 1 = n + 1
      <4>1. n \in Nat
        BY <1>3
      <4>2. Len(taken') - i = n
        BY <2>2
      <4> QED BY <4>1, <4>2
    <3>2. taken[j] \in Nat
      BY <1>3, ElementOfSeq
    <3>3. taken[j] + Periods(n) <= next_history_s + 1
      BY DEF PaceInv, EachIsOldEnough
    <3> HIDE DEF n
    <3>4. Periods(n) \in Nat /\ Periods(n + 1) = Periods(n) + HISTORY_PERIOD_S
      BY <3>1, OneMore
    <3>5. taken[j] + Periods(n + 1) <= next_history_s' + 1
      BY <1>3, <1>5, <3>2, <3>3, <3>4, PaceAssumption
    <3> QED BY <2>2, <3>1, <3>5
  <2> QED BY <1>6, <2>1, <2>2
<1> QED BY <1>2, <1>7, <1>8, <1>9 DEF PaceInv

\* The start.
LEMMA StartInv ==
  ASSUME RingTypes, clock = 0, pc = "waiting", now_s = 0, due = 1, next_read_s = 0,
         next_history_s = 0, taken = <<>>
  PROVE  PaceInv
<1>1. taken \in Seq(Nat) /\ Len(taken) = 0
  BY EmptySeq
<1> QED
  BY <1>1, HistoryAssumption
  DEF PaceInv, PaceTypes, PassTimes, NewestIsRecent, EachIsOldEnough

\* Every step preserves the invariant, and is a step of history.c or leaves it alone.
LEMMA NextPaceInv ==
  ASSUME PaceInv, [PaceNext]_paceVars
  PROVE  PaceInv' /\ [Next]_vars
<1>1. CASE StartRead \/ Converted
  <2>1. UNCHANGED vars
    BY <1>1 DEF StartRead, Converted
  <2> QED BY <1>1, <2>1, PassInv
<1>2. ASSUME NEW r \in SampleSet, EndRead(r) PROVE PaceInv' /\ [Next]_vars
  <2>1. history_add(r.temp, r.on) \/ UNCHANGED vars
    BY <1>2 DEF EndRead
  <2>2. PaceInv'
    BY <1>2, SkipInv, SampleInv
  <2> QED BY <2>1, <2>2 DEF Next
<1>3. CASE ReadHistory
  <2>1. UNCHANGED <<s_temps, s_pump, s_head, s_count, clock, passVars>> /\ history_handler
    BY <1>3 DEF ReadHistory, history_handler, history_copy
  <2>2. RingTypes'
    BY <2>1, KeptTypes DEF PaceInv
  <2>3. /\ PaceTypes' /\ PassTimes' /\ NewestIsRecent' /\ EachIsOldEnough'
    BY <2>1
    DEF PaceInv, PaceTypes, PassTimes, NewestIsRecent, DueAfter, EachIsOldEnough, passVars
  <2> QED BY <2>1, <2>2, <2>3 DEF PaceInv, Next
<1>4. CASE PaceTick
  <2>1. UNCHANGED <<vars, passVars>> /\ clock' = clock + 1 /\ clock < due
    BY <1>4 DEF PaceTick
  <2>2. RingTypes'
    BY <2>1, KeptTypes DEF PaceInv, vars
  <2>3. PaceTypes' /\ PassTimes'
    BY <2>1, PaceAssumption DEF PaceInv, PaceTypes, PassTimes, passVars
  <2>4. NewestIsRecent' /\ EachIsOldEnough'
    BY <2>1 DEF PaceInv, NewestIsRecent, DueAfter, EachIsOldEnough, passVars
  <2> QED BY <2>1, <2>2, <2>3, <2>4 DEF PaceInv
<1>5. CASE PowerCycle
  <2>1. RingTypes'
    BY <1>5, ClearedTypes DEF PowerCycle
  <2>2. taken' \in Seq(Nat) /\ Len(taken') = 0
    BY <1>5, EmptySeq DEF PowerCycle
  <2>3. PaceTypes' /\ PassTimes' /\ NewestIsRecent' /\ EachIsOldEnough'
    BY <1>5, <2>2, HistoryAssumption
    DEF PowerCycle, PaceTypes, PassTimes, NewestIsRecent, EachIsOldEnough
  <2> QED BY <1>5, <2>1, <2>3 DEF PowerCycle, PaceInv, Next
<1>6. CASE UNCHANGED paceVars
  <2>1. RingTypes' /\ UNCHANGED <<vars, clock, passVars>>
    BY <1>6, KeptTypes DEF paceVars, vars, PaceInv
  <2> QED
    BY <2>1
    DEF PaceInv, PaceTypes, PassTimes, NewestIsRecent, DueAfter, EachIsOldEnough, passVars
<1> QED BY <1>1, <1>2, <1>3, <1>4, <1>5, <1>6 DEF PaceNext

\* So it holds in every state.
LEMMA SpecPaceInv == PaceSpec => []PaceInv
<1>1. PaceInit => PaceInv
  BY HistoryInit, StartInv DEF PaceInit
<1>2. PaceInv /\ [PaceNext]_paceVars => PaceInv'
  BY NextPaceInv
<1> QED BY <1>1, <1>2, PTL DEF PaceSpec

-----------------------------------------------------------------------------
(***************************************************************************)
(* Theorems                                                                *)
(***************************************************************************)

\* Through every wrap of the head, with bits of a byte on both sides of it, the two rings
\* are the log of the newest samples, and a reader gets it as of one instant.
THEOREM HistoryIsRecentLog == PaceSpec => ImplementsRecentLog
<1>1. PaceInit => Log!LInit
  BY HistoryInit DEF PaceInit
<1>2. PaceInv /\ [PaceNext]_paceVars /\ CopyIsLog /\ CopyIsLog' => [Log!LNext]_(Log!lvars)
  BY NextPaceInv, HistoryStep DEF PaceInv
<1>3. PaceInv => CopyIsLog
  BY CopiesTheLog DEF PaceInv
<1> QED
  BY <1>1, <1>2, <1>3, SpecPaceInv, PTL DEF PaceSpec, ImplementsRecentLog, Log!LSpec

\* Samples do not starve: whatever the two clock samples of a pass and the wait for the
\* lock cost, the newest one is never older than a period and one pass.
THEOREM HistoryIsFresh == PaceSpec => []HistoryKeepsUp
<1>1. PaceInv => HistoryKeepsUp
  <2> SUFFICES ASSUME PaceInv, Len(taken) > 0
               PROVE  clock - Last(taken) <= HISTORY_PERIOD_S + CONTROL_READ_PERIOD_S + 3
    BY DEF HistoryKeepsUp
  <2>1. /\ clock <= due /\ clock \in Nat /\ due \in Nat
        /\ taken \in Seq(Nat) /\ Len(taken) \in Nat
    BY LenProperties DEF PaceInv, PaceTypes, PassTimes
  <2>2. Last(taken) \in Nat
    BY <2>1, ElementOfSeq DEF Last
  <2>3. due <= Last(taken) + DueAfter
    BY DEF PaceInv, NewestIsRecent
  <2>4. DueAfter \in {Period + 1, Period + 2, Period + 3}
    BY DEF PaceInv, PaceTypes, DueAfter, Period
  <2> QED BY <2>1, <2>2, <2>3, <2>4, PaceAssumption DEF Period
<1> QED BY <1>1, SpecPaceInv, PTL

\* The ring covers the span it claims: delays add up, they are never made up for.
THEOREM RingSpansItsSamples == PaceSpec => []RingCoversItsSpan
<1>1. PaceInv => RingCoversItsSpan
  <2> SUFFICES ASSUME PaceInv, Len(taken) > 0
               PROVE  Last(taken) - taken[1] >= (Len(taken) - 1) * HISTORY_PERIOD_S - 1
    BY DEF RingCoversItsSpan
  <2> DEFINE n == Len(taken) - 1
  <2>1. taken \in Seq(Nat) /\ Len(taken) \in Nat /\ next_history_s \in Nat
    BY LenProperties DEF PaceInv, PaceTypes
  <2>2. n \in Nat /\ 1 \in 1 .. Len(taken) /\ Len(taken) - 1 + 1 = n + 1
    BY <2>1
  <2>3. taken[1] \in Nat /\ Last(taken) \in Nat
    BY <2>1, ElementOfSeq DEF Last
  <2>4. taken[1] + Periods(n + 1) <= next_history_s + 1
    BY <2>2 DEF PaceInv, EachIsOldEnough
  <2>5. next_history_s <= Last(taken) + HISTORY_PERIOD_S
    BY DEF PaceInv, NewestIsRecent
  <2> HIDE DEF n
  <2>6. Periods(n) \in Nat /\ Periods(n + 1) = Periods(n) + HISTORY_PERIOD_S
    BY <2>2, OneMore
  <2>7. Last(taken) - taken[1] >= Periods(n) - 1
    BY <2>1, <2>3, <2>4, <2>5, <2>6, PaceAssumption
  <2> QED BY <2>7 DEF Periods, n
<1> QED BY <1>1, SpecPaceInv, PTL
=============================================================================
