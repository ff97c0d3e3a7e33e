---------------------------- MODULE DeviceProofs ----------------------------
(***************************************************************************)
(* Theorems about modules EventLog, Device and AppPage, for every size of  *)
(* the ring, every configuration and every reading: the ring is the log of *)
(* the newest events, an overheat is always announced, and a visible page  *)
(* goes on polling.                                                        *)
(***************************************************************************)
EXTENDS AppPage, LogicProofs, RingLemmas, FiniteSetTheorems

-----------------------------------------------------------------------------
(***************************************************************************)
(* events.c                                                                *)
(***************************************************************************)

\* A publish puts the event in front of the others and keeps their order.
LEMMA PublishedRecent ==
  ASSUME TypeOK, NEW e \in Events, events_publish(e)
  PROVE  /\ Recent(1)' = e
         /\ \A i \in 1 .. EVENTS_RING_SIZE - 1 : Recent(i + 1)' = Recent(i)
<1> DEFINE N == EVENTS_RING_SIZE
<1>1. N \in Nat \ {0} /\ s_head \in Slots /\ s_head \in 0 .. N - 1
  BY EventLogAssumption DEF TypeOK, Slots
<1>2. s_head' = IF s_head + 1 < N THEN s_head + 1 ELSE 0
  BY HeadMoves, <1>1 DEF events_publish
<1>3. s_head' \in Slots
  BY <1>1, <1>2 DEF Slots
<1>4. \A j \in Slots : s_ring'[j] = IF j = s_head THEN e ELSE s_ring[j]
  BY DEF events_publish, TypeOK
<1>5. \A i \in 1 .. N : Recent(i) = s_ring[IF i <= s_head THEN s_head - i ELSE s_head + N - i]
  BY <1>1, SlotBehind DEF Recent
<1>6. \A i \in 1 .. N :
        Recent(i)' = s_ring'[IF i <= s_head' THEN s_head' - i ELSE s_head' + N - i]
  BY <1>1, <1>3, SlotBehind DEF Recent, Slots
<1>7. Recent(1)' = e
  <2>1. 1 \in 1 .. N /\ (IF 1 <= s_head' THEN s_head' - 1 ELSE s_head' + N - 1) = s_head
    BY <1>1, <1>2
  <2> QED BY <1>1, <1>4, <1>6, <2>1
<1>8. ASSUME NEW i \in 1 .. N - 1 PROVE Recent(i + 1)' = Recent(i)
  <2> DEFINE j == IF i <= s_head THEN s_head - i ELSE s_head + N - i
  <2>1. i \in 1 .. N /\ i + 1 \in 1 .. N
    BY <1>1
  <2>2. (IF i + 1 <= s_head' THEN s_head' - (i + 1) ELSE s_head' + N - (i + 1)) = j
    BY <1>1, <1>2
  <2>3. j \in Slots /\ j # s_head
    BY <1>1 DEF Slots
  <2> QED BY <1>4, <1>5, <1>6, <2>1, <2>2, <2>3
<1> QED BY <1>7, <1>8

\* The log the ring stands for has its type.
LEMMA LogType ==
  ASSUME TypeOK
  PROVE  [i \in 1 .. s_count |-> Recent(i)] \in [1 .. s_count -> Events]
BY DEF TypeOK

\* What a reader gets is that log.
LEMMA ReaderGetsLog ==
  ASSUME TypeOK, events_handler
  PROVE  list' = [i \in 1 .. s_count |-> Recent(i)]
<1>1. (IF s_count < EVENTS_RING_SIZE THEN s_count ELSE EVENTS_RING_SIZE) = s_count
  BY EventLogAssumption DEF TypeOK
<1> QED BY <1>1 DEF events_handler, events_recent

\* The ring after a reset.
LEMMA ClearedType ==
  ASSUME Reboot
  PROVE  TypeOK'
<1>1. 0 \in Slots /\ 0 \in 0 .. EVENTS_RING_SIZE /\ 1 .. 0 = {}
  BY EventLogAssumption DEF Slots
<1>2. <<>> \in Seq(Events) /\ Len(<<>>) = 0
  BY EmptySeq
<1>3. s_ring' \in [Slots -> Events \union {NoEvent}]
  BY DEF Reboot
<1>4. \A i \in 1 .. s_count' : Recent(i)' \in Events
  BY <1>1 DEF Reboot
<1> QED BY <1>1, <1>2, <1>3, <1>4, EventLogAssumption DEF Reboot, TypeOK

\* A publish keeps the types, and no slot within the count is unwritten.
LEMMA PublishedType ==
  ASSUME TypeOK, NEW e \in Events, events_publish(e)
  PROVE  TypeOK'
<1>1. s_ring' \in [Slots -> Events \union {NoEvent}]
  BY DEF events_publish, TypeOK
<1>2. s_head' \in Slots
  BY HeadMoves, EventLogAssumption DEF events_publish, TypeOK, Slots
<1>3. s_count' \in 0 .. EVENTS_RING_SIZE
  BY EventLogAssumption DEF events_publish, TypeOK
<1>4. ASSUME NEW i \in 1 .. s_count' PROVE Recent(i)' \in Events
  <2>1. CASE i = 1
    BY <2>1, PublishedRecent
  <2>2. CASE i # 1
    <3>1. i - 1 \in 1 .. EVENTS_RING_SIZE - 1 /\ i - 1 \in 1 .. s_count
      BY <2>2, <1>3, EventLogAssumption DEF events_publish, TypeOK
    <3>2. Recent((i - 1) + 1)' = Recent(i - 1)
      BY <3>1, PublishedRecent
    <3>3. (i - 1) + 1 = i
      BY <3>1
    <3> QED BY <3>1, <3>2, <3>3 DEF TypeOK
  <2> QED BY <2>1, <2>2
<1>5. list' \in Seq(Events) /\ Len(list') <= EVENTS_RING_SIZE
  BY DEF events_publish, TypeOK
<1>6. given' \in Seq(Events) /\ Len(given') <= 1
  <2>1. given' = <<e>>
    BY DEF events_publish
  <2> QED BY <2>1
<1> QED BY <1>1, <1>2, <1>3, <1>4, <1>5, <1>6 DEF TypeOK

\* So does a reader.
LEMMA ReadType ==
  ASSUME TypeOK, events_handler
  PROVE  TypeOK'
<1>1. list' \in [1 .. s_count -> Events]
  BY ReaderGetsLog, LogType
<1>2. s_count \in Nat
  BY DEF TypeOK
<1>3. list' \in Seq(Events)
  BY <1>1, <1>2, SeqDef
<1>4. Len(list') = s_count
  BY <1>1, <1>2, <1>3, LenProperties
<1>5. UNCHANGED <<s_ring, s_head, s_count, given>>
  BY DEF events_handler, events_recent
<1>6. \A i \in 1 .. s_count' : Recent(i)' \in Events
  BY <1>5 DEF TypeOK, Recent
<1> QED BY <1>3, <1>4, <1>5, <1>6, EventLogAssumption DEF TypeOK

\* A step that leaves the ring alone.
LEMMA IdleType ==
  ASSUME TypeOK, UNCHANGED vars
  PROVE  TypeOK'
BY DEF TypeOK, vars, Recent

\* A publish adds to the log.
LEMMA PublishAdds ==
  ASSUME TypeOK, NEW e \in Events, events_publish(e)
  PROVE  Log!Add(e)
<1> DEFINE f == [i \in 1 .. s_count |-> Recent(i)]
           g == [i \in 1 .. s_count |-> Recent(i)]'
<1>1. TypeOK'
  BY PublishedType
<1>2. f \in [1 .. s_count -> Events] /\ g \in [1 .. s_count' -> Events]
  <2>1. \A i \in 1 .. s_count' : Recent(i)' \in Events
    BY <1>1 DEF TypeOK
  <2> QED BY <2>1, LogType
<1>3. /\ s_count \in 0 .. EVENTS_RING_SIZE /\ s_count' \in 0 .. EVENTS_RING_SIZE
      /\ s_count' = IF s_count < EVENTS_RING_SIZE THEN s_count + 1 ELSE s_count
      /\ 1 \in 1 .. s_count'
  BY <1>1, EventLogAssumption DEF TypeOK, events_publish
<1>4. g[1] = e
  BY <1>3, PublishedRecent
<1>5. \A i \in 1 .. s_count' - 1 : g[i + 1] = f[i]
  <2> SUFFICES ASSUME NEW i \in 1 .. s_count' - 1 PROVE g[i + 1] = f[i]
    OBVIOUS
  <2>1. i + 1 \in 1 .. s_count' /\ i \in 1 .. s_count /\ i \in 1 .. EVENTS_RING_SIZE - 1
    BY <1>3, EventLogAssumption
  <2>2. Recent(i + 1)' = Recent(i)
    BY <2>1, PublishedRecent
  <2>3. g[i + 1] = Recent(i + 1)' /\ f[i] = Recent(i)
    BY <2>1
  <2> QED BY <2>2, <2>3
<1> HIDE DEF f, g
<1>6. g = SubSeq(<<e>> \o f, 1, IF EVENTS_RING_SIZE < Len(<<e>> \o f)
                                THEN EVENTS_RING_SIZE ELSE Len(<<e>> \o f))
  BY <1>2, <1>3, <1>4, <1>5, NewestOfPushed, EventLogAssumption
<1>7. given' = <<e>> /\ list' = list
  BY DEF events_publish
<1> QED BY <1>6, <1>7 DEF Log!Add, Log!Newest, f, g

\* Every step of the log's specification maps to a step of the abstract log.
LEMMA LogStep ==
  ASSUME TypeOK, [Next]_vars
  PROVE  [Log!LNext]_(Log!lvars)
<1> USE DEF Log!LNext, Log!lvars
<1>1. ASSUME NEW e \in Events, events_publish(e) PROVE [Log!LNext]_(Log!lvars)
  BY <1>1, PublishAdds
<1>2. CASE events_handler
  <2>1. UNCHANGED <<s_ring, s_head, s_count, given>>
    BY <1>2 DEF events_handler, events_recent
  <2>2. [i \in 1 .. s_count |-> Recent(i)]' = [i \in 1 .. s_count |-> Recent(i)]
    BY <2>1 DEF Recent
  <2> QED BY <1>2, <2>1, <2>2, ReaderGetsLog DEF Log!Show
<1>3. CASE Reboot
  <2>1. [i \in 1 .. s_count |-> Recent(i)]' = <<>>
    BY <1>3 DEF Reboot
  <2> QED BY <1>3, <2>1 DEF Reboot, Log!Clear
<1>4. CASE UNCHANGED vars
  <2>1. [i \in 1 .. s_count |-> Recent(i)]' = [i \in 1 .. s_count |-> Recent(i)]
    BY <1>4 DEF vars, Recent
  <2> QED BY <1>4, <2>1 DEF vars
<1> QED BY <1>1, <1>2, <1>3, <1>4 DEF Next

\* And it keeps the types.
LEMMA LogTypeStep ==
  ASSUME TypeOK, [Next]_vars
  PROVE  TypeOK'
BY PublishedType, ReadType, ClearedType, IdleType DEF Next

\* Init is the empty log.
LEMMA LogInit ==
  ASSUME Init
  PROVE  TypeOK /\ Log!LInit
<1>1. 0 \in Slots /\ 0 \in 0 .. EVENTS_RING_SIZE /\ 1 .. 0 = {}
  BY EventLogAssumption DEF Slots
<1>2. <<>> \in Seq(Events) /\ Len(<<>>) = 0
  BY EmptySeq
<1>3. s_ring \in [Slots -> Events \union {NoEvent}]
  BY DEF Init
<1>4. \A i \in 1 .. s_count : Recent(i) \in Events
  BY <1>1 DEF Init
<1>5. TypeOK
  BY <1>1, <1>2, <1>3, <1>4, EventLogAssumption DEF Init, TypeOK
<1>6. [i \in 1 .. s_count |-> Recent(i)] = <<>>
  BY DEF Init
<1> QED BY <1>5, <1>6 DEF Init, Log!LInit

\* Through every wrap of the head, with resets and readers at any point, events.c
\* implements the log of the newest events.
THEOREM RingIsRecentLog == Spec => ImplementsRecentLog
<1>1. Init => TypeOK /\ Log!LInit
  BY LogInit
<1>2. TypeOK /\ [Next]_vars => TypeOK' /\ [Log!LNext]_(Log!lvars)
  BY LogStep, LogTypeStep
<1> QED BY <1>1, <1>2, PTL DEF Spec, ImplementsRecentLog, Log!LSpec

-----------------------------------------------------------------------------
(***************************************************************************)
(* The device: what a locked section publishes                             *)
(***************************************************************************)

EventSet == [type : {"sensor", "overheat", "pump", "manual_end"}, on : BOOLEAN,
             reason : Reason, prev_reason : Reason]

SensorResults == [sensor_failed : BOOLEAN, sensor_recovered : BOOLEAN,
                  overheat_started : BOOLEAN, overheat_ended : BOOLEAN]

\* The events none of whose messages says that the pump stands still.
Harmless == {e \in EventSet : ~(e.type = "pump" /\ e.reason \in OffReason)}

\* The event whose message is the overheat alert.
Alerts(e) == e.type = "overheat" /\ e.on

\* What three short lists make together.
LEMMA ThreeLists ==
  ASSUME NEW S, NEW a \in Seq(S), NEW b \in Seq(S), NEW c \in Seq(S),
         Len(a) <= 1, Len(b) <= 1, Len(c) <= 1
  PROVE  /\ a \o b \o c \in Seq(S)
         /\ Len(a \o b \o c) <= 3
         /\ Len(b) = 1 => \E i \in 1 .. Len(a \o b \o c) : (a \o b \o c)[i] = b[1]
<1> DEFINE ab == a \o b
           abc == ab \o c
<1>1. Len(a) \in Nat /\ Len(b) \in Nat /\ Len(c) \in Nat
  BY LenProperties
<1>2. /\ ab \in Seq(S) /\ Len(ab) = Len(a) + Len(b)
      /\ \A i \in 1 .. Len(a) + Len(b) :
           ab[i] = IF i <= Len(a) THEN a[i] ELSE b[i - Len(a)]
  BY ConcatProperties
<1> HIDE DEF ab
<1>3. /\ abc \in Seq(S) /\ Len(abc) = Len(ab) + Len(c)
      /\ \A i \in 1 .. Len(ab) + Len(c) :
           abc[i] = IF i <= Len(ab) THEN ab[i] ELSE c[i - Len(ab)]
  BY <1>2, ConcatProperties
<1> HIDE DEF abc
<1>4. ASSUME Len(b) = 1 PROVE \E i \in 1 .. Len(abc) : abc[i] = b[1]
  <2> DEFINE k == Len(a) + 1
  <2>1. /\ k \in 1 .. Len(a) + Len(b) /\ ~(k <= Len(a)) /\ k - Len(a) = 1
        /\ k \in 1 .. Len(ab) + Len(c) /\ k <= Len(ab)
    BY <1>1, <1>2, <1>4
  <2>2. ab[k] = b[1]
    BY <1>2, <2>1
  <2>3. abc[k] = ab[k]
    BY <1>3, <2>1
  <2> QED BY <1>3, <2>1, <2>2, <2>3
<1>5. Len(abc) <= 3
  BY <1>1, <1>2, <1>3
<1> QED BY <1>3, <1>4, <1>5 DEF abc, ab

\* The lists of one event and of none.
LEMMA ShortLists ==
  ASSUME NEW S
  PROVE  /\ <<>> \in Seq(S) /\ Len(<<>>) <= 1
         /\ \A e \in S : <<e>> \in Seq(S) /\ Len(<<e>>) = 1 /\ <<e>>[1] = e
<1>1. <<>> \in Seq(S) /\ Len(<<>>) = 0
  BY EmptySeq
<1> QED BY <1>1

\* A decision publishes three events at most; while it is overheated none of them says
\* that the pump stands still, and the reading that finds it overheated is announced.
LEMMA WhatIsPublished ==
  ASSUME NEW s \in CtlState, NEW after \in CtlState, NEW r \in SensorResults
  PROVE  LET box == SensorEvents(r, after) \o OverheatEvents(r, after) \o PumpEvents(s, after)
         IN /\ box \in Seq(EventSet) /\ Len(box) <= 3
            /\ after.reason = "overheat" => box \in Seq(Harmless)
            /\ r.overheat_started => \E i \in 1 .. Len(box) : Alerts(box[i])
<1> DEFINE a == SensorEvents(r, after)
           b == OverheatEvents(r, after)
           c == PumpEvents(s, after)
<1>1. /\ Event("sensor", r.sensor_failed, after.reason, after.reason) \in Harmless
      /\ Event("overheat", r.overheat_started, after.reason, after.reason) \in Harmless
  BY DEF Event, Harmless, EventSet, CtlState, SensorResults
<1>2. /\ Event("pump", after.on, after.reason, s.reason) \in EventSet
      /\ Event("manual_end", after.on, after.reason, s.reason) \in EventSet
  BY DEF Event, EventSet, CtlState
<1>3. Event("manual_end", after.on, after.reason, s.reason) \in Harmless
  BY <1>2 DEF Event, Harmless
<1>4. after.reason = "overheat" => Event("pump", after.on, after.reason, s.reason) \in Harmless
  BY <1>2 DEF Event, Harmless, OffReason
<1>5. /\ a \in Seq(Harmless) /\ Len(a) <= 1 /\ b \in Seq(Harmless) /\ Len(b) <= 1
  BY <1>1, ShortLists DEF SensorEvents, OverheatEvents
<1>6. c \in Seq(EventSet) /\ Len(c) <= 1
  BY <1>2, ShortLists DEF PumpEvents
<1>7. after.reason = "overheat" => c \in Seq(Harmless)
  BY <1>3, <1>4, ShortLists DEF PumpEvents
<1>8. r.overheat_started => Len(b) = 1 /\ Alerts(b[1])
  <2> SUFFICES ASSUME r.overheat_started PROVE Len(b) = 1 /\ Alerts(b[1])
    OBVIOUS
  <2>1. b = <<Event("overheat", r.overheat_started, after.reason, after.reason)>>
    BY DEF OverheatEvents
  <2> QED BY <2>1 DEF Alerts, Event
<1> HIDE DEF a, b, c
<1>9. a \in Seq(EventSet) /\ b \in Seq(EventSet)
  BY <1>5, SeqMonotonic DEF Harmless
<1> DEFINE box == a \o b \o c
<1>10. /\ box \in Seq(EventSet) /\ Len(box) <= 3
       /\ Len(b) = 1 => \E i \in 1 .. Len(box) : box[i] = b[1]
  <2>1. Len(a) <= 1 /\ Len(b) <= 1 /\ Len(c) <= 1
    BY <1>5, <1>6
  <2>2. a \in Seq(EventSet) /\ b \in Seq(EventSet) /\ c \in Seq(EventSet)
    BY <1>6, <1>9
  <2> QED BY <2>1, <2>2, ThreeLists, ZenonT(60)
<1>11. after.reason = "overheat" => box \in Seq(Harmless)
  BY <1>5, <1>6, <1>7, ThreeLists
<1>12. r.overheat_started => \E i \in 1 .. Len(box) : Alerts(box[i])
  <2> SUFFICES ASSUME r.overheat_started PROVE \E i \in 1 .. Len(box) : Alerts(box[i])
    OBVIOUS
  <2>1. PICK i \in 1 .. Len(box) : box[i] = b[1]
    BY <1>8, <1>10
  <2>2. Alerts(box[i])
    BY <1>8, <2>1
  <2> QED BY <2>2
<1> HIDE DEF box
<1> QED BY <1>10, <1>11, <1>12 DEF box, a, b, c

-----------------------------------------------------------------------------
(***************************************************************************)
(* The device: invariant                                                   *)
(***************************************************************************)

\* Types, and every event gets a number of its own.
DeviceTypes ==
  /\ TypeOK
  /\ clock \in Nat
  /\ s_state \in CtlState
  /\ told \in BOOLEAN
  /\ outbox \in Seq(EventSet)
  /\ numbered \in Nat
  /\ numbered + Len(outbox) <= MaxEvents + 3

\* Strengthening of OverheatIsTold over the events still to be published.
AlertOnItsWay ==
  s_state.overheat =>
    /\ outbox \in Seq(Harmless)
    /\ told \/ \E i \in 1 .. Len(outbox) : Alerts(outbox[i])

DInv == DeviceTypes /\ AlertOnItsWay

\* A locked section preserves it: with a command or a reading in the state, overheat is
\* new only where the reading reports it.
LEMMA DecidedDInv ==
  ASSUME DInv, numbered < MaxEvents, NEW s \in CtlState, NEW r \in SensorResults,
         s.overheat => s_state.overheat \/ r.overheat_started,
         Decided(s, r)
  PROVE  DInv'
<1> DEFINE after == ctl_decide(s, cfg, clock)
           box   == SensorEvents(r, after) \o OverheatEvents(r, after) \o PumpEvents(s, after)
<1>1. /\ clock \in Int /\ clock \in Nat /\ cfg \in CtlConfig
      /\ told \in BOOLEAN /\ numbered \in Nat /\ TypeOK
  BY DeviceAssumption DEF DInv, DeviceTypes
<1>2. /\ after \in CtlState /\ after.overheat = s.overheat
      /\ after.reason =
           ReasonFor(after.overheat, after.manual, after.sensor_failed, after.hot, after.maintenance)
  BY <1>1, DecideEffect
<1>3. /\ outbox = <<>> /\ s_state' = after /\ outbox' = box
      /\ UNCHANGED <<vars, clock, told, numbered>>
  BY DEF Decided, LockFree
<1> HIDE DEF after
<1>4. /\ box \in Seq(EventSet) /\ Len(box) <= 3
      /\ after.reason = "overheat" => box \in Seq(Harmless)
      /\ r.overheat_started => \E i \in 1 .. Len(box) : Alerts(box[i])
  BY <1>2, WhatIsPublished
<1> HIDE DEF box
<1>5. TypeOK'
  BY <1>1, <1>3, IdleType
<1>6. numbered' + Len(outbox') <= MaxEvents + 3
  <2>1. Len(box) \in Nat
    BY <1>4, LenProperties
  <2> QED BY <1>1, <1>3, <1>4, <2>1, DeviceAssumption
<1>7. DeviceTypes'
  BY <1>1, <1>2, <1>3, <1>4, <1>5, <1>6 DEF DeviceTypes
<1>8. AlertOnItsWay'
  <2> SUFFICES ASSUME after.overheat
               PROVE  /\ box \in Seq(Harmless)
                      /\ told \/ \E i \in 1 .. Len(box) : Alerts(box[i])
    BY <1>3 DEF AlertOnItsWay
  <2>1. after.reason = "overheat"
    BY <1>2 DEF ReasonFor
  <2>2. CASE r.overheat_started
    BY <1>4, <2>1, <2>2
  <2>3. CASE s_state.overheat
    <3>1. Len(outbox) = 0
      BY <1>3
    <3>2. told
      BY <2>3, <3>1 DEF DInv, AlertOnItsWay
    <3> QED BY <1>4, <2>1, <3>2
  <2> QED BY <1>2, <2>2, <2>3
<1> QED BY <1>7, <1>8 DEF DInv

\* A pass, with or without a reading.
LEMMA PassDInv ==
  ASSUME DInv, Pass
  PROVE  DInv'
<1>1. s_state \in CtlState /\ clock \in Int /\ cfg \in CtlConfig /\ numbered < MaxEvents
  BY DeviceAssumption DEF DInv, DeviceTypes, Pass
<1>2. NoSensorResult \in SensorResults
  BY DEF NoSensorResult, SensorResults
<1>3. CASE Decided(s_state, NoSensorResult)
  BY <1>1, <1>2, <1>3, DecidedDInv
<1>4. ASSUME NEW valid \in BOOLEAN, NEW temp \in Temps, NEW s,
             s = ctl_sensor(s_state, cfg, clock, valid, temp),
             Decided(s, SensorResult(s_state, s))
      PROVE  DInv'
  <2>1. s \in CtlState
    BY <1>1, <1>4, SensorType, DeviceAssumption
  <2>2. SensorResult(s_state, s) \in SensorResults
    BY <1>1, <2>1 DEF SensorResult, SensorResults, CtlState
  <2>3. s.overheat => s_state.overheat \/ SensorResult(s_state, s).overheat_started
    BY DEF SensorResult
  <2> QED BY <1>1, <1>4, <2>1, <2>2, <2>3, DecidedDInv
<1> QED BY <1>3, <1>4 DEF Pass

\* A manual command.
LEMMA CommandDInv ==
  ASSUME DInv, NEW manual \in Manual, Command(manual)
  PROVE  DInv'
<1> DEFINE s == ctl_manual(s_state, manual, Duration, clock)
<1>1. s_state \in CtlState /\ clock \in Int /\ Duration \in Int
  BY DeviceAssumption DEF DInv, DeviceTypes
<1>2. s \in CtlState
  BY <1>1, ManualType
<1>3. s.overheat = s_state.overheat
  BY <1>1 DEF ctl_manual, CtlState
<1>4. NoSensorResult \in SensorResults
  BY DEF NoSensorResult, SensorResults
<1>5. Decided(s, NoSensorResult) /\ numbered < MaxEvents
  BY DEF Command
<1> HIDE DEF s
<1> QED BY <1>2, <1>3, <1>4, <1>5, DecidedDInv

\* A publish: the alert is sent, or stays on its way.
LEMMA PublishDInv ==
  ASSUME DInv, Publish
  PROVE  DInv' /\ numbered' \in Events
<1> DEFINE e == Head(outbox)
<1>1. /\ outbox \in Seq(EventSet) /\ outbox # <<>> /\ told \in BOOLEAN
      /\ numbered \in Nat /\ numbered + Len(outbox) <= MaxEvents + 3
      /\ clock \in Nat /\ s_state \in CtlState /\ TypeOK
  BY DEF DInv, DeviceTypes, Publish
<1>2. /\ numbered' = numbered + 1 /\ events_publish(numbered')
      /\ told' = ToldAfter(e) /\ outbox' = Tail(outbox)
      /\ s_state' = s_state /\ clock' = clock
  BY DEF Publish
<1>3. /\ e \in EventSet /\ outbox' \in Seq(EventSet) /\ Len(outbox') = Len(outbox) - 1
      /\ \A i \in 1 .. Len(outbox') : outbox'[i] = outbox[i + 1]
  BY <1>1, <1>2, HeadTailProperties
<1>4. Len(outbox) \in Nat /\ Len(outbox') \in Nat
  BY <1>1, <1>3, LenProperties
<1>5. numbered' \in Events /\ numbered' \in Nat /\ numbered' + Len(outbox') <= MaxEvents + 3
  BY <1>1, <1>2, <1>3, <1>4, DeviceAssumption
<1>6. TypeOK'
  BY <1>1, <1>2, <1>5, PublishedType
<1>7. told' \in BOOLEAN
  BY <1>1, <1>2 DEF ToldAfter
<1>8. DeviceTypes'
  BY <1>1, <1>2, <1>3, <1>5, <1>6, <1>7 DEF DeviceTypes
<1>9. AlertOnItsWay'
  <2> SUFFICES ASSUME s_state.overheat
               PROVE  /\ outbox' \in Seq(Harmless)
                      /\ told' \/ \E i \in 1 .. Len(outbox') : Alerts(outbox'[i])
    BY <1>2 DEF AlertOnItsWay
  <2>1. /\ outbox \in Seq(Harmless)
        /\ told \/ \E i \in 1 .. Len(outbox) : Alerts(outbox[i])
    BY DEF DInv, AlertOnItsWay
  <2>2. e \in Harmless /\ outbox' \in Seq(Harmless)
    BY <1>1, <1>2, <2>1, HeadTailProperties
  <2>3. Alerts(e) => told'
    BY <1>2 DEF Alerts, ToldAfter
  <2>4. told => told'
    BY <1>2, <2>2 DEF ToldAfter, Harmless, OffReason
  <2>5. ASSUME NEW i \in 1 .. Len(outbox), Alerts(outbox[i])
        PROVE  told' \/ \E j \in 1 .. Len(outbox') : Alerts(outbox'[j])
    <3>1. CASE i = 1
      <4>1. outbox[i] = e
        BY <1>1, <3>1
      <4> QED BY <2>3, <2>5, <4>1
    <3>2. CASE i # 1
      <4>1. i - 1 \in 1 .. Len(outbox') /\ (i - 1) + 1 = i
        BY <1>3, <1>4, <3>2
      <4>2. outbox'[i - 1] = outbox[i]
        BY <1>3, <4>1
      <4> QED BY <2>5, <4>1, <4>2
    <3> QED BY <3>1, <3>2
  <2> QED BY <2>1, <2>2, <2>4, <2>5
<1> QED BY <1>5, <1>8, <1>9 DEF DInv

\* Every step of the device preserves the invariant, and is a step of the log or leaves
\* it alone.
LEMMA NextDInv ==
  ASSUME DInv, [DNext]_deviceVars
  PROVE  DInv' /\ [Next]_vars
<1>1. CASE Pass
  <2>1. UNCHANGED vars
    BY <1>1 DEF Pass, Decided
  <2> QED BY <1>1, <2>1, PassDInv
<1>2. ASSUME NEW manual \in Manual, Command(manual)
      PROVE  DInv' /\ [Next]_vars
  <2>1. UNCHANGED vars
    BY <1>2 DEF Command, Decided
  <2> QED BY <1>2, <2>1, CommandDInv
<1>3. CASE Publish
  <2>1. DInv' /\ numbered' \in Events
    BY <1>3, PublishDInv
  <2>2. events_publish(numbered')
    BY <1>3 DEF Publish
  <2> QED BY <2>1, <2>2 DEF Next
<1>4. CASE ListEvents
  <2>1. TypeOK'
    BY <1>4, ReadType DEF ListEvents, DInv, DeviceTypes
  <2> QED BY <1>4, <2>1 DEF ListEvents, Next, DInv, DeviceTypes, AlertOnItsWay
<1>5. CASE DTick
  <2>1. TypeOK' /\ UNCHANGED vars
    BY <1>5, IdleType DEF DTick, DInv, DeviceTypes
  <2>2. clock' \in Nat
    BY <1>5 DEF DTick, DInv, DeviceTypes
  <2> QED BY <1>5, <2>1, <2>2 DEF DTick, DInv, DeviceTypes, AlertOnItsWay
<1>6. CASE DReboot
  <2>1. TypeOK'
    BY <1>6, ClearedType DEF DReboot
  <2>2. numbered' \in 0 .. MaxEvents
    BY <1>6, DeviceAssumption DEF DReboot, DInv, DeviceTypes
  <2>3. /\ clock' = 0 /\ s_state' = ctl_init(0) /\ told' \in BOOLEAN /\ outbox' = <<>>
    BY <1>6 DEF DReboot, DInv, DeviceTypes
  <2>4. s_state' \in CtlState /\ ~s_state'.overheat
    BY <2>3, InitType DEF ctl_init
  <2>5. outbox' \in Seq(EventSet) /\ Len(outbox') = 0
    BY <2>3, EmptySeq
  <2>6. numbered' \in Nat /\ numbered' + Len(outbox') <= MaxEvents + 3
    <3>1. ASSUME NEW m \in Nat, NEW n \in 0 .. m PROVE n \in Nat /\ n + 0 <= m + 3
      OBVIOUS
    <3>2. MaxEvents \in Nat
      BY DeviceAssumption
    <3> QED BY <2>2, <2>5, <3>1, <3>2
  <2> QED
    BY <1>6, <2>1, <2>3, <2>4, <2>5, <2>6 DEF DReboot, Next, DInv, DeviceTypes, AlertOnItsWay
<1>7. CASE UNCHANGED deviceVars
  <2>1. TypeOK' /\ UNCHANGED vars
    BY <1>7, IdleType DEF deviceVars, DInv, DeviceTypes
  <2> QED BY <1>7, <2>1 DEF deviceVars, DInv, DeviceTypes, AlertOnItsWay
<1> QED BY <1>1, <1>2, <1>3, <1>4, <1>5, <1>6, <1>7 DEF DNext

\* It holds after boot.
LEMMA InitDInv == DInit => DInv /\ Log!LInit
<1> SUFFICES ASSUME DInit PROVE DInv /\ Log!LInit
  OBVIOUS
<1>1. TypeOK /\ Log!LInit
  BY LogInit DEF DInit
<1>2. numbered \in 0 .. MaxEvents
  BY DeviceAssumption DEF DInit
<1>3. s_state \in CtlState /\ ~s_state.overheat
  BY InitType DEF DInit, ctl_init
<1>4. outbox \in Seq(EventSet) /\ Len(outbox) = 0
  BY EmptySeq DEF DInit
<1>5. numbered \in Nat /\ numbered + Len(outbox) <= MaxEvents + 3
  <2>1. MaxEvents \in Nat
    BY DeviceAssumption
  <2> QED BY <1>2, <1>4, <2>1
<1> QED
  BY <1>1, <1>3, <1>4, <1>5 DEF DInit, DInv, DeviceTypes, AlertOnItsWay

\* So it holds in every state.
LEMMA SpecDInv == DSpec => []DInv
<1>1. DInv /\ [DNext]_deviceVars => DInv'
  BY NextDInv
<1> QED BY <1>1, InitDInv, PTL DEF DSpec

-----------------------------------------------------------------------------
(***************************************************************************)
(* The device: theorems                                                    *)
(***************************************************************************)

\* Fed by the locked sections of two tasks, with readers between any two of a section's
\* events, the ring has its type and never shows a slot that was not written.
THEOREM DeviceLogTypes == DSpec => []TypeOK
<1>1. DInv => TypeOK
  BY DEF DInv, DeviceTypes
<1> QED BY <1>1, SpecDInv, PTL

\* The device's event list is the log of the newest events.
THEOREM DeviceLogIsRecentLog == DSpec => ImplementsRecentLog
<1>1. DInv /\ [DNext]_deviceVars => [Log!LNext]_(Log!lvars)
  <2> SUFFICES ASSUME DInv, [DNext]_deviceVars PROVE [Log!LNext]_(Log!lvars)
    OBVIOUS
  <2>1. TypeOK /\ [Next]_vars
    BY NextDInv DEF DInv, DeviceTypes
  <2> QED BY <2>1, LogStep
<1> QED BY <1>1, InitDInv, SpecDInv, PTL DEF DSpec, ImplementsRecentLog, Log!LSpec

\* Whatever readings, commands, expiries and resets come in whatever order, an overheat
\* is announced and nothing announced later takes it back while it lasts.
THEOREM OverheatAnnounced == DSpec => []OverheatIsTold
<1>1. DInv => OverheatIsTold
  <2> SUFFICES ASSUME DInv, outbox = <<>>, s_state.overheat PROVE told
    BY DEF OverheatIsTold, LockFree
  <2>1. Len(outbox) = 0
    OBVIOUS
  <2> QED BY <2>1 DEF DInv, AlertOnItsWay
<1> QED BY <1>1, SpecDInv, PTL

-----------------------------------------------------------------------------
(***************************************************************************)
(* The page against the device: module AppPage                             *)
(***************************************************************************)

\* The command in flight is one that control_manual takes.
OrderType ==
  /\ order = [at |-> order.at, manual |-> order.manual, answer |-> order.answer]
  /\ order.manual \in Manual

\* Every step of the page is one of the device, or leaves the device alone.
LEMMA PageStep ==
  ASSUME OrderType, [PNext]_pvars
  PROVE  OrderType' /\ [DNext]_deviceVars
<1>1. CASE Quietly(Pass) \/ Quietly(Publish) \/ Quietly(DTick)
  BY <1>1 DEF Quietly, OrderType, DNext
<1>2. CASE Restart
  <2>1. order' = order \/ order' = [order EXCEPT !.at = "refused"]
    BY <1>2 DEF Restart
  <2>2. OrderType'
    BY <2>1 DEF OrderType
  <2> QED BY <1>2, <2>2 DEF Restart, DNext
<1>3. CASE HttpTask
  <2>1. ASSUME NEW i \in DOMAIN polls, status_handler(i)
        PROVE  OrderType' /\ UNCHANGED deviceVars
    BY <2>1 DEF status_handler, OrderType
  <2>2. CASE pump_handler
    <3>1. order' = [order EXCEPT !.at = "refused"] \/ order' = [order EXCEPT !.at = "executed"]
      BY <2>2 DEF pump_handler
    <3>2. OrderType'
      BY <3>1 DEF OrderType
    <3>3. UNCHANGED deviceVars \/ Command(order.manual)
      BY <2>2 DEF pump_handler
    <3> QED BY <3>2, <3>3 DEF OrderType, DNext
  <2>3. CASE AnswerCommand
    BY <2>3 DEF AnswerCommand, OrderType
  <2> QED BY <1>3, <2>1, <2>2, <2>3 DEF HttpTask
<1>4. CASE User
  <2>1. CASE OpenTab \/ LateRefresh \/ Hide \/ Show \/ Slide
    BY <2>1 DEF OpenTab, LateRefresh, RefreshNow, Hide, Show, Slide, OrderType
  <2>2. ASSUME NEW m \in Manual, command(m) PROVE OrderType' /\ UNCHANGED deviceVars
    BY <2>2 DEF command, OrderType
  <2>3. (Fire => command("stop") \/ command("start")) /\ (AutoChip => command("none"))
    BY DEF Fire, AutoChip
  <2> QED BY <1>4, <2>1, <2>2, <2>3 DEF User, Manual
<1>5. CASE Browser
  <2>1. CASE TimerFires \/ \E i \in DOMAIN polls : PollAnswered(i) \/ PollFails(i)
    BY <2>1 DEF TimerFires, PollAnswered, PollFails, OrderType
  <2>2. CASE CommandAnswered \/ CommandFails
    <3>1. order' = [order EXCEPT !.at = "free", !.answer = None]
      BY <2>2 DEF CommandAnswered, CommandFails
    <3>2. OrderType'
      BY <3>1 DEF OrderType
    <3> QED BY <2>2, <3>2 DEF CommandAnswered, CommandFails
  <2> QED BY <1>5, <2>1, <2>2 DEF Browser
<1>6. CASE UNCHANGED pvars
  BY <1>6 DEF pvars, OrderType
<1> QED BY <1>1, <1>2, <1>3, <1>4, <1>5, <1>6 DEF PNext

\* Whatever requests of the page come in whatever order, are lost or come late, the
\* device does what module Device allows, so that its theorems hold with the page.
THEOREM PageKeepsDevice == PSpec => DSpec
<1>1. PInit => DInit /\ OrderType
  BY DEF PInit, OrderType, Manual
<1>2. OrderType /\ [PNext]_pvars => OrderType' /\ [DNext]_deviceVars
  BY PageStep
<1> QED BY <1>1, <1>2, PTL DEF PSpec, DSpec

\* So the followers of the topics hear of an overheat, whatever the page asks for.
THEOREM OverheatAnnouncedWithPage == PSpec => []OverheatIsTold
BY PageKeepsDevice, OverheatAnnounced, PTL

-----------------------------------------------------------------------------

\* The polls in flight.
Flying == DOMAIN polls \ Which(polls, "free")

\* Strengthening of PollingNeverDies: whoever may start a poll finds a free one.  The
\* user's actions are bounded so; a timer has kept the place of the poll that set it.
PollInv ==
  /\ DOMAIN polls = 1 .. MaxPolls
  /\ strays \in Nat /\ timer \in BOOLEAN /\ hidden \in BOOLEAN
  /\ Chains + (IF timer THEN 1 ELSE 0) <= MaxPolls
  /\ PollingNeverDies

\* Their number, and a free one while there are fewer than MaxPolls.
LEMMA Polls ==
  ASSUME DOMAIN polls = 1 .. MaxPolls
  PROVE  /\ IsFiniteSet(Flying) /\ Cardinality(Flying) \in Nat
         /\ Cardinality(Flying) < MaxPolls => Which(polls, "free") # {}
<1>1. IsFiniteSet(1 .. MaxPolls) /\ Cardinality(1 .. MaxPolls) = MaxPolls
  BY FS_Interval, PageAssumption
<1>2. IsFiniteSet(Flying)
  BY <1>1, FS_Subset DEF Flying
<1>3. Cardinality(Flying) \in Nat
  BY <1>2, FS_CardinalityType
<1>4. ASSUME Which(polls, "free") = {} PROVE Cardinality(Flying) = MaxPolls
  BY <1>1, <1>4 DEF Flying
<1> QED BY <1>2, <1>3, <1>4, PageAssumption

\* A poll that begins is one more.
LEMMA PollBegins ==
  ASSUME DOMAIN polls = 1 .. MaxPolls, Cardinality(Flying) < MaxPolls, Poll
  PROVE  DOMAIN polls' = 1 .. MaxPolls /\ Cardinality(Flying') = Cardinality(Flying) + 1
<1> DEFINE i == CHOOSE i \in Which(polls, "free") : TRUE
<1>1. i \in Which(polls, "free")
  BY Polls
<1>2. polls' = [polls EXCEPT ![i] = Asked]
  BY DEF Poll, Ask
<1> HIDE DEF i
<1>3. i \in DOMAIN polls /\ i \notin Flying
  BY <1>1 DEF Which, Flying
<1>4. Flying' = Flying \union {i}
  <2>1. Asked.at # "free"
    BY DEF Asked
  <2> QED BY <1>2, <1>3, <2>1 DEF Flying, Which
<1> QED BY <1>2, <1>3, <1>4, Polls, FS_AddElement

\* One that ends is one less, and leaves its place to its timer.
LEMMA PollEnds ==
  ASSUME PollInv, NEW i \in DOMAIN polls, polls[i].at = "answered",
         polls' = [polls EXCEPT ![i] = Free], NEW failed, NextPoll(failed), UNCHANGED hidden
  PROVE  PollInv'
<1>1. i \in Flying
  BY DEF Flying, Which
<1>2. Flying' = Flying \ {i}
  <2>1. Free.at = "free"
    BY DEF Free
  <2> QED BY <2>1 DEF Flying, Which
<1>3. /\ DOMAIN polls' = 1 .. MaxPolls
      /\ Cardinality(Flying) \in Nat /\ Cardinality(Flying') \in Nat
      /\ Cardinality(Flying') = Cardinality(Flying) - 1
  <2>1. DOMAIN polls = 1 .. MaxPolls /\ DOMAIN polls' = DOMAIN polls
    BY DEF PollInv
  <2>2. IsFiniteSet(Flying) /\ Cardinality(Flying) \in Nat
    BY <2>1, Polls
  <2>3. Cardinality(Flying') = Cardinality(Flying) - 1 /\ IsFiniteSet(Flying')
    BY <1>1, <1>2, <2>2, FS_RemoveElement
  <2> QED BY <2>1, <2>2, <2>3, FS_CardinalityType
<1> DEFINE n == Cardinality(Flying)
<1>4. /\ strays \in Nat /\ timer \in BOOLEAN /\ hidden \in BOOLEAN /\ n \in Nat
      /\ n + strays + (IF timer THEN 1 ELSE 0) <= MaxPolls
  BY <1>3 DEF PollInv, Chains, Flying
<1>5. /\ timer' = (timer \/ ~hidden) /\ hidden' = hidden
      /\ strays' = IF timer /\ ~hidden THEN strays + 1 ELSE strays
  BY DEF NextPoll
<1>6. Chains' = (n - 1) + strays'
  BY <1>3 DEF Chains, Flying
<1> HIDE DEF n
<1>7. strays' \in Nat /\ timer' \in BOOLEAN /\ hidden' \in BOOLEAN
  BY <1>4, <1>5
<1>8. (n - 1) + strays' + (IF timer' THEN 1 ELSE 0) <= MaxPolls
  BY <1>4, <1>5, PageAssumption
<1>9. hidden' \/ timer'
  <2>1. CASE hidden
    BY <1>5, <2>1
  <2>2. CASE ~hidden
    BY <1>5, <2>2
  <2> QED BY <2>1, <2>2
<1> QED BY <1>3, <1>6, <1>7, <1>8, <1>9 DEF PollInv, PollingNeverDies

\* Where a poll that begins has its place from.
PlaceTaken ==
  \/ Chains < MaxPolls /\ UNCHANGED strays
  \/ (timer \/ strays > 0) /\ strays' = IF strays > 0 THEN strays - 1 ELSE 0

\* The user's actions and the timers that start a poll.
LEMMA PollStarts ==
  ASSUME PollInv, Poll, hidden' \in BOOLEAN, PlaceTaken
  PROVE  PollInv'
<1> DEFINE n == Cardinality(Flying)
<1>1. /\ DOMAIN polls = 1 .. MaxPolls /\ n \in Nat /\ strays \in Nat /\ timer \in BOOLEAN
      /\ n + strays + (IF timer THEN 1 ELSE 0) <= MaxPolls
      /\ Chains = n + strays
  BY Polls DEF PollInv, Chains, Flying
<1>2. timer' = FALSE
  BY DEF Poll
<1>3. strays' \in Nat /\ n < MaxPolls /\ n + 1 + strays' <= MaxPolls
  <2> HIDE DEF n
  <2> QED BY <1>1, PageAssumption DEF PlaceTaken
<1>4. DOMAIN polls' = 1 .. MaxPolls /\ Cardinality(Flying') = n + 1
  BY <1>1, <1>3, PollBegins
<1>5. Chains' = n + 1 + strays'
  BY <1>4 DEF Chains, Flying
<1> HIDE DEF n
<1>6. n + 1 + strays' > 0 /\ n + 1 + strays' + (IF timer' THEN 1 ELSE 0) <= MaxPolls
  <2>1. n + 1 + strays' > 0
    <3>1. \A i, j \in Nat : i + 1 + j > 0
      OBVIOUS
    <3> QED BY <1>1, <1>3, <3>1
  <2>2. (IF timer' THEN 1 ELSE 0) = 0
    BY <1>2
  <2>3. n + 1 + strays' + 0 = n + 1 + strays'
    BY <1>1, <1>3
  <2> QED BY <1>3, <2>1, <2>2, <2>3
<1>7. strays' \in Nat /\ timer' \in BOOLEAN /\ DOMAIN polls' = 1 .. MaxPolls
  BY <1>2, <1>3, <1>4
<1> QED BY <1>5, <1>6, <1>7 DEF PollInv, PollingNeverDies

\* Every step keeps the polling alive.
LEMMA NextPollInv ==
  ASSUME PollInv, [PNext]_pvars
  PROVE  PollInv'
<1>1. ASSUME UNCHANGED <<Flying, DOMAIN polls, timer, strays>>,
             hidden' \in BOOLEAN, hidden => hidden'
      PROVE  PollInv'
  <2>1. Chains' = Chains
    BY <1>1 DEF Chains, Flying
  <2> QED BY <1>1, <2>1 DEF PollInv, PollingNeverDies
<1>2. ASSUME UNCHANGED <<polls, timer, strays, hidden>> PROVE PollInv'
  BY <1>2 DEF PollInv, PollingNeverDies, Chains, Which
<1>3. CASE Quietly(Pass) \/ Quietly(Publish) \/ Quietly(DTick) \/ Restart \/ UNCHANGED pvars
  BY <1>2, <1>3 DEF Quietly, Restart, pvars, pageVars
<1>4. CASE HttpTask
  <2>1. ASSUME NEW i \in DOMAIN polls, status_handler(i) PROVE PollInv'
    <3>1. /\ polls[i].at = "asked" /\ polls' = [polls EXCEPT ![i] = Answered(Status)]
          /\ UNCHANGED <<timer, strays, hidden>>
      BY <2>1 DEF status_handler, pageVars
    <3>2. Answered(Status).at = "answered"
      BY DEF Answered
    <3> DEFINE x == Answered(Status)
    <3> HIDE DEF x
    <3>3. UNCHANGED <<Flying, DOMAIN polls>>
      <4>1. polls' = [polls EXCEPT ![i] = x] /\ x.at = "answered"
        BY <3>1, <3>2 DEF x
      <4>2. DOMAIN polls' = DOMAIN polls
        BY <4>1
      <4>3. \A j \in DOMAIN polls : polls'[j].at = "free" <=> polls[j].at = "free"
        BY <3>1, <4>1
      <4> QED BY <4>2, <4>3 DEF Flying, Which
    <3>4. hidden' \in BOOLEAN /\ (hidden => hidden')
      BY <3>1 DEF PollInv
    <3> QED BY <1>1, <3>1, <3>3, <3>4
  <2>2. CASE pump_handler \/ AnswerCommand
    BY <1>2, <2>2 DEF pump_handler, AnswerCommand, pageVars
  <2> QED BY <1>4, <2>1, <2>2 DEF HttpTask
<1>5. CASE User
  <2>1. CASE OpenTab \/ LateRefresh
    BY <2>1, PollStarts DEF OpenTab, LateRefresh, RefreshNow, PollInv, PlaceTaken
  <2>2. CASE Show
    BY <2>2, PollStarts DEF Show, PlaceTaken
  <2>3. CASE Hide
    <3>1. UNCHANGED <<polls, timer, strays>> /\ hidden' = TRUE
      BY <2>3 DEF Hide
    <3>2. UNCHANGED <<Flying, DOMAIN polls>>
      BY <3>1 DEF Flying, Which
    <3> QED BY <1>1, <3>1, <3>2
  <2>4. CASE Slide \/ Fire \/ AutoChip
    BY <1>2, <2>4 DEF Slide, Fire, AutoChip, command
  <2> QED BY <1>5, <2>1, <2>2, <2>3, <2>4 DEF User
<1>6. CASE Browser
  <2>1. CASE TimerFires
    BY <2>1, PollStarts DEF TimerFires, PollInv, PlaceTaken
  <2>2. ASSUME NEW i \in DOMAIN polls, PollAnswered(i) \/ PollFails(i) PROVE PollInv'
    BY <2>2, PollEnds DEF PollAnswered, PollFails
  <2>3. CASE CommandAnswered \/ CommandFails
    BY <1>2, <2>3 DEF CommandAnswered, CommandFails
  <2> QED BY <1>6, <2>1, <2>2, <2>3 DEF Browser
<1> QED BY <1>3, <1>4, <1>5, <1>6 DEF PNext

\* Whatever fails, however often it is hidden, shown and clicked, a visible page has a
\* poll in flight or a timer for one, for every number of polls.
THEOREM PagePolls == PSpec => []PollingNeverDies
<1>1. PInit => PollInv
  <2> SUFFICES ASSUME PInit PROVE PollInv
    OBVIOUS
  <2> DEFINE idle == [i \in 1 .. MaxPolls |-> Free]
             c == CHOOSE i \in Which(idle, "free") : TRUE
  <2>1. Which(idle, "free") = 1 .. MaxPolls
    BY DEF Which, Free
  <2>2. 1 \in 1 .. MaxPolls
    BY PageAssumption
  <2>3. c \in 1 .. MaxPolls
    BY <2>1, <2>2
  <2>4. polls = [idle EXCEPT ![c] = Asked]
    BY DEF PInit, Ask
  <2> HIDE DEF c
  <2>5. DOMAIN polls = 1 .. MaxPolls
    BY <2>4
  <2>6. \A i \in 1 .. MaxPolls : polls[i] = IF i = c THEN Asked ELSE Free
    BY <2>3, <2>4
  <2>7. Flying = {c}
    BY <2>3, <2>5, <2>6 DEF Flying, Which, Asked, Free
  <2>8. Cardinality(Flying) = 1
    <3>1. Cardinality({} \union {c}) = 1
      BY FS_AddElement, FS_EmptySet
    <3> QED BY <2>7, <3>1
  <2>9. strays = 0 /\ timer = FALSE /\ hidden = FALSE
    BY DEF PInit
  <2>10. Chains = 1
    BY <2>8, <2>9 DEF Chains, Flying
  <2>11. 1 > 0 /\ 0 \in Nat /\ 1 + (IF timer THEN 1 ELSE 0) <= MaxPolls
    BY <2>9, PageAssumption
  <2> QED BY <2>5, <2>9, <2>10, <2>11 DEF PollInv, PollingNeverDies
<1>2. PollInv /\ [PNext]_pvars => PollInv'
  BY NextPollInv
<1>3. PollInv => PollingNeverDies
  BY DEF PollInv
<1> QED BY <1>1, <1>2, <1>3, PTL DEF PSpec
=============================================================================
