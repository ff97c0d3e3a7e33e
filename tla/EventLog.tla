------------------------------ MODULE EventLog ------------------------------
(***************************************************************************)
(* The ring of events.c.  decide_locked publishes from the control task    *)
(* and from the HTTP task, both under s_lock; events_handler of api.c      *)
(* copies from the HTTP task without s_lock.  Each of the two is one       *)
(* critical section of s_mux and therefore one step.  The message that     *)
(* events_publish queues after it is in module Device.                     *)
(***************************************************************************)
EXTENDS Naturals, Sequences

CONSTANTS
  EVENTS_RING_SIZE,
  Events,           \* what is published
  NoEvent           \* the contents of a slot never written

ASSUME EventLogAssumption ==
  /\ EVENTS_RING_SIZE \in Nat \ {0}
  /\ NoEvent \notin Events

VARIABLES
  s_ring,
  s_head,           \* next write position
  s_count,
  list,             \* what the last events_handler since boot copied
  given             \* history: the last event published since boot, if any

vars == <<s_ring, s_head, s_count, list, given>>

Slots == 0 .. EVENTS_RING_SIZE - 1

\* The memory after a reset, and events_init.
Init ==
  /\ s_ring = [i \in Slots |-> NoEvent]
  /\ s_head = 0
  /\ s_count = 0
  /\ list = <<>>
  /\ given = <<>>

\* Bug: the event is stored where the head points after it moved.
PublishAfterMove(e) ==
  /\ s_head' = (s_head + 1) % EVENTS_RING_SIZE
  /\ s_ring' = [s_ring EXCEPT ![s_head'] = e]
  /\ s_count' = IF s_count < EVENTS_RING_SIZE THEN s_count + 1 ELSE s_count
  /\ given' = <<e>>
  /\ UNCHANGED list

events_publish(e) ==
  /\ s_ring' = [s_ring EXCEPT ![s_head] = e]
  /\ s_head' = (s_head + 1) % EVENTS_RING_SIZE
  /\ s_count' = IF s_count < EVENTS_RING_SIZE THEN s_count + 1 ELSE s_count
  /\ given' = <<e>>
  /\ UNCHANGED list

\* The i-th newest event, from 1.
Recent(i) == s_ring[(s_head + EVENTS_RING_SIZE - i) % EVENTS_RING_SIZE]

events_recent(max) ==
  /\ list' = [i \in 1 .. (IF s_count < max THEN s_count ELSE max) |-> Recent(i)]
  /\ UNCHANGED <<s_ring, s_head, s_count, given>>

events_handler == events_recent(EVENTS_RING_SIZE)

\* A reset loses the log.
Reboot ==
  /\ s_ring' = [i \in Slots |-> NoEvent]
  /\ s_head' = 0
  /\ s_count' = 0
  /\ list' = <<>>
  /\ given' = <<>>

Next ==
  \/ \E e \in Events : events_publish(e)
  \/ events_handler
  \/ Reboot

Spec == Init /\ [][Next]_vars

-----------------------------------------------------------------------------
(***************************************************************************)
(* Properties                                                              *)
(***************************************************************************)

\* Every variable has its type; a slot within the count has been written, and a reader
\* never gets one that has not.
TypeOK ==
  /\ s_ring \in [Slots -> Events \union {NoEvent}]
  /\ s_head \in Slots
  /\ s_count \in 0 .. EVENTS_RING_SIZE
  /\ \A i \in 1 .. s_count : Recent(i) \in Events
  /\ list \in Seq(Events) /\ Len(list) <= EVENTS_RING_SIZE
  /\ given \in Seq(Events) /\ Len(given) <= 1

\* The log the ring stands for.
Log == INSTANCE RecentLog WITH
  Capacity <- EVENTS_RING_SIZE,
  Entries  <- Events,
  log      <- [i \in 1 .. s_count |-> Recent(i)],
  shown    <- list

\* Through every wrap of the head, with resets and readers at any point, the ring is
\* the log of the newest events, and a reader gets the newest first.
ImplementsRecentLog == Log!LSpec
=============================================================================
