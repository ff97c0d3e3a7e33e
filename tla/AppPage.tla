------------------------------ MODULE AppPage -------------------------------
(***************************************************************************)
(* The page of web/app.html against the device.  Its requests are in       *)
(* flight side by side (one connection each) and come back in any order,   *)
(* or not at all; the HTTP task handles them one at a time.  Of the status *)
(* the model keeps what the page compares and acts on; the events and the  *)
(* history it loads are only shown, and left out with the settings.        *)
(*                                                                         *)
(* A poll (refresh) that ends sets a timer for the next one and stores its *)
(* number in "timer"; a timer whose number was overwritten can no longer   *)
(* be cleared.  All of these have the same delay, so the overwritten ones  *)
(* fire first.  The timer that a reboot starts polls too (LateRefresh).    *)
(***************************************************************************)
EXTENDS Device, FiniteSets

CONSTANTS
  None,           \* no answer yet
  MaxPolls,       \* bounds: polls in flight or waiting for their timer,
  MaxOrders       \* commands given

ASSUME PageAssumption ==
  /\ MaxPolls \in Nat \ {0} /\ MaxOrders \in Nat

VARIABLES
  polls,          \* requests for the status
  order,          \* the command in flight
  orders,         \* commands given so far
  state,          \* the status shown
  eventsSeen,     \* the status for which the events were asked
  busy,
  sliding,        \* the swipe has been started
  hidden,
  timer,          \* the timer named by "timer" is running
  strays          \* timers running that no variable names

pageVars == <<state, eventsSeen, busy, sliding, hidden, timer, strays>>
pvars == <<deviceVars, polls, order, orders, pageVars>>

Free == [at |-> "free", answer |-> None]
Asked == [at |-> "asked", answer |-> None]
Answered(x) == [at |-> "answered", answer |-> x]
Which(reqs, at) == {i \in DOMAIN reqs : reqs[i].at = at}
Ask(reqs) == [reqs EXCEPT ![CHOOSE i \in Which(reqs, "free") : TRUE] = Asked]

\* status_json: control_status takes s_lock; the thresholds it adds are changed by
\* this task only.
Status ==
  [ on            |-> s_state.on,
    reason        |-> s_state.reason,
    manual        |-> s_state.manual,
    starts        |-> s_starts_boot,
    sensor_failed |-> s_state.sensor_failed,
    overheat      |-> s_state.overheat ]

PInit ==
  /\ DInit
  /\ polls = Ask([i \in 1 .. MaxPolls |-> Free])
  /\ order = [at |-> "free", manual |-> "none", answer |-> None]
  /\ orders = 0
  /\ state = None
  /\ eventsSeen = None
  /\ busy = FALSE
  /\ sliding = FALSE
  /\ hidden = FALSE
  /\ timer = FALSE
  /\ strays = 0

-----------------------------------------------------------------------------
(***************************************************************************)
(* The HTTP task: one handler at a time.  A command that was accepted is   *)
(* answered with the status as it is when s_lock has been taken again.     *)
(***************************************************************************)

HttpIdle == order.at # "executed"

status_handler(i) ==
  /\ HttpIdle /\ LockFree
  /\ polls[i].at = "asked"
  /\ polls' = [polls EXCEPT ![i] = Answered(Status)]
  /\ UNCHANGED <<deviceVars, order, orders, pageVars>>

pump_handler ==
  /\ HttpIdle /\ LockFree
  /\ order.at = "asked"
  /\ \/ /\ ManualRefused(s_state, order.manual)
        /\ order' = [order EXCEPT !.at = "refused"]
        /\ UNCHANGED deviceVars
     \/ /\ Command(order.manual)
        /\ order' = [order EXCEPT !.at = "executed"]
  /\ UNCHANGED <<polls, orders, pageVars>>

AnswerCommand ==
  /\ LockFree
  /\ order.at = "executed"
  /\ order' = [order EXCEPT !.at = "answered", !.answer = Status]
  /\ UNCHANGED <<deviceVars, polls, orders, pageVars>>

-----------------------------------------------------------------------------
(***************************************************************************)
(* The page: refresh.                                                      *)
(***************************************************************************)

\* Bug: a poll that fails sets no timer.
NextPollOnSuccess(failed) ==
  /\ timer' = (timer \/ ~(hidden \/ failed))
  /\ strays' = IF timer /\ ~(hidden \/ failed) THEN strays + 1 ELSE strays

\* The end of refresh, after an answer or a failure: the next poll, unless hidden.
NextPoll(failed) ==
  /\ timer' = (timer \/ ~hidden)
  /\ strays' = IF timer /\ ~hidden THEN strays + 1 ELSE strays

\* Its beginning: the timer is cleared and the status asked for.
Poll == timer' = FALSE /\ polls' = Ask(polls)

Chains == Cardinality(DOMAIN polls \ Which(polls, "free")) + strays

TimerFires ==
  /\ timer \/ strays > 0
  /\ strays' = IF strays > 0 THEN strays - 1 ELSE 0
  /\ Poll
  /\ UNCHANGED <<deviceVars, order, orders, state, eventsSeen, busy,
                 sliding, hidden>>

\* The other callers of refresh poll at once, beside the polls and timers there are.
RefreshNow ==
  /\ Chains < MaxPolls
  /\ Poll
  /\ UNCHANGED <<deviceVars, order, orders, state, eventsSeen, busy, sliding,
                 hidden, strays>>

OpenTab == ~hidden /\ RefreshNow

\* An update check was accepted, or the 8 s after a reboot are over: the page may have
\* been hidden meanwhile.
LateRefresh == RefreshNow

Hide ==
  /\ ~hidden
  /\ hidden' = TRUE
  /\ UNCHANGED <<deviceVars, polls, order, orders, state, eventsSeen,
                 busy, sliding, timer, strays>>

Show ==
  /\ hidden
  /\ Chains < MaxPolls
  /\ hidden' = FALSE
  /\ Poll
  /\ UNCHANGED <<deviceVars, order, orders, state, eventsSeen, busy,
                 sliding, strays>>

\* Bug: an answer with fewer starts than the one shown is taken for an older one.
PollAnsweredInOrder(i) ==
  /\ polls[i].at = "answered"
  /\ state' = IF state # None /\ polls[i].answer.starts < state.starts
               THEN state ELSE polls[i].answer
  /\ eventsSeen' = state'
  /\ polls' = [polls EXCEPT ![i] = Free]
  /\ NextPoll(FALSE)
  /\ UNCHANGED <<deviceVars, order, orders, busy, sliding, hidden>>

\* The answer is shown; the events are asked for when it differs from the last poll's.
PollAnswered(i) ==
  /\ polls[i].at = "answered"
  /\ state' = polls[i].answer
  /\ eventsSeen' = state'
  /\ polls' = [polls EXCEPT ![i] = Free]
  /\ NextPoll(FALSE)
  /\ UNCHANGED <<deviceVars, order, orders, busy, sliding, hidden>>

\* For a request that only reads it is the same whether it or its answer was lost.
PollFails(i) ==
  /\ polls[i].at = "answered"
  /\ polls' = [polls EXCEPT ![i] = Free]
  /\ NextPoll(TRUE)
  /\ UNCHANGED <<deviceVars, order, orders, state, eventsSeen, busy,
                 sliding, hidden>>

-----------------------------------------------------------------------------
(***************************************************************************)
(* The page: commands.  One finger: the swipe and the button exclude each  *)
(* other.                                                                  *)
(***************************************************************************)

\* canStart, when the swipe begins.
Slide ==
  /\ ~hidden /\ ~sliding /\ ~busy /\ orders < MaxOrders /\ numbered < MaxEvents
  /\ state # None
  /\ ~(state.on /\ state.overheat)
  /\ sliding' = TRUE
  /\ UNCHANGED <<deviceVars, polls, order, orders, state, eventsSeen,
                 busy, hidden, timer, strays>>

command(manual) ==
  /\ busy' = TRUE
  /\ order' = [at |-> "asked", manual |-> manual, answer |-> None]
  /\ orders' = orders + 1
  /\ UNCHANGED <<deviceVars, polls, state, eventsSeen, hidden, timer,
                 strays>>

\* onFire, when it ends: on the status shown by then.
Fire == sliding /\ sliding' = FALSE /\ command(IF state.on THEN "stop" ELSE "start")

AutoChip ==
  /\ ~hidden /\ ~sliding /\ ~busy /\ orders < MaxOrders /\ numbered < MaxEvents
  /\ command("none")
  /\ UNCHANGED sliding

CommandAnswered ==
  /\ order.at = "answered"
  /\ state' = order.answer
  /\ busy' = FALSE
  /\ order' = [order EXCEPT !.at = "free", !.answer = None]
  /\ UNCHANGED <<deviceVars, polls, orders, eventsSeen, sliding, hidden, timer,
                 strays>>

\* Refused, lost on its way, or executed and the answer lost.
CommandFails ==
  /\ order.at # "free"
  /\ busy' = FALSE
  /\ order' = [order EXCEPT !.at = "free", !.answer = None]
  /\ UNCHANGED <<deviceVars, polls, orders, state, eventsSeen, sliding,
                 hidden, timer, strays>>

-----------------------------------------------------------------------------

\* The handler in progress dies with the device.
Restart ==
  /\ DReboot
  /\ order' = IF HttpIdle THEN order ELSE [order EXCEPT !.at = "refused"]
  /\ UNCHANGED <<polls, orders, pageVars>>

Quietly(A) == A /\ UNCHANGED <<polls, order, orders, pageVars>>

HttpTask ==
  \/ \E i \in DOMAIN polls : status_handler(i)
  \/ pump_handler
  \/ AnswerCommand

User == OpenTab \/ LateRefresh \/ Hide \/ Show \/ Slide \/ Fire \/ AutoChip

Browser ==
  \/ TimerFires
  \/ \E i \in DOMAIN polls : PollAnswered(i) \/ PollFails(i)
  \/ CommandAnswered
  \/ CommandFails

PNext ==
  \/ Quietly(Pass) \/ Quietly(Publish) \/ Quietly(DTick)
  \/ HttpTask \/ User \/ Browser \/ Restart

PSpec == PInit /\ [][PNext]_pvars

ServeStatus == \E i \in DOMAIN polls : status_handler(i)
PollThrough == \E i \in DOMAIN polls : PollAnswered(i)

\* The lock is given back, timers fire, a command ends for the page with or without an
\* answer; the HTTP task takes its sockets in turn, and of the requests sent again and
\* again some come through.  Nothing obliges the user, the sensor or the clock.
PFairness ==
  /\ WF_pvars(Quietly(Publish))
  /\ WF_pvars(TimerFires)
  /\ WF_pvars(CommandAnswered \/ CommandFails)
  /\ WF_pvars(ServeStatus)
  /\ SF_pvars(PollThrough)

PFairSpec == PSpec /\ PFairness

-----------------------------------------------------------------------------
(***************************************************************************)
(* Properties                                                              *)
(***************************************************************************)

\* A visible page always has a poll in flight or a timer running for it: whatever
\* fails, however often it is hidden, shown and clicked, it does not freeze.
PollingNeverDies == hidden \/ timer \/ Chains > 0

\* Answers may come late and in the wrong order, so that the page shows an old status
\* and swipes on it; but once the controller comes to rest, a page that stays open
\* shows, and compares with, the status it has.
StatusCatchesUp ==
  <>[]~hidden => <>[](state = Status /\ eventsSeen = Status)
=============================================================================
