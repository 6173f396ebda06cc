----------------------------- MODULE EventQueue -----------------------------
(***************************************************************************)
(* The event queue of source/EventQueue/EventQueueClassic.h: callbacks     *)
(* posted from threads and interrupt handlers, run by dispatch() in the    *)
(* main loop, delayed ones brought forward by the interrupt of one ticker. *)
(* Each action is a critical section or an interrupt handler.  The queue   *)
(* is the ordered list of SortedList, the nodes of PriorityQueue being the *)
(* handles.  Time is counted in instants, Resolution to the millisecond,   *)
(* and only relative to the present.                                       *)
(***************************************************************************)
EXTENDS SortedListOps

CONSTANTS Handle,      \* the nodes of the priority queue
          Delay,       \* the delays callers post with, in milliseconds
          Resolution,  \* clock instants in a millisecond
          Latency      \* bound: instants the ticker's interrupt may be late

ASSUME DelayAssumption == Delay \subseteq Nat
ASSUME ResolutionAssumption == Resolution \in Nat \ {0}
ASSUME LatencyAssumption == Latency \in Nat

VARIABLES
  list,                \* _events_queue: the posted events, ordered by remaining time
  remaining,           \* Event::_ms_remaining_time
  period,              \* Event::_ms_repeat_period
  timed_event_pending, \* _timed_event_pending
  ticker,              \* _ticker: [attached, left], left instants until its interrupt is due
  timer,               \* _timer: [running, elapsed]
  due,                 \* instants until the time the caller asked for, 0 once it has come
  spinning             \* cancel() is in the loop of erase() with interrupts disabled

clocks == <<timed_event_pending, ticker, timer>>
vars == <<list, remaining, period, clocks, due, spinning>>

Posted == ToSet(list)
Timed == {h \in Posted : remaining[h] # 0}

RemainingOf(s) == [i \in 1 .. Len(s) |-> remaining[s[i]]]

(* h is the first event of s that has a time to wait, the times being rem. *)
IsFirstTimed(s, rem, h) ==
  \E i \in 1 .. Len(s) :
    /\ s[i] = h
    /\ rem[h] # 0
    /\ \A j \in 1 .. i - 1 : rem[s[j]] = 0

-----------------------------------------------------------------------------
Init ==
  /\ list = <<>>
  /\ remaining = [h \in Handle |-> 0]
  /\ period = [h \in Handle |-> 0]
  /\ timed_event_pending = FALSE
  /\ ticker = [attached |-> FALSE, left |-> 0]
  /\ timer = [running |-> FALSE, elapsed |-> 0]
  /\ due = [h \in Handle |-> 0]
  /\ spinning = FALSE

(* Timer::read_ms(): whole milliseconds.                                   *)
read_ms_Up == (timer.elapsed + Resolution - 1) \div Resolution  \* mutant: rounds up
read_ms == timer.elapsed \div Resolution

(* update_ticker(ms)                                                       *)
update_ticker(ms) ==
  /\ timed_event_pending' = TRUE
  /\ ticker' = [attached |-> TRUE, left |-> ms * Resolution]

(* Timer::start() lets a running timer run on.                             *)
start_timer_Forgotten == UNCHANGED timer  \* mutant: the timer is not started
start_timer == timer' = [timer EXCEPT !.running = TRUE]

(* Timer::stop(), reset(), and start() again if an event waits.            *)
restart_timer_NoReset(waits) ==  \* mutant: reset() is missing
  timer' = [timer EXCEPT !.running = waits]
restart_timer(waits) == timer' = [running |-> waits, elapsed |-> 0]

(* update_ticker(node, ms): the ticker is set if h is the first event that waits. *)
update_ticker_if_first_Never(h, ms) ==  \* mutant: a shorter wait does not set the ticker
  UNCHANGED <<timed_event_pending, ticker>>
update_ticker_if_first(h, ms) ==
  IF IsFirstTimed(list', remaining', h)
  THEN update_ticker(ms)
  ELSE UNCHANGED <<timed_event_pending, ticker>>

(* push() or, once the event is unlinked, insert_after(): h enters s to wait ms. *)
Enqueue_Front(s, h, ms) ==  \* mutant: the event is linked at the head, whatever it waits
  /\ remaining' = [remaining EXCEPT ![h] = ms]
  /\ list' = <<h>> \o s
Enqueue(s, h, ms) ==
  /\ remaining' = [remaining EXCEPT ![h] = ms]
  /\ \E i \in 1 .. Len(s) + 1 :
       /\ IsInsertionPoint(RemainingOf(s), ms, i)
       /\ list' = InsertAt(s, i, h)

(* The event h, not in s, is to run in ms milliseconds.  The time it waits
   counts from the last reset of the timer; the ticker is set again only when
   h is now the first event to wait for.                                   *)
Schedule(s, h, ms) ==
  \/ /\ ~timed_event_pending
     /\ update_ticker(ms)
     /\ start_timer
     /\ Enqueue(s, h, ms)
  \/ /\ timed_event_pending
     /\ Enqueue(s, h, ms + read_ms)
     /\ UNCHANGED timer
     /\ update_ticker_if_first(h, ms)

(* do_post(): nothing is posted when every node is used, or with a period of 0. *)
Post(d, repeat) ==
  /\ ~spinning
  /\ repeat => d # 0
  /\ \E h \in Handle \ Posted :
       /\ period' = [period EXCEPT ![h] = IF repeat THEN d ELSE 0]
       /\ due' = [due EXCEPT ![h] = d * Resolution]
       /\ IF d = 0
          THEN Enqueue(list, h, 0) /\ UNCHANGED clocks
          ELSE Schedule(list, h, d)
  /\ UNCHANGED spinning

(* What is left of a wait of ms milliseconds when the timer is reset.      *)
CountDown_Unclamped(ms) == ms - read_ms  \* mutant: an event that is late waits less than 0
CountDown_Kept(ms) == IF ms <= read_ms THEN 0 ELSE ms  \* mutant: nothing is taken off
CountDown(ms) == IF ms <= read_ms THEN 0 ELSE ms - read_ms

(* updateTime() of the events in s: the timer restarts from 0, what it had
   counted is taken off the waiting times, and the ticker is set for the first
   event that still waits.                                                 *)
UpdateTime(s) ==
  /\ remaining' = [h \in Handle |->
                     IF h \in ToSet(s) /\ remaining[h] # 0 THEN CountDown(remaining[h]) ELSE 0]
  /\ \/ /\ \A i \in 1 .. Len(s) : remaining'[s[i]] = 0
        /\ timed_event_pending' = FALSE
        /\ ticker' = [attached |-> FALSE, left |-> 0]
        /\ restart_timer(FALSE)
     \/ \E i \in 1 .. Len(s) :
          /\ IsFirstTimed(s, remaining', s[i])
          /\ update_ticker(remaining'[s[i]])
          /\ restart_timer(TRUE)

(* The interrupt of the ticker.                                            *)
TickerInterrupt ==
  /\ ~spinning
  /\ ticker.attached
  /\ ticker.left <= 0
  /\ UpdateTime(list)
  /\ UNCHANGED <<list, period, due, spinning>>

(* cancel() of an event that has not run: erase() finds the first two nodes of
   the queue, and never returns for another one.                           *)
Cancel(h) ==
  /\ ~spinning
  /\ \E i \in 1 .. Len(list) :
       /\ list[i] = h
       /\ \/ /\ i <= 2
             /\ list' = RemoveAt(list, i)
             /\ UpdateTime(list')
             /\ period' = [period EXCEPT ![h] = 0]
             /\ due' = [due EXCEPT ![h] = 0]
             /\ UNCHANGED spinning
          \/ /\ i > 2
             /\ spinning' = TRUE
             /\ UNCHANGED <<list, remaining, period, clocks, due>>

(* dispatch() takes an event that has no time left to wait.                *)
IsDue_Soon(h) == remaining[h] <= 1  \* mutant: off by one
IsDue(h) == remaining[h] = 0

(* The critical section of dispatch(), which takes the event at the head once
   its time has come: an event that repeats is put back by reschedule_event(),
   another one is popped.  Its callback runs with interrupts enabled, so what
   it posts and cancels are steps of their own.                            *)
Dispatch ==
  /\ ~spinning
  /\ list # <<>>
  /\ LET h == Head(list)
     IN /\ IsDue(h)
        /\ \/ /\ period[h] = 0
              /\ list' = Tail(list)
              /\ due' = [due EXCEPT ![h] = 0]
              /\ UNCHANGED <<remaining, clocks>>
           \/ /\ period[h] # 0
              /\ due' = [due EXCEPT ![h] = period[h] * Resolution]
              /\ Schedule(Tail(list), h, period[h])
  /\ UNCHANGED <<period, spinning>>

(* Time passes, but the interrupt of the ticker is at most Latency late.   *)
Tick ==
  /\ ~spinning
  /\ ticker.attached => ticker.left > -Latency
  /\ ticker' = [ticker EXCEPT !.left = IF ticker.attached THEN @ - 1 ELSE @]
  /\ timer' = [timer EXCEPT !.elapsed = IF timer.running THEN @ + 1 ELSE @]
  /\ due' = [h \in Handle |-> IF due[h] = 0 THEN 0 ELSE due[h] - 1]
  /\ UNCHANGED <<list, remaining, period, timed_event_pending, spinning>>

(* The loop of erase() goes round.                                         *)
Spin == spinning /\ UNCHANGED vars

Next ==
  \/ \E d \in Delay, repeat \in BOOLEAN : Post(d, repeat)
  \/ \E h \in Handle : Cancel(h)
  \/ TickerInterrupt
  \/ Dispatch
  \/ Tick
  \/ Spin

Spec == Init /\ [][Next]_vars

(* The main loop calls dispatch() for ever, time passes, and an interrupt that
   is due is taken.  Nothing forces a caller to post or to cancel.         *)
Fairness == WF_vars(Dispatch) /\ WF_vars(Tick) /\ WF_vars(TickerInterrupt)

FairSpec == Spec /\ Fairness

-----------------------------------------------------------------------------
EventsOK ==
  /\ list \in Seq(Handle)
  /\ remaining \in [Handle -> Nat]
  /\ period \in [Handle -> Nat]
  /\ due \in [Handle -> Nat]

ClocksOK ==
  /\ timed_event_pending \in BOOLEAN
  /\ ticker \in [attached : BOOLEAN, left : Int]
  /\ timer \in [running : BOOLEAN, elapsed : Nat]

(* No waiting time is counted down below 0, and no clock runs backwards.   *)
TypeOK == EventsOK /\ ClocksOK /\ spinning \in BOOLEAN

(* Instants until the queue will find that the time of h has come.         *)
Wait(h) == remaining[h] * Resolution - timer.elapsed

(* dispatch() only looks at the head and do_post() only compares a new event
   with the first that waits, so both rely on the list being in the order of
   the remaining times, whatever was posted, rescheduled, cancelled and counted
   down in between.                                                        *)
Ordered == IsOrdered(RemainingOf(list)) /\ NoDuplicates(list)

(* The flag, the ticker and the timer, which five functions set and clear one
   by one, always agree with each other and with the queue: they run exactly
   while an event waits for its time.                                      *)
ClocksFollowQueue ==
  /\ timed_event_pending <=> Timed # {}
  /\ ticker.attached <=> timed_event_pending
  /\ timer.running <=> timed_event_pending

(* The ticker is set for the event that waits the shortest: its interrupt
   neither comes before that event's time, which would count down nothing, nor
   a whole millisecond after it.                                           *)
TickerTracksFirst ==
  \A h \in Handle :
    IsFirstTimed(list, remaining, h) =>
      /\ Wait(h) <= ticker.left
      /\ ticker.left < Wait(h) + Resolution

(* An event that dispatch() may take has come to its time, but for less than
   the millisecond that read_ms() rounds off.                              *)
LessThanOneMsEarly ==
  \A h \in Posted : remaining[h] = 0 => due[h] < Resolution

(* What a step may do to the wait of an event that waits before and after it:
   an instant passes, or less than a millisecond is added.                 *)
StepKeepsWaits ==
  \A h \in Timed : h \in Timed' =>
    /\ Wait(h)' >= Wait(h) - 1
    /\ Wait(h)' < Wait(h) + Resolution

(* Whatever else is posted, cancelled, run or counted down, the moment a waiting
   event is brought forward is never moved earlier, and one step moves it by
   less than a millisecond.                                                *)
WaitsAreKept == [][StepKeepsWaits]_vars

(* The queue keeps the promise of EventService: no event is lost, runs twice,
   runs after it was cancelled, or runs a millisecond early.               *)
Service == INSTANCE EventService WITH posted <- Posted

ImplementsEventService == Service!Spec

(* An event whose time has come runs, or is cancelled, unless the main loop is
   stuck in erase(): immediate events that keep being posted do not starve it. *)
ReadyRuns ==
  \A h \in Handle :
    (h \in Posted /\ remaining[h] = 0)
      ~> (h \notin Posted \/ remaining[h] # 0 \/ spinning)

(* Once h waits, its time comes or h is cancelled, unless the main loop is stuck. *)
WaitEnds(h) == h \in Timed ~> (h \notin Timed \/ spinning)

(* Another event is cancelled while h waits: updateTime() resets the timer and
   takes whole milliseconds off, so what it had counted of the next is lost,
   and h waits that much longer.                                           *)
LosesFraction(h) ==
  /\ h \in Timed
  /\ timer.elapsed % Resolution # 0
  /\ \E g \in Handle \ {h} : Cancel(g)
  /\ ~spinning'

(* The time of a waiting event comes, whatever is posted, run, brought forward
   or cancelled in between: only cancels that lose a begun millisecond, and do
   so for ever while it waits, can put it off without end.                 *)
WaitingEnds ==
  \A h \in Handle : WaitEnds(h) \/ ([]<><<LosesFraction(h)>>_vars)

(* "handle to a posted event which will be executed later" (EventQueue.h:34),
   of the events that are to wait: the time of each comes, or it is cancelled,
   whatever else callers post and cancel.                                  *)
PostedWillBeExecuted == \A h \in Handle : WaitEnds(h)
=============================================================================
