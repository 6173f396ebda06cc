-------------------------- MODULE EventQueueProofs --------------------------
(***************************************************************************)
(* The event queue keeps the promise of EventService for every set of      *)
(* nodes, every set of delays and every resolution of the clock.           *)
(***************************************************************************)
EXTENDS EventQueue, ListLemmas

(* While no event waits the timer stands at 0.                             *)
Calm == ~timed_event_pending => timer.elapsed = 0 /\ ~timer.running

(* read_ms() rounds the time elapsed down.                                 *)
LEMMA ReadMs ==
  ASSUME timer.elapsed \in Nat
  PROVE  /\ read_ms \in Nat
         /\ read_ms * Resolution <= timer.elapsed
         /\ timer.elapsed < read_ms * Resolution + Resolution
<1> DEFINE v == timer.elapsed
<1>1. /\ v \div Resolution \in Nat
      /\ (v \div Resolution) * Resolution <= v
      /\ v < (v \div Resolution) * Resolution + Resolution
  BY ResolutionAssumption
<1> QED
  BY <1>1 DEF read_ms

LEMMA Product ==
  ASSUME NEW a \in Nat, NEW b \in Nat
  PROVE  /\ a * b \in Nat
         /\ b <= a => (a - b) * Resolution = a * Resolution - b * Resolution
         /\ (a + b) * Resolution = a * Resolution + b * Resolution
         /\ a <= b => a * Resolution <= b * Resolution
         /\ a * Resolution \in Nat
  BY ResolutionAssumption

-----------------------------------------------------------------------------
LEMMA EnqueueEffect ==
  ASSUME EventsOK, NEW s \in Seq(Handle), NEW h \in Handle, NEW ms \in Nat, Enqueue(s, h, ms)
  PROVE  /\ remaining' \in [Handle -> Nat]
         /\ remaining'[h] = ms
         /\ \A g \in Handle : g # h => remaining'[g] = remaining[g]
         /\ list' \in Seq(Handle)
         /\ ToSet(list') = ToSet(s) \cup {h}
         /\ NoDuplicates(s) /\ h \notin ToSet(s) => NoDuplicates(list')
<1>1. /\ remaining' \in [Handle -> Nat]
      /\ remaining'[h] = ms
      /\ \A g \in Handle : g # h => remaining'[g] = remaining[g]
  BY DEF Enqueue, EventsOK
<1>2. PICK i \in 1 .. Len(s) + 1 : list' = InsertAt(s, i, h)
  BY DEF Enqueue
<1> QED
  BY <1>1, <1>2, InsertAtProperties, InsertSet, InsertNoDuplicates

(* The wait w an event is given to run in ms milliseconds, with what the timer has
   counted, is at most a millisecond short.                                *)
LEMMA ScheduleEffect ==
  ASSUME EventsOK, timer.elapsed \in Nat, Calm,
         NEW s \in Seq(Handle), NEW h \in Handle, NEW ms \in Nat \ {0}, Schedule(s, h, ms)
  PROVE  /\ timer'.elapsed = timer.elapsed
         /\ \E w \in Nat \ {0} :
              /\ Enqueue(s, h, w)
              /\ ms * Resolution < w * Resolution - timer.elapsed + Resolution
<1>1. CASE ~timed_event_pending
  <2>1. timer' = [timer EXCEPT !.running = TRUE] /\ Enqueue(s, h, ms)
    BY <1>1 DEF Schedule, start_timer
  <2>2. timer'.elapsed = timer.elapsed
    BY <2>1
  <2>3. timer.elapsed = 0
    BY <1>1 DEF Calm
  <2>4. ms * Resolution < ms * Resolution - 0 + Resolution
    BY Product, ResolutionAssumption
  <2> QED
    BY <2>1, <2>2, <2>3, <2>4
<1>2. CASE timed_event_pending
  <2>1. timer' = timer /\ Enqueue(s, h, ms + read_ms)
    BY <1>2 DEF Schedule
  <2>2. ms + read_ms \in Nat \ {0}
    BY ReadMs
  <2>3. (ms + read_ms) * Resolution = ms * Resolution + read_ms * Resolution
    BY ReadMs, Product
  <2>4. ms * Resolution \in Nat /\ read_ms * Resolution \in Nat
    BY ReadMs, Product
  <2>5. ms * Resolution < (ms + read_ms) * Resolution - timer.elapsed + Resolution
    BY <2>3, <2>4, ReadMs, ResolutionAssumption
  <2> QED
    BY <2>1, <2>2, <2>5
<1> QED
  BY <1>1, <1>2

(* updateTime() keeps the moment an event is to run, but for the part of a
   millisecond that read_ms() does not see, by which it runs later.        *)
LEMMA UpdateTimeEffect ==
  ASSUME EventsOK, timer.elapsed \in Nat, NEW s, UpdateTime(s)
  PROVE  /\ remaining' \in [Handle -> Nat]
         /\ timer'.elapsed = 0
         /\ \A h \in Handle : remaining[h] = 0 => remaining'[h] = 0
         /\ \A h \in Handle : h \in ToSet(s) /\ remaining[h] # 0 =>
              IF remaining'[h] = 0
              THEN remaining[h] * Resolution <= timer.elapsed
              ELSE remaining[h] * Resolution - timer.elapsed <= remaining'[h] * Resolution
<1>1. timer'.elapsed = 0
  BY DEF UpdateTime, restart_timer
<1>2. remaining' = [h \in Handle |->
                      IF h \in ToSet(s) /\ remaining[h] # 0 THEN CountDown(remaining[h]) ELSE 0]
  BY DEF UpdateTime
<1>3. ASSUME NEW ms \in Nat \ {0}
      PROVE  /\ CountDown(ms) \in Nat
             /\ IF CountDown(ms) = 0
                THEN ms * Resolution <= timer.elapsed
                ELSE ms * Resolution - timer.elapsed <= CountDown(ms) * Resolution
  <2>1. /\ ms * Resolution \in Nat /\ read_ms * Resolution \in Nat /\ read_ms \in Nat
        /\ read_ms * Resolution <= timer.elapsed
    BY ReadMs, Product
  <2>2. CASE ms <= read_ms
    <3>1. CountDown(ms) = 0 /\ ms * Resolution <= read_ms * Resolution
      BY <2>1, <2>2, Product DEF CountDown
    <3> QED
      BY <2>1, <3>1
  <2>3. CASE ~(ms <= read_ms)
    <3>1. CountDown(ms) = ms - read_ms /\ CountDown(ms) \in Nat \ {0} /\ read_ms <= ms
      BY <2>1, <2>3 DEF CountDown
    <3>2. (ms - read_ms) * Resolution = ms * Resolution - read_ms * Resolution
      BY <2>1, <3>1, Product
    <3> QED
      BY <2>1, <3>1, <3>2
  <2> QED
    BY <2>2, <2>3
<1>4. ASSUME NEW h \in Handle
      PROVE  /\ remaining'[h] \in Nat
             /\ remaining[h] = 0 => remaining'[h] = 0
             /\ h \in ToSet(s) /\ remaining[h] # 0 =>
                  IF remaining'[h] = 0
                  THEN remaining[h] * Resolution <= timer.elapsed
                  ELSE remaining[h] * Resolution - timer.elapsed <= remaining'[h] * Resolution
  <2>1. remaining[h] \in Nat
    BY DEF EventsOK
  <2>2. CASE h \in ToSet(s) /\ remaining[h] # 0
    <3>1. remaining'[h] = CountDown(remaining[h])
      BY <1>2, <2>2
    <3> QED
      BY <1>3, <2>1, <2>2, <3>1
  <2>3. CASE ~(h \in ToSet(s) /\ remaining[h] # 0)
    BY <1>2, <2>3
  <2> QED
    BY <2>2, <2>3
<1> QED
  BY <1>1, <1>2, <1>4

-----------------------------------------------------------------------------
(* What each action does to the events, its clocks left aside.             *)
LEMMA PostEffect ==
  ASSUME EventsOK, timer.elapsed \in Nat, Calm,
         NEW d \in Delay, NEW repeat \in BOOLEAN, Post(d, repeat)
  PROVE  \E h \in Handle \ Posted, w \in Nat :
           /\ Enqueue(list, h, w)
           /\ period' = [period EXCEPT ![h] = IF repeat THEN d ELSE 0]
           /\ due' = [due EXCEPT ![h] = d * Resolution]
           /\ timer'.elapsed = timer.elapsed
           /\ IF w = 0 THEN d = 0
                       ELSE d * Resolution < w * Resolution - timer.elapsed + Resolution
<1>1. PICK h \in Handle \ Posted :
        /\ period' = [period EXCEPT ![h] = IF repeat THEN d ELSE 0]
        /\ due' = [due EXCEPT ![h] = d * Resolution]
        /\ IF d = 0 THEN Enqueue(list, h, 0) /\ UNCHANGED clocks ELSE Schedule(list, h, d)
  BY DEF Post
<1>2. d \in Nat /\ list \in Seq(Handle)
  BY DelayAssumption DEF EventsOK
<1>3. CASE d = 0
  <2>1. Enqueue(list, h, 0) /\ timer' = timer
    BY <1>1, <1>3 DEF clocks
  <2> QED
    BY <1>1, <1>3, <2>1
<1>4. CASE d # 0
  <2>1. /\ timer'.elapsed = timer.elapsed
        /\ \E w \in Nat \ {0} :
             /\ Enqueue(list, h, w)
             /\ d * Resolution < w * Resolution - timer.elapsed + Resolution
    BY <1>1, <1>2, <1>4, ScheduleEffect
  <2> QED
    BY <1>1, <2>1
<1> QED
  BY <1>3, <1>4

(* The event taken by dispatch() leaves the queue or is put back.          *)
LEMMA DispatchEffect ==
  ASSUME EventsOK, timer.elapsed \in Nat, Calm, Dispatch
  PROVE  \E h \in Posted :
           /\ h = Head(list) /\ list # <<>> /\ remaining[h] = 0
           /\ timer'.elapsed = timer.elapsed
           /\ period' = period
           /\ \/ /\ period[h] = 0
                 /\ list' = Tail(list)
                 /\ due' = [due EXCEPT ![h] = 0]
                 /\ remaining' = remaining
              \/ /\ period[h] # 0
                 /\ due' = [due EXCEPT ![h] = period[h] * Resolution]
                 /\ \E w \in Nat \ {0} :
                      /\ Enqueue(Tail(list), h, w)
                      /\ period[h] * Resolution < w * Resolution - timer.elapsed + Resolution
<1> DEFINE h == Head(list)
<1>1. list \in Seq(Handle) /\ list # <<>>
  BY DEF EventsOK, Dispatch
<1>2. h \in Posted /\ h \in Handle /\ Tail(list) \in Seq(Handle)
  <2>1. 1 \in DOMAIN list /\ h = list[1]
    BY <1>1
  <2> QED
    BY <1>1, <2>1 DEF Posted, ToSet
<1>3. remaining[h] = 0 /\ period' = period
  BY DEF Dispatch, IsDue
<1>4. CASE /\ period[h] = 0
           /\ list' = Tail(list)
           /\ due' = [due EXCEPT ![h] = 0]
           /\ UNCHANGED <<remaining, clocks>>
  <2>1. timer'.elapsed = timer.elapsed /\ remaining' = remaining
    BY <1>4 DEF clocks
  <2> HIDE DEF h
  <2> QED
    BY <1>1, <1>2, <1>3, <1>4, <2>1 DEF h
<1>5. CASE /\ period[h] # 0
           /\ due' = [due EXCEPT ![h] = period[h] * Resolution]
           /\ Schedule(Tail(list), h, period[h])
  <2>1. period[h] \in Nat \ {0}
    BY <1>2, <1>5 DEF EventsOK
  <2> HIDE DEF h
  <2>2. /\ timer'.elapsed = timer.elapsed
        /\ \E w \in Nat \ {0} :
             /\ Enqueue(Tail(list), h, w)
             /\ period[h] * Resolution < w * Resolution - timer.elapsed + Resolution
    BY <1>2, <1>5, <2>1, ScheduleEffect
  <2> QED
    BY <1>1, <1>2, <1>3, <1>5, <2>2 DEF h
<1> QED
  BY <1>4, <1>5 DEF Dispatch

LEMMA CancelEffect ==
  ASSUME EventsOK, timer.elapsed \in Nat, NEW h \in Handle, Cancel(h), ~spinning'
  PROVE  /\ \E i \in 1 .. Len(list) : list[i] = h /\ list' = RemoveAt(list, i)
         /\ UpdateTime(list')
         /\ period' = [period EXCEPT ![h] = 0]
         /\ due' = [due EXCEPT ![h] = 0]
  BY DEF Cancel

LEMMA StuckEffect ==
  ASSUME NEW h \in Handle, Cancel(h), spinning'
  PROVE  UNCHANGED <<list, remaining, period, due, clocks>>
  BY DEF Cancel

-----------------------------------------------------------------------------
(* What LessThanOneMsEarly says of an event that was brought forward, holds of a
   waiting one for the moment it will be: the time it was asked for has come
   or will come less than a millisecond later.                             *)
OnTime(h) ==
  IF remaining[h] = 0
  THEN due[h] < Resolution
  ELSE \/ due[h] = 0
       \/ due[h] < remaining[h] * Resolution - timer.elapsed + Resolution

EventInv ==
  /\ EventsOK
  /\ timer.elapsed \in Nat
  /\ NoDuplicates(list)
  /\ \A h \in Posted : OnTime(h)

LEMMA EventInvInit == Init => EventInv
<1> SUFFICES ASSUME Init
             PROVE  EventInv
  OBVIOUS
<1>1. list = <<>> /\ <<>> \in Seq(Handle)
  BY DEF Init
<1>2. Posted = {} /\ NoDuplicates(list)
  BY <1>1 DEF Posted, ToSet, NoDuplicates
<1>3. timer.elapsed = 0
  BY DEF Init
<1>4. EventsOK
  BY <1>1 DEF Init, EventsOK
<1> QED
  BY <1>2, <1>3, <1>4 DEF EventInv

(* An event that is given a new wait is on time when that wait is; the others are
   as they were.                                                           *)
LEMMA EnqueueOnTime ==
  ASSUME EventInv, NEW s \in Seq(Handle), NEW h \in Handle, NEW w \in Nat, NEW t \in Nat,
         ToSet(s) \subseteq Posted, h \notin ToSet(s), NoDuplicates(s),
         Enqueue(s, h, w),
         due' = [due EXCEPT ![h] = t],
         period' \in [Handle -> Nat],
         timer'.elapsed = timer.elapsed,
         IF w = 0 THEN t < Resolution ELSE t < w * Resolution - timer.elapsed + Resolution
  PROVE  EventInv'
<1>1. EventsOK'
  BY EnqueueEffect DEF EventInv, EventsOK
<1>2. NoDuplicates(list') /\ Posted' = ToSet(s) \cup {h}
  BY EnqueueEffect DEF EventInv, Posted
<1>3. OnTime(h)'
  <2>1. remaining'[h] = w /\ due'[h] = t
    BY EnqueueEffect DEF EventInv, EventsOK
  <2> QED
    BY <2>1 DEF OnTime
<1>4. ASSUME NEW g \in ToSet(s)
      PROVE  OnTime(g)'
  <2>1. g \in Posted /\ g \in Handle /\ g # h
    <3>1. g \in Handle
      BY DEF ToSet
    <3> QED
      BY <3>1
  <2>2. remaining'[g] = remaining[g] /\ due'[g] = due[g]
    BY <2>1, EnqueueEffect DEF EventInv, EventsOK
  <2> QED
    BY <2>1, <2>2 DEF EventInv, OnTime
<1> QED
  BY <1>1, <1>2, <1>3, <1>4 DEF EventInv

LEMMA PostInv ==
  ASSUME EventInv, Calm, NEW d \in Delay, NEW repeat \in BOOLEAN, Post(d, repeat)
  PROVE  EventInv'
<1>1. PICK h \in Handle \ Posted, w \in Nat :
        /\ Enqueue(list, h, w)
        /\ period' = [period EXCEPT ![h] = IF repeat THEN d ELSE 0]
        /\ due' = [due EXCEPT ![h] = d * Resolution]
        /\ timer'.elapsed = timer.elapsed
        /\ IF w = 0 THEN d = 0
                    ELSE d * Resolution < w * Resolution - timer.elapsed + Resolution
  BY PostEffect DEF EventInv
<1>2. d \in Nat /\ d * Resolution \in Nat /\ 0 * Resolution < Resolution
  BY DelayAssumption, ResolutionAssumption, Product
<1>3. period' \in [Handle -> Nat]
  BY <1>1, <1>2 DEF EventInv, EventsOK
<1>4. list \in Seq(Handle) /\ ToSet(list) \subseteq Posted /\ h \notin ToSet(list)
  BY DEF EventInv, EventsOK, Posted
<1> DEFINE t == d * Resolution
<1>5. IF w = 0 THEN t < Resolution ELSE t < w * Resolution - timer.elapsed + Resolution
  BY <1>1, <1>2
<1>6. due' = [due EXCEPT ![h] = t] /\ t \in Nat
  BY <1>1, <1>2
<1> HIDE DEF t
<1> QED
  BY <1>1, <1>3, <1>4, <1>5, <1>6, EnqueueOnTime DEF EventInv

LEMMA DispatchInv ==
  ASSUME EventInv, Calm, Dispatch
  PROVE  EventInv'
<1>1. PICK h \in Posted :
        /\ h = Head(list) /\ list # <<>> /\ remaining[h] = 0
        /\ timer'.elapsed = timer.elapsed
        /\ period' = period
        /\ \/ /\ period[h] = 0
              /\ list' = Tail(list)
              /\ due' = [due EXCEPT ![h] = 0]
              /\ remaining' = remaining
           \/ /\ period[h] # 0
              /\ due' = [due EXCEPT ![h] = period[h] * Resolution]
              /\ \E w \in Nat \ {0} :
                   /\ Enqueue(Tail(list), h, w)
                   /\ period[h] * Resolution < w * Resolution - timer.elapsed + Resolution
  BY DispatchEffect DEF EventInv
<1>2. list \in Seq(Handle)
  BY DEF EventInv, EventsOK
<1>3. /\ Tail(list) \in Seq(Handle) /\ NoDuplicates(Tail(list))
      /\ ToSet(Tail(list)) = Posted \ {h}
  <2>1. /\ 1 \in 1 .. Len(list) /\ h = list[1] /\ Tail(list) = RemoveAt(list, 1)
        /\ Tail(list) \in Seq(Handle)
    BY <1>1, <1>2, TailIsRemoveAt
  <2>2. NoDuplicates(list)
    BY DEF EventInv
  <2> QED
    BY <1>2, <2>1, <2>2, RemoveSet DEF Posted
<1>4. h \in Handle /\ period[h] \in Nat /\ period' \in [Handle -> Nat]
  BY <1>1, <1>2 DEF Posted, ToSet, EventInv, EventsOK
<1>5. CASE /\ list' = Tail(list)
           /\ due' = [due EXCEPT ![h] = 0]
           /\ remaining' = remaining
  <2>1. EventsOK'
    BY <1>3, <1>4, <1>5 DEF EventInv, EventsOK
  <2>2. Posted' = Posted \ {h}
    BY <1>3, <1>5 DEF Posted
  <2>3. ASSUME NEW g \in Posted \ {h}
        PROVE  OnTime(g)'
    <3>1. due'[g] = due[g] /\ remaining'[g] = remaining[g]
      BY <1>5 DEF EventInv, EventsOK, Posted, ToSet
    <3> QED
      BY <1>1, <3>1 DEF EventInv, OnTime
  <2> QED
    BY <1>1, <1>3, <1>5, <2>1, <2>2, <2>3 DEF EventInv
<1>6. CASE /\ due' = [due EXCEPT ![h] = period[h] * Resolution]
           /\ \E w \in Nat \ {0} :
                /\ Enqueue(Tail(list), h, w)
                /\ period[h] * Resolution < w * Resolution - timer.elapsed + Resolution
  <2> DEFINE t == period[h] * Resolution
  <2>1. t \in Nat /\ due' = [due EXCEPT ![h] = t]
    BY <1>4, <1>6, Product
  <2>2. PICK w \in Nat \ {0} :
          /\ Enqueue(Tail(list), h, w)
          /\ t < w * Resolution - timer.elapsed + Resolution
    BY <1>6
  <2> HIDE DEF t
  <2> QED
    BY <1>1, <1>3, <1>4, <2>1, <2>2, EnqueueOnTime
<1> QED
  BY <1>1, <1>5, <1>6

(* updateTime() leaves every event of s on time.                           *)
LEMMA UpdateTimeOnTime ==
  ASSUME EventInv, NEW s \in Seq(Handle), ToSet(s) \subseteq Posted, UpdateTime(s),
         NEW g \in ToSet(s), due'[g] = due[g]
  PROVE  OnTime(g)'
<1>1. g \in Posted /\ g \in Handle
  BY DEF ToSet
<1>2. /\ remaining[g] \in Nat /\ due[g] \in Nat /\ timer.elapsed \in Nat
      /\ remaining'[g] \in Nat /\ timer'.elapsed = 0 /\ Resolution \in Nat
  BY <1>1, UpdateTimeEffect, ResolutionAssumption DEF EventInv, EventsOK
<1>3. OnTime(g)
  BY <1>1 DEF EventInv
<1>4. remaining[g] * Resolution \in Nat /\ remaining'[g] * Resolution \in Nat
  BY <1>2, Product
<1>5. CASE remaining[g] = 0
  <2>1. remaining'[g] = 0
    BY <1>1, <1>5, UpdateTimeEffect DEF EventInv
  <2> QED
    BY <1>3, <1>5, <2>1 DEF OnTime
<1>6. CASE remaining[g] # 0
  <2>1. IF remaining'[g] = 0
        THEN remaining[g] * Resolution <= timer.elapsed
        ELSE remaining[g] * Resolution - timer.elapsed <= remaining'[g] * Resolution
    BY <1>1, <1>6, UpdateTimeEffect DEF EventInv
  <2>2. CASE due[g] = 0
    BY <1>2, <2>2, ResolutionAssumption DEF OnTime
  <2>3. CASE due[g] < remaining[g] * Resolution - timer.elapsed + Resolution
    <3> DEFINE a == remaining[g] * Resolution
               b == remaining'[g] * Resolution
    <3>1. a \in Int /\ b \in Int
      BY <1>4
    <3>2. CASE remaining'[g] = 0
      <4>1. a <= timer.elapsed /\ due[g] < a - timer.elapsed + Resolution
        BY <2>1, <2>3, <3>2
      <4> HIDE DEF a
      <4>2. due[g] < Resolution
        BY <1>2, <3>1, <4>1
      <4> QED
        BY <3>2, <4>2 DEF OnTime
    <3>3. CASE remaining'[g] # 0
      <4>1. a - timer.elapsed <= b /\ due[g] < a - timer.elapsed + Resolution
        BY <2>1, <2>3, <3>3
      <4> HIDE DEF a, b
      <4>2. due[g] < b - 0 + Resolution
        BY <1>2, <3>1, <4>1
      <4> QED
        BY <1>2, <3>3, <4>2 DEF OnTime, b
    <3> QED
      BY <3>2, <3>3
  <2> QED
    BY <1>3, <1>6, <2>2, <2>3 DEF OnTime
<1> QED
  BY <1>5, <1>6

LEMMA UpdateTimeInv ==
  ASSUME EventInv, UpdateTime(list), UNCHANGED <<list, period, due>>
  PROVE  EventInv'
<1>1. list \in Seq(Handle) /\ ToSet(list) = Posted
  BY DEF EventInv, EventsOK, Posted
<1>2. EventsOK' /\ timer'.elapsed \in Nat
  BY UpdateTimeEffect DEF EventInv, EventsOK
<1>3. NoDuplicates(list') /\ Posted' = Posted
  BY DEF EventInv, Posted
<1>4. ASSUME NEW g \in Posted
      PROVE  OnTime(g)'
  BY <1>1, UpdateTimeOnTime
<1> QED
  BY <1>2, <1>3, <1>4 DEF EventInv

LEMMA CancelInv ==
  ASSUME EventInv, NEW h \in Handle, Cancel(h)
  PROVE  EventInv'
<1>1. CASE spinning'
  BY <1>1, StuckEffect DEF clocks, EventInv, EventsOK, Posted, OnTime
<1>2. CASE ~spinning'
  <2>1. EventsOK /\ timer.elapsed \in Nat /\ list \in Seq(Handle) /\ NoDuplicates(list)
    BY DEF EventInv, EventsOK
  <2>2. /\ UpdateTime(list')
        /\ period' = [period EXCEPT ![h] = 0]
        /\ due' = [due EXCEPT ![h] = 0]
    BY <1>2, <2>1, CancelEffect
  <2>3. PICK i \in 1 .. Len(list) : list[i] = h /\ list' = RemoveAt(list, i)
    BY <1>2, <2>1, CancelEffect
  <2>4. list' \in Seq(Handle) /\ NoDuplicates(list') /\ ToSet(list') = Posted \ {h}
    BY <2>1, <2>3, RemoveAtProperties, RemoveSet DEF Posted
  <2>5. EventsOK' /\ timer'.elapsed \in Nat
    <3>1. remaining' \in [Handle -> Nat] /\ timer'.elapsed = 0
      BY <2>1, <2>2, UpdateTimeEffect
    <3>2. period' \in [Handle -> Nat] /\ due' \in [Handle -> Nat]
      BY <2>1, <2>2 DEF EventsOK
    <3>3. list' \in Seq(Handle)
      BY <2>4
    <3> QED
      BY <3>1, <3>2, <3>3 DEF EventsOK
  <2>6. ASSUME NEW g \in ToSet(list')
        PROVE  OnTime(g)'
    <3>1. due'[g] = due[g]
      <4>1. g \in Handle /\ g # h
        <5>1. g \in Posted /\ g # h
          BY <2>4
        <5>2. \A x \in Posted : x \in Handle
          BY <2>1 DEF Posted, ToSet
        <5> QED
          BY <5>1, <5>2
      <4> QED
        BY <2>1, <2>2, <4>1 DEF EventsOK
    <3> DEFINE s == list'
    <3>2. s \in Seq(Handle) /\ ToSet(s) \subseteq Posted /\ UpdateTime(s) /\ g \in ToSet(s)
      BY <2>2, <2>4
    <3> HIDE DEF s
    <3> QED
      BY <3>1, <3>2, UpdateTimeOnTime
  <2> QED
    BY <2>4, <2>5, <2>6 DEF EventInv, Posted
<1> QED
  BY <1>1, <1>2

(* Time brings both the time an event was asked for and the end of its wait nearer. *)
LEMMA TickInv ==
  ASSUME EventInv, Calm, Tick
  PROVE  EventInv'
<1>1. /\ due' = [h \in Handle |-> IF due[h] = 0 THEN 0 ELSE due[h] - 1]
      /\ UNCHANGED <<list, remaining, period>>
      /\ timer' = [timer EXCEPT !.elapsed = IF timer.running THEN @ + 1 ELSE @]
  BY DEF Tick
<1>2. timer'.elapsed = timer.elapsed \/ timer'.elapsed = timer.elapsed + 1
  BY <1>1
<1>3. EventsOK'
  BY <1>1 DEF EventInv, EventsOK
<1>4. ASSUME NEW g \in Posted
      PROVE  OnTime(g)'
  <2>1. /\ g \in Handle /\ remaining[g] \in Nat /\ due[g] \in Nat
        /\ Resolution \in Nat \ {0} /\ timer.elapsed \in Nat
    BY ResolutionAssumption DEF EventInv, EventsOK, Posted, ToSet
  <2>2. OnTime(g)
    BY DEF EventInv
  <2>3. /\ remaining'[g] = remaining[g]
        /\ due'[g] = IF due[g] = 0 THEN 0 ELSE due[g] - 1
    <3>1. remaining' = remaining
      BY <1>1
    <3>2. due'[g] = IF due[g] = 0 THEN 0 ELSE due[g] - 1
      BY <1>1, <2>1
    <3> QED
      BY <3>1, <3>2
  <2> DEFINE a == remaining[g] * Resolution
  <2>4. a \in Int
    BY <2>1, Product
  <2>5. CASE remaining[g] = 0
    BY <2>1, <2>2, <2>3, <2>5 DEF OnTime
  <2>6. CASE remaining[g] # 0 /\ due[g] = 0
    BY <2>3, <2>6 DEF OnTime
  <2>7. CASE remaining[g] # 0 /\ due[g] # 0
    <3>1. due[g] < a - timer.elapsed + Resolution
      BY <2>2, <2>7 DEF OnTime
    <3> HIDE DEF a
    <3>2. due'[g] < a - timer'.elapsed + Resolution
      BY <1>2, <2>1, <2>3, <2>4, <2>7, <3>1
    <3>3. remaining'[g] * Resolution = a /\ remaining'[g] # 0
      BY <2>3, <2>7 DEF a
    <3> QED
      BY <3>2, <3>3 DEF OnTime
  <2> QED
    BY <2>5, <2>6, <2>7
<1> QED
  BY <1>1, <1>2, <1>3, <1>4 DEF EventInv, Posted

-----------------------------------------------------------------------------
(* The clocks.                                                             *)
LEMMA UpdateTickerOK ==
  ASSUME NEW ms \in Nat, update_ticker(ms)
  PROVE  timed_event_pending' = TRUE /\ ticker' \in [attached : BOOLEAN, left : Int]
<1>1. ms * Resolution \in Int
  BY ResolutionAssumption
<1> QED
  BY <1>1 DEF update_ticker

LEMMA ScheduleClocks ==
  ASSUME ClocksOK, NEW s, NEW h, NEW ms \in Nat, Schedule(s, h, ms)
  PROVE  ClocksOK' /\ Calm'
<1>1. timed_event_pending' = TRUE /\ ticker' \in [attached : BOOLEAN, left : Int]
  <2>1. CASE update_ticker(ms)
    BY <2>1, UpdateTickerOK
  <2>2. CASE timed_event_pending /\ UNCHANGED <<timed_event_pending, ticker>>
    BY <2>2 DEF ClocksOK
  <2> QED
    BY <2>1, <2>2 DEF Schedule, update_ticker_if_first
<1>2. timer' \in [running : BOOLEAN, elapsed : Nat]
  BY DEF Schedule, start_timer, ClocksOK
<1> QED
  BY <1>1, <1>2 DEF ClocksOK, Calm

LEMMA UpdateTimeClocks ==
  ASSUME remaining' \in [Handle -> Nat], NEW s \in Seq(Handle), UpdateTime(s)
  PROVE  ClocksOK' /\ Calm'
<1>1. CASE /\ timed_event_pending' = FALSE
           /\ ticker' = [attached |-> FALSE, left |-> 0]
           /\ restart_timer(FALSE)
  <2>1. ticker' \in [attached : BOOLEAN, left : Int]
    BY <1>1
  <2>2. timer' \in [running : BOOLEAN, elapsed : Nat]
    BY <1>1 DEF restart_timer
  <2>3. timer'.elapsed = 0 /\ ~timer'.running
    BY <1>1 DEF restart_timer
  <2> QED
    BY <1>1, <2>1, <2>2, <2>3 DEF ClocksOK, Calm
<1>2. CASE \E i \in 1 .. Len(s) : update_ticker(remaining'[s[i]]) /\ restart_timer(TRUE)
  <2>1. PICK i \in 1 .. Len(s) : update_ticker(remaining'[s[i]]) /\ restart_timer(TRUE)
    BY <1>2
  <2>2. remaining'[s[i]] \in Nat
    BY <2>1
  <2>3. timed_event_pending' = TRUE /\ ticker' \in [attached : BOOLEAN, left : Int]
    BY <2>1, <2>2, UpdateTickerOK
  <2>4. timer' \in [running : BOOLEAN, elapsed : Nat]
    BY <2>1 DEF restart_timer
  <2> QED
    BY <2>3, <2>4 DEF ClocksOK, Calm
<1> QED
  BY <1>1, <1>2 DEF UpdateTime

LEMMA TickClocks ==
  ASSUME ClocksOK, Calm, Tick
  PROVE  ClocksOK' /\ Calm'
<1>1. /\ ticker' = [ticker EXCEPT !.left = IF ticker.attached THEN @ - 1 ELSE @]
      /\ timer' = [timer EXCEPT !.elapsed = IF timer.running THEN @ + 1 ELSE @]
      /\ timed_event_pending' = timed_event_pending
  BY DEF Tick
<1>2. ticker' \in [attached : BOOLEAN, left : Int]
  BY <1>1 DEF ClocksOK
<1>3. timer' \in [running : BOOLEAN, elapsed : Nat]
  BY <1>1 DEF ClocksOK
<1>4. ~timer.running => timer' = timer
  BY <1>1 DEF ClocksOK
<1> QED
  BY <1>1, <1>2, <1>3, <1>4 DEF ClocksOK, Calm

-----------------------------------------------------------------------------
(* The inductive invariant.                                                *)
IInv == EventInv /\ ClocksOK /\ Calm /\ spinning \in BOOLEAN

LEMMA IInvInit == Init => IInv
<1> SUFFICES ASSUME Init
             PROVE  IInv
  OBVIOUS
<1>1. ticker \in [attached : BOOLEAN, left : Int]
  BY DEF Init
<1>2. timer \in [running : BOOLEAN, elapsed : Nat]
  BY DEF Init
<1>3. timer.elapsed = 0 /\ ~timer.running
  BY DEF Init
<1>4. timed_event_pending \in BOOLEAN /\ spinning \in BOOLEAN
  BY DEF Init
<1> QED
  BY <1>1, <1>2, <1>3, <1>4, EventInvInit DEF IInv, ClocksOK, Calm

LEMMA EventInvNext == IInv /\ [Next]_vars => EventInv'
<1> SUFFICES ASSUME EventInv, Calm, [Next]_vars
             PROVE  EventInv'
  BY DEF IInv
<1>1. CASE TickerInterrupt
  BY <1>1, UpdateTimeInv DEF TickerInterrupt
<1>2. CASE UNCHANGED vars
  BY <1>2 DEF vars, clocks, EventInv, EventsOK, Posted, OnTime
<1> QED
  BY <1>1, <1>2, PostInv, CancelInv, DispatchInv, TickInv DEF Next, Spin

LEMMA ClocksNext == IInv /\ [Next]_vars => ClocksOK' /\ Calm' /\ spinning' \in BOOLEAN
<1> SUFFICES ASSUME IInv, [Next]_vars
             PROVE  ClocksOK' /\ Calm' /\ spinning' \in BOOLEAN
  OBVIOUS
<1>0. ClocksOK /\ Calm /\ spinning \in BOOLEAN /\ EventInv /\ EventInv'
  BY EventInvNext DEF IInv
<1>1. list' \in Seq(Handle) /\ remaining' \in [Handle -> Nat]
  BY <1>0 DEF EventInv, EventsOK
<1>2. ASSUME NEW d \in Delay, NEW repeat \in BOOLEAN, Post(d, repeat)
      PROVE  ClocksOK' /\ Calm'
  <2>1. CASE UNCHANGED clocks
    BY <1>0, <2>1 DEF clocks, ClocksOK, Calm
  <2>2. CASE \E h \in Handle : Schedule(list, h, d)
    BY <1>0, <2>2, ScheduleClocks, DelayAssumption
  <2> QED
    BY <1>2, <2>1, <2>2 DEF Post
<1>3. ASSUME NEW h \in Handle, Cancel(h)
      PROVE  ClocksOK' /\ Calm'
  <2>1. CASE UNCHANGED clocks
    BY <1>0, <2>1 DEF clocks, ClocksOK, Calm
  <2>2. CASE UpdateTime(list')
    <3> DEFINE s == list'
    <3>1. s \in Seq(Handle) /\ UpdateTime(s)
      BY <1>1, <2>2
    <3> HIDE DEF s
    <3> QED
      BY <1>1, <3>1, UpdateTimeClocks
  <2> QED
    BY <1>3, <2>1, <2>2 DEF Cancel
<1>4. ASSUME TickerInterrupt
      PROVE  ClocksOK' /\ Calm'
  <2>1. list \in Seq(Handle) /\ UpdateTime(list)
    BY <1>0, <1>4 DEF TickerInterrupt, EventInv, EventsOK
  <2> QED
    BY <1>0, <1>1, <1>4, <2>1, UpdateTimeClocks DEF TickerInterrupt
<1>5. ASSUME Dispatch
      PROVE  ClocksOK' /\ Calm'
  <2>1. CASE UNCHANGED clocks
    BY <1>0, <2>1 DEF clocks, ClocksOK, Calm
  <2>2. CASE Schedule(Tail(list), Head(list), period[Head(list)])
    <3>1. Head(list) \in Handle
      BY <1>0, <1>5 DEF Dispatch, EventInv, EventsOK
    <3>2. period[Head(list)] \in Nat
      BY <1>0, <3>1 DEF EventInv, EventsOK
    <3> QED
      BY <1>0, <2>2, <3>2, ScheduleClocks
  <2> QED
    BY <1>5, <2>1, <2>2 DEF Dispatch
<1>6. ASSUME Tick
      PROVE  ClocksOK' /\ Calm'
  BY <1>0, <1>6, TickClocks
<1>7. ASSUME UNCHANGED vars
      PROVE  ClocksOK' /\ Calm'
  BY <1>0, <1>7 DEF vars, clocks, ClocksOK, Calm
<1>8. spinning' \in BOOLEAN
  BY <1>0 DEF Next, Post, Cancel, TickerInterrupt, Dispatch, Tick, Spin, vars
<1> QED
  BY <1>2, <1>3, <1>4, <1>5, <1>6, <1>7, <1>8 DEF Next, Spin

LEMMA IInvariant == Spec => []IInv
<1>1. IInv /\ [Next]_vars => IInv'
  BY EventInvNext, ClocksNext DEF IInv
<1> QED
  BY <1>1, IInvInit, PTL DEF Spec

(* No waiting time is counted down below 0, and no clock runs backwards.   *)
THEOREM TypeCorrect == Spec => []TypeOK
<1>1. IInv => TypeOK
  BY DEF IInv, EventInv, TypeOK
<1> QED
  BY <1>1, IInvariant, PTL

(* dispatch() runs no event a millisecond or more before the time it was posted for,
   however its wait was rounded, counted down and put off in between.      *)
THEOREM NotAMillisecondEarly == Spec => []LessThanOneMsEarly
<1>1. IInv => LessThanOneMsEarly
  BY DEF IInv, EventInv, OnTime, LessThanOneMsEarly
<1> QED
  BY <1>1, IInvariant, PTL

-----------------------------------------------------------------------------
(* Every step of the queue is a step of EventService, or none.             *)
LEMMA ServiceInit == Init => Service!Init
<1> SUFFICES ASSUME Init
             PROVE  Service!Init
  OBVIOUS
<1>1. Posted = {}
  BY DEF Init, Posted, ToSet
<1> QED
  BY <1>1 DEF Init, Service!Init

LEMMA ServicePost ==
  ASSUME IInv, NEW d \in Delay, NEW repeat \in BOOLEAN, Post(d, repeat)
  PROVE  Service!Next
<1>1. PICK h \in Handle \ Posted, w \in Nat :
        /\ Enqueue(list, h, w)
        /\ period' = [period EXCEPT ![h] = IF repeat THEN d ELSE 0]
        /\ due' = [due EXCEPT ![h] = d * Resolution]
  BY PostEffect DEF IInv, EventInv
<1>2. Posted' = Posted \cup {h}
  BY <1>1, EnqueueEffect DEF IInv, EventInv, EventsOK, Posted
<1> DEFINE p == IF repeat THEN d ELSE 0
<1>3. p \in {0, d} /\ p \in Delay \cup {0}
  OBVIOUS
<1>4. Service!Post(h, d, p)
  BY <1>1, <1>2, <1>3 DEF Service!Post
<1> HIDE DEF p
<1> QED
  BY <1>3, <1>4 DEF Service!Next

LEMMA ServiceDispatch ==
  ASSUME IInv, Dispatch
  PROVE  Service!Next
<1>1. PICK h \in Posted :
        /\ h = Head(list) /\ list # <<>> /\ remaining[h] = 0
        /\ timer'.elapsed = timer.elapsed
        /\ period' = period
        /\ \/ /\ period[h] = 0
              /\ list' = Tail(list)
              /\ due' = [due EXCEPT ![h] = 0]
              /\ remaining' = remaining
           \/ /\ period[h] # 0
              /\ due' = [due EXCEPT ![h] = period[h] * Resolution]
              /\ \E w \in Nat \ {0} :
                   /\ Enqueue(Tail(list), h, w)
                   /\ period[h] * Resolution < w * Resolution - timer.elapsed + Resolution
  BY DispatchEffect DEF IInv, EventInv
<1>2. EventsOK /\ list \in Seq(Handle) /\ NoDuplicates(list)
  BY DEF IInv, EventInv, EventsOK
<1>3. Tail(list) \in Seq(Handle) /\ ToSet(Tail(list)) = Posted \ {h}
  <2>1. /\ 1 \in 1 .. Len(list) /\ h = list[1] /\ Tail(list) = RemoveAt(list, 1)
        /\ Tail(list) \in Seq(Handle)
    BY <1>1, <1>2, TailIsRemoveAt
  <2> QED
    BY <1>2, <2>1, RemoveSet DEF Posted
<1>4. h \in Handle
  BY <1>2 DEF Posted, ToSet
<1>5. due[h] < Resolution
  BY <1>1 DEF IInv, EventInv, OnTime
<1>6. CASE /\ period[h] = 0
           /\ list' = Tail(list)
           /\ due' = [due EXCEPT ![h] = 0]
  <2>1. Posted' = Posted \ {h}
    BY <1>3, <1>6 DEF Posted
  <2>2. period' = [period EXCEPT ![h] = 0]
    BY <1>1, <1>2, <1>4, <1>6 DEF EventsOK
  <2> QED
    BY <1>4, <1>5, <1>6, <2>1, <2>2 DEF Service!Run, Service!Forget, Service!Next
<1>7. CASE /\ period[h] # 0
           /\ due' = [due EXCEPT ![h] = period[h] * Resolution]
           /\ \E w \in Nat \ {0} : Enqueue(Tail(list), h, w)
  <2>1. Posted' = (Posted \ {h}) \cup {h}
    BY <1>2, <1>3, <1>4, <1>7, EnqueueEffect DEF Posted
  <2>2. Posted' = Posted
    BY <2>1
  <2> QED
    BY <1>1, <1>4, <1>5, <1>7, <2>2 DEF Service!Run, Service!Next
<1> QED
  BY <1>1, <1>6, <1>7

LEMMA ServiceCancel ==
  ASSUME IInv, NEW h \in Handle, Cancel(h)
  PROVE  Service!Next \/ UNCHANGED Service!vars
<1>1. CASE spinning'
  BY <1>1, StuckEffect DEF Posted, Service!vars
<1>2. CASE ~spinning'
  <2>1. EventsOK /\ timer.elapsed \in Nat /\ list \in Seq(Handle) /\ NoDuplicates(list)
    BY DEF IInv, EventInv, EventsOK
  <2>2. period' = [period EXCEPT ![h] = 0] /\ due' = [due EXCEPT ![h] = 0]
    BY <1>2, <2>1, CancelEffect
  <2>3. PICK i \in 1 .. Len(list) : list[i] = h /\ list' = RemoveAt(list, i)
    BY <1>2, <2>1, CancelEffect
  <2>4. Posted' = Posted \ {h} /\ h \in Posted
    <3>1. Posted' = Posted \ {h}
      BY <2>1, <2>3, RemoveSet DEF Posted
    <3>2. i \in DOMAIN list
      BY <2>1
    <3> QED
      BY <2>3, <3>1, <3>2 DEF Posted, ToSet
  <2> QED
    BY <2>2, <2>4 DEF Service!Cancel, Service!Forget, Service!Next
<1> QED
  BY <1>1, <1>2

LEMMA ServiceNext == IInv /\ [Next]_vars => [Service!Next]_(Service!vars)
<1> SUFFICES ASSUME IInv, [Next]_vars
             PROVE  Service!Next \/ UNCHANGED Service!vars
  OBVIOUS
<1>1. CASE UNCHANGED <<list, period, due>>
  BY <1>1 DEF Posted, Service!vars
<1>2. CASE Tick
  BY <1>2 DEF Tick, Posted, Service!Pass, Service!Next
<1> QED
  BY <1>1, <1>2, ServicePost, ServiceDispatch, ServiceCancel DEF Next, TickerInterrupt, Spin, vars

(* The ordered list, the ticker and the timer implement EventService: no event is
   lost, runs twice, runs after it was cancelled, or a millisecond early.  *)
THEOREM QueueImplementsService == Spec => ImplementsEventService
<1>1. Spec => Service!Spec
  BY ServiceInit, ServiceNext, IInvariant, PTL DEF Spec, Service!Spec
<1> QED
  BY <1>1 DEF ImplementsEventService

-----------------------------------------------------------------------------
(* The order of the list.                                                  *)

(* The elements of s are in the order of their times rem.                  *)
OrderedBy(s, rem) == \A i, j \in 1 .. Len(s) : i < j => rem[s[i]] <= rem[s[j]]

LEMMA OrderedIsOrderedBy ==
  ASSUME list \in Seq(Handle), OrderedBy(list, remaining)
  PROVE  IsOrdered(RemainingOf(list))
<1>1. Len(RemainingOf(list)) = Len(list) /\ \A j \in 1 .. Len(list) : RemainingOf(list)[j] = remaining[list[j]]
  BY DEF RemainingOf
<1> QED
  BY <1>1 DEF IsOrdered, OrderedBy

LEMMA InsertOrdered ==
  ASSUME EventsOK, NEW s \in Seq(Handle), NEW h \in Handle, NEW ms \in Nat,
         h \notin ToSet(s), OrderedBy(s, remaining), Enqueue(s, h, ms)
  PROVE  OrderedBy(list', remaining')
<1>1. PICK i \in 1 .. Len(s) + 1 :
        IsInsertionPoint(RemainingOf(s), ms, i) /\ list' = InsertAt(s, i, h)
  BY DEF Enqueue
<1>2. /\ Len(list') = Len(s) + 1
      /\ \A j \in 1 .. Len(s) + 1 : list'[j] = IF j < i THEN s[j] ELSE IF j = i THEN h ELSE s[j - 1]
  BY <1>1, InsertAtProperties
<1>3. \A j \in 1 .. Len(s) : remaining[s[j]] <= ms <=> j < i
  <2>1. Len(RemainingOf(s)) = Len(s) /\ \A j \in 1 .. Len(s) : RemainingOf(s)[j] = remaining[s[j]]
    BY DEF RemainingOf
  <2> QED
    BY <1>1, <2>1 DEF IsInsertionPoint
<1>4. remaining'[h] = ms /\ \A j \in 1 .. Len(s) : remaining'[s[j]] = remaining[s[j]] /\ remaining[s[j]] \in Nat
  <2>1. \A j \in 1 .. Len(s) : s[j] \in Handle /\ s[j] # h
    BY DEF ToSet
  <2> QED
    BY <2>1, EnqueueEffect DEF EventsOK
<1>5. ASSUME NEW j \in 1 .. Len(s) + 1, NEW k \in 1 .. Len(s) + 1, j < k
      PROVE  remaining'[list'[j]] <= remaining'[list'[k]]
  <2>1. CASE k < i
    <3>1. j \in 1 .. Len(s) /\ k \in 1 .. Len(s) /\ j < i
      BY <1>5, <2>1
    <3>2. list'[j] = s[j] /\ list'[k] = s[k] /\ remaining[s[j]] <= remaining[s[k]]
      BY <1>2, <1>5, <2>1, <3>1 DEF OrderedBy
    <3> QED
      BY <1>4, <3>1, <3>2
  <2>2. CASE k = i
    <3>1. j \in 1 .. Len(s) /\ j < i
      BY <1>5, <2>2
    <3>2. list'[j] = s[j] /\ list'[k] = h /\ remaining[s[j]] <= ms
      BY <1>2, <1>3, <2>2, <3>1
    <3> QED
      BY <1>4, <3>1, <3>2
  <2>3. CASE j = i
    <3>1. k - 1 \in 1 .. Len(s) /\ ~(k - 1 < i) /\ ~(k < i) /\ k # i
      BY <1>5, <2>3
    <3>2. list'[j] = h /\ list'[k] = s[k - 1] /\ ~(remaining[s[k - 1]] <= ms)
      BY <1>2, <1>3, <2>3, <3>1
    <3> QED
      BY <1>4, <3>1, <3>2
  <2>4. CASE j < i /\ i < k
    <3>1. j \in 1 .. Len(s) /\ k - 1 \in 1 .. Len(s) /\ j < i /\ ~(k - 1 < i) /\ ~(k < i) /\ k # i
      BY <1>5, <2>4
    <3>2. list'[j] = s[j] /\ list'[k] = s[k - 1]
      BY <1>2, <3>1
    <3>3. remaining[s[j]] <= ms /\ ~(remaining[s[k - 1]] <= ms)
      BY <1>3, <3>1
    <3> QED
      BY <1>4, <3>1, <3>2, <3>3, SMTT(60)
  <2>5. CASE i < j
    <3>1. j - 1 \in 1 .. Len(s) /\ k - 1 \in 1 .. Len(s) /\ j - 1 < k - 1 /\ ~(j < i) /\ ~(k < i) /\ j # i /\ k # i
      BY <1>5, <2>5
    <3>2. list'[j] = s[j - 1] /\ list'[k] = s[k - 1] /\ remaining[s[j - 1]] <= remaining[s[k - 1]]
      BY <1>2, <3>1 DEF OrderedBy
    <3> QED
      BY <1>4, <3>1, <3>2
  <2> QED
    BY <1>5, <2>1, <2>2, <2>3, <2>4, <2>5
<1> QED
  BY <1>2, <1>5 DEF OrderedBy

LEMMA RemoveOrdered ==
  ASSUME NEW s \in Seq(Handle), NEW i \in 1 .. Len(s), OrderedBy(s, remaining)
  PROVE  OrderedBy(RemoveAt(s, i), remaining)
<1> DEFINE r == RemoveAt(s, i)
<1>1. /\ Len(r) = Len(s) - 1
      /\ \A j \in 1 .. Len(s) - 1 : r[j] = IF j < i THEN s[j] ELSE s[j + 1]
  BY RemoveAtProperties
<1> HIDE DEF r
<1>2. ASSUME NEW j \in 1 .. Len(s) - 1, NEW k \in 1 .. Len(s) - 1, j < k
      PROVE  remaining[r[j]] <= remaining[r[k]]
  <2>1. \E m, n \in 1 .. Len(s) : m < n /\ r[j] = s[m] /\ r[k] = s[n]
    <3> DEFINE m == IF j < i THEN j ELSE j + 1
               n == IF k < i THEN k ELSE k + 1
    <3>1. m \in 1 .. Len(s) /\ n \in 1 .. Len(s) /\ m < n
      BY <1>2
    <3>2. r[j] = s[m] /\ r[k] = s[n]
      BY <1>1
    <3> HIDE DEF m, n
    <3> QED
      BY <3>1, <3>2
  <2> QED
    BY <2>1 DEF OrderedBy
<1>3. OrderedBy(r, remaining)
  BY <1>1, <1>2 DEF OrderedBy
<1> QED
  BY <1>3 DEF r

(* updateTime() takes the same off all of them, and keeps 0 at 0.          *)
LEMMA UpdateTimeOrdered ==
  ASSUME EventsOK, timer.elapsed \in Nat, NEW s \in Seq(Handle), OrderedBy(s, remaining), UpdateTime(s)
  PROVE  OrderedBy(s, remaining')
<1>1. read_ms \in Nat
  BY ReadMs
<1>2. ASSUME NEW a \in Nat, NEW b \in Nat, a <= b
      PROVE  (IF a # 0 THEN CountDown(a) ELSE 0) <= (IF b # 0 THEN CountDown(b) ELSE 0)
  BY <1>1, <1>2 DEF CountDown
<1>3. ASSUME NEW j \in 1 .. Len(s)
      PROVE  /\ remaining[s[j]] \in Nat
             /\ remaining'[s[j]] = IF remaining[s[j]] # 0 THEN CountDown(remaining[s[j]]) ELSE 0
  <2>1. s[j] \in Handle /\ s[j] \in ToSet(s)
    BY DEF ToSet
  <2> QED
    BY <2>1 DEF UpdateTime, EventsOK
<1> QED
  BY <1>2, <1>3 DEF OrderedBy

(* The order is kept by every step.                                        *)
LEMMA OrderNext ==
  ASSUME IInv, OrderedBy(list, remaining), [Next]_vars
  PROVE  OrderedBy(list', remaining')
<1>1. /\ EventsOK /\ timer.elapsed \in Nat /\ Calm /\ NoDuplicates(list)
      /\ list \in Seq(Handle)
  BY DEF IInv, EventInv, EventsOK
<1>2. ASSUME NEW d \in Delay, NEW repeat \in BOOLEAN, Post(d, repeat)
      PROVE  OrderedBy(list', remaining')
  BY <1>1, <1>2, PostEffect, InsertOrdered DEF Posted
<1>3. ASSUME NEW h \in Handle, Cancel(h)
      PROVE  OrderedBy(list', remaining')
  <2>1. CASE spinning'
    BY <1>3, <2>1, StuckEffect
  <2>2. CASE ~spinning'
    <3>1. PICK i \in 1 .. Len(list) : list[i] = h /\ list' = RemoveAt(list, i)
      BY <1>1, <1>3, <2>2, CancelEffect
    <3> DEFINE s == list'
    <3>2. s \in Seq(Handle) /\ OrderedBy(s, remaining) /\ UpdateTime(s)
      BY <1>1, <1>3, <2>2, <3>1, CancelEffect, RemoveAtProperties, RemoveOrdered
    <3> HIDE DEF s
    <3>3. OrderedBy(s, remaining')
      BY <1>1, <3>2, UpdateTimeOrdered
    <3> QED
      BY <3>3 DEF s
  <2> QED
    BY <2>1, <2>2
<1>4. CASE TickerInterrupt
  BY <1>1, <1>4, UpdateTimeOrdered DEF TickerInterrupt
<1>5. CASE Dispatch
  <2>1. PICK h \in Posted :
          /\ h = Head(list) /\ list # <<>>
          /\ \/ list' = Tail(list) /\ remaining' = remaining
             \/ \E w \in Nat \ {0} : Enqueue(Tail(list), h, w)
    BY <1>1, <1>5, DispatchEffect
  <2>2. /\ 1 \in 1 .. Len(list) /\ h = list[1] /\ Tail(list) = RemoveAt(list, 1)
        /\ Tail(list) \in Seq(Handle)
    BY <1>1, <2>1, TailIsRemoveAt
  <2>3. h \notin ToSet(Tail(list)) /\ OrderedBy(Tail(list), remaining) /\ h \in Handle
    <3>1. ToSet(Tail(list)) = ToSet(list) \ {h}
      BY <1>1, <2>2, RemoveSet
    <3>2. OrderedBy(Tail(list), remaining)
      BY <1>1, <2>2, RemoveOrdered
    <3> QED
      BY <1>1, <2>2, <3>1, <3>2
  <2>4. CASE list' = Tail(list) /\ remaining' = remaining
    BY <2>3, <2>4
  <2>5. CASE \E w \in Nat \ {0} : Enqueue(Tail(list), h, w)
    BY <1>1, <2>2, <2>3, <2>5, InsertOrdered
  <2> QED
    BY <2>1, <2>4, <2>5
<1>6. CASE UNCHANGED <<list, remaining>>
  BY <1>6
<1> QED
  BY <1>2, <1>3, <1>4, <1>5, <1>6 DEF Next, Tick, Spin, vars

(* The list is in the order of the remaining times and holds no event twice: dispatch()
   need only look at its head, and do_post() at the first event that waits. *)
THEOREM ListIsOrdered == Spec => []Ordered
<1>1. Init => OrderedBy(list, remaining)
  BY DEF Init, OrderedBy
<1>2. IInv /\ OrderedBy(list, remaining) /\ [Next]_vars => OrderedBy(list, remaining)'
  BY OrderNext
<1>3. IInv /\ OrderedBy(list, remaining) => Ordered
  BY OrderedIsOrderedBy DEF IInv, EventInv, EventsOK, Ordered
<1> QED
  BY <1>1, <1>2, <1>3, IInvariant, PTL DEF Spec

-----------------------------------------------------------------------------
(* The clocks and the first event that waits.                              *)

LEMMA FirstIsUnique ==
  ASSUME NEW s \in Seq(Handle), NEW rem, NEW g, NEW h, IsFirstTimed(s, rem, g), IsFirstTimed(s, rem, h)
  PROVE  g = h
<1>1. PICK i \in 1 .. Len(s) : s[i] = g /\ rem[g] # 0 /\ \A j \in 1 .. i - 1 : rem[s[j]] = 0
  BY DEF IsFirstTimed
<1>2. PICK k \in 1 .. Len(s) : s[k] = h /\ rem[h] # 0 /\ \A j \in 1 .. k - 1 : rem[s[j]] = 0
  BY DEF IsFirstTimed
<1>3. i \in Int /\ k \in Int /\ ~(i < k) /\ ~(k < i)
  BY <1>1, <1>2
<1> QED
  BY <1>1, <1>2, <1>3

(* Who is first after an event entered the list, and was not the event, was first before. *)
LEMMA FirstBeforeInsert ==
  ASSUME EventsOK, NEW s \in Seq(Handle), NEW h \in Handle, NEW ms \in Nat,
         h \notin ToSet(s), Enqueue(s, h, ms),
         NEW g, g # h, IsFirstTimed(list', remaining', g)
  PROVE  IsFirstTimed(s, remaining, g) /\ remaining'[g] = remaining[g]
<1>1. PICK i \in 1 .. Len(s) + 1 : list' = InsertAt(s, i, h)
  BY DEF Enqueue
<1>2. /\ Len(list') = Len(s) + 1
      /\ \A j \in 1 .. Len(s) + 1 : list'[j] = IF j < i THEN s[j] ELSE IF j = i THEN h ELSE s[j - 1]
  BY <1>1, InsertAtProperties, SMTT(60)
<1>3. \A j \in 1 .. Len(s) : remaining'[s[j]] = remaining[s[j]]
  <2>1. \A j \in 1 .. Len(s) : s[j] \in Handle /\ s[j] # h
    BY DEF ToSet
  <2> QED
    BY <2>1, EnqueueEffect
<1>4. PICK k \in 1 .. Len(s) + 1 :
        list'[k] = g /\ remaining'[g] # 0 /\ \A j \in 1 .. k - 1 : remaining'[list'[j]] = 0
  BY <1>2 DEF IsFirstTimed
<1>5. CASE k < i
  <2>1. k \in 1 .. Len(s) /\ s[k] = g
    BY <1>2, <1>4, <1>5
  <2>2. ASSUME NEW j \in 1 .. k - 1
        PROVE  remaining[s[j]] = 0
    <3>1. j \in 1 .. Len(s) /\ j < i /\ j \in 1 .. Len(s) + 1
      BY <1>5, <2>1
    <3> QED
      BY <1>2, <1>3, <1>4, <3>1
  <2>3. remaining'[g] = remaining[g]
    BY <1>3, <2>1
  <2> QED
    BY <1>4, <2>1, <2>2, <2>3 DEF IsFirstTimed
<1>6. CASE i < k
  <2>1. k - 1 \in 1 .. Len(s) /\ s[k - 1] = g
    BY <1>2, <1>4, <1>6
  <2>2. ASSUME NEW j \in 1 .. (k - 1) - 1
        PROVE  remaining[s[j]] = 0
    <3>1. j \in 1 .. Len(s) /\ \E m \in 1 .. k - 1 : m \in 1 .. Len(s) + 1 /\ list'[m] = s[j]
      <4>1. j \in 1 .. Len(s)
        BY <2>1
      <4>2. CASE j < i
        <5>1. j \in 1 .. k - 1 /\ j \in 1 .. Len(s) + 1
          BY <1>6, <4>1, <4>2
        <5> QED
          BY <1>2, <4>1, <4>2, <5>1
      <4>3. CASE ~(j < i)
        <5>1. j + 1 \in 1 .. k - 1 /\ j + 1 \in 1 .. Len(s) + 1 /\ ~(j + 1 < i) /\ j + 1 # i /\ (j + 1) - 1 = j
          BY <2>1, <4>1, <4>3
        <5> QED
          BY <1>2, <4>1, <5>1
      <4> QED
        BY <4>1, <4>2, <4>3
    <3> QED
      BY <1>3, <1>4, <3>1
  <2>3. remaining'[g] = remaining[g]
    BY <1>3, <2>1
  <2> QED
    BY <1>4, <2>1, <2>2, <2>3 DEF IsFirstTimed
<1>7. k # i
  BY <1>2, <1>4
<1> QED
  BY <1>5, <1>6, <1>7

(* The head, which waits no more, is not looked at.                        *)
LEMMA FirstBehindHead ==
  ASSUME NEW s \in Seq(Handle), s # <<>>, NEW rem, rem[Head(s)] = 0, NEW g, IsFirstTimed(Tail(s), rem, g)
  PROVE  IsFirstTimed(s, rem, g)
<1>1. /\ Len(Tail(s)) = Len(s) - 1 /\ Len(s) \in Nat /\ Head(s) = s[1]
      /\ \A j \in 1 .. Len(s) - 1 : Tail(s)[j] = s[j + 1]
  OBVIOUS
<1>2. PICK k \in 1 .. Len(s) - 1 :
        Tail(s)[k] = g /\ rem[g] # 0 /\ \A j \in 1 .. k - 1 : rem[Tail(s)[j]] = 0
  BY <1>1 DEF IsFirstTimed
<1>3. k + 1 \in 1 .. Len(s) /\ s[k + 1] = g
  BY <1>1, <1>2
<1>4. ASSUME NEW j \in 1 .. (k + 1) - 1
      PROVE  rem[s[j]] = 0
  <2>1. CASE j = 1
    BY <1>1, <2>1
  <2>2. CASE j # 1
    <3>1. j - 1 \in 1 .. k - 1 /\ j - 1 \in 1 .. Len(s) - 1 /\ (j - 1) + 1 = j
      BY <1>1, <2>2
    <3>2. Tail(s)[j - 1] = s[j]
      BY <1>1, <3>1
    <3>3. rem[Tail(s)[j - 1]] = 0
      BY <1>2, <3>1
    <3> QED
      BY <3>2, <3>3
  <2> QED
    BY <2>1, <2>2
<1> QED
  BY <1>2, <1>3, <1>4 DEF IsFirstTimed

(* The events of s that wait.                                              *)
TimedOf(s, rem) == {h \in ToSet(s) : rem[h] # 0}

LEMMA FirstIsTimed ==
  ASSUME NEW s \in Seq(Handle), NEW rem, NEW h, IsFirstTimed(s, rem, h)
  PROVE  h \in TimedOf(s, rem)
  BY DEF IsFirstTimed, TimedOf, ToSet

(* What the two properties say of the clocks.                              *)
ClocksInv == ClocksFollowQueue /\ TickerTracksFirst

LEMMA EnqueueTimed ==
  ASSUME EventsOK, NEW s \in Seq(Handle), NEW h \in Handle, NEW ms \in Nat,
         h \notin ToSet(s), Enqueue(s, h, ms)
  PROVE  Timed' = TimedOf(s, remaining) \cup (IF ms = 0 THEN {} ELSE {h})
<1>1. ToSet(list') = ToSet(s) \cup {h} /\ remaining'[h] = ms
  BY EnqueueEffect
<1>2. \A g \in ToSet(s) : g # h /\ remaining'[g] = remaining[g]
  <2>1. \A g \in ToSet(s) : g \in Handle /\ g # h
    BY DEF ToSet
  <2> QED
    BY <2>1, EnqueueEffect
<1> QED
  BY <1>1, <1>2 DEF Timed, Posted, TimedOf

(* An event enters s, which holds all that wait, to wait itself.           *)
LEMMA ScheduleTicker ==
  ASSUME IInv, ClocksInv, NEW s \in Seq(Handle), NEW h \in Handle, NEW ms \in Nat \ {0},
         h \notin ToSet(s), TimedOf(s, remaining) = Timed,
         \A g \in Handle : IsFirstTimed(s, remaining, g) => IsFirstTimed(list, remaining, g),
         list' \in Seq(Handle), Schedule(s, h, ms)
  PROVE  ClocksInv'
<1>1. /\ EventsOK /\ timer.elapsed \in Nat /\ Calm /\ ClocksOK
      /\ ticker \in [attached : BOOLEAN, left : Int] /\ timer \in [running : BOOLEAN, elapsed : Nat]
  BY DEF IInv, EventInv, ClocksOK
<1>2. Resolution \in Nat \ {0} /\ ms * Resolution \in Nat
  BY ResolutionAssumption, Product
<1>3. CASE ~timed_event_pending
  <2>1. /\ timed_event_pending' = TRUE
        /\ ticker' = [attached |-> TRUE, left |-> ms * Resolution]
        /\ timer' = [timer EXCEPT !.running = TRUE]
        /\ Enqueue(s, h, ms)
    BY <1>3 DEF Schedule, update_ticker, start_timer
  <2>2. Timed' = {h}
    BY <1>1, <1>3, <2>1, EnqueueTimed DEF ClocksInv, ClocksFollowQueue
  <2>3. ClocksFollowQueue'
    BY <1>1, <2>1, <2>2 DEF ClocksFollowQueue
  <2>4. timer'.elapsed = 0 /\ ticker'.left = ms * Resolution /\ remaining'[h] = ms
    BY <1>1, <1>3, <2>1, EnqueueEffect DEF Calm
  <2>5. ASSUME NEW g \in Handle, IsFirstTimed(list', remaining', g)
        PROVE  g = h
    BY <2>2, <2>5, FirstIsTimed DEF Timed, Posted, TimedOf
  <2>6. Wait(h)' = ms * Resolution
    BY <1>2, <2>4 DEF Wait
  <2> QED
    BY <1>2, <2>3, <2>4, <2>5, <2>6 DEF ClocksInv, TickerTracksFirst
<1>4. CASE timed_event_pending
  <2>1. /\ Enqueue(s, h, ms + read_ms)
        /\ timer' = timer
        /\ update_ticker_if_first(h, ms)
    BY <1>4 DEF Schedule
  <2>2. /\ read_ms \in Nat /\ ms + read_ms \in Nat \ {0}
        /\ read_ms * Resolution <= timer.elapsed /\ timer.elapsed < read_ms * Resolution + Resolution
    BY <1>1, ReadMs
  <2>3. Timed' # {}
    BY <1>1, <2>1, <2>2, EnqueueTimed
  <2>4. timed_event_pending' = TRUE /\ ticker'.attached = TRUE /\ timer'.running = TRUE
    <3>1. ticker.attached = TRUE /\ timer.running = TRUE
      BY <1>1, <1>4 DEF ClocksInv, ClocksFollowQueue
    <3>2. \/ timed_event_pending' = TRUE /\ ticker' = [attached |-> TRUE, left |-> ms * Resolution]
          \/ timed_event_pending' = timed_event_pending /\ ticker' = ticker
      BY <2>1 DEF update_ticker_if_first, update_ticker
    <3>3. timed_event_pending' = TRUE /\ ticker'.attached = TRUE
      <4>1. timed_event_pending = TRUE
        BY <1>1, <1>4 DEF ClocksOK
      <4>2. CASE timed_event_pending' = TRUE /\ ticker' = [attached |-> TRUE, left |-> ms * Resolution]
        BY <4>2
      <4>3. CASE timed_event_pending' = timed_event_pending /\ ticker' = ticker
        BY <3>1, <4>1, <4>3
      <4> QED
        BY <3>2, <4>2, <4>3
    <3> QED
      BY <2>1, <3>1, <3>3
  <2>5. ClocksFollowQueue'
    BY <2>3, <2>4 DEF ClocksFollowQueue
  <2>6. CASE IsFirstTimed(list', remaining', h)
    <3>1. ticker'.left = ms * Resolution
      BY <2>1, <2>6 DEF update_ticker_if_first, update_ticker
    <3>2. remaining'[h] = ms + read_ms /\ timer'.elapsed = timer.elapsed
      BY <1>1, <2>1, <2>2, EnqueueEffect
    <3>3. (ms + read_ms) * Resolution = ms * Resolution + read_ms * Resolution /\ read_ms * Resolution \in Nat
      BY <2>2, Product
    <3> DEFINE a == ms * Resolution
               b == read_ms * Resolution
               c == timer.elapsed
               x == remaining'[h] * Resolution
    <3>4. x = a + b
      <4>1. x = (ms + read_ms) * Resolution
        BY <3>2, Zenon
      <4> QED
        BY <3>3, <4>1, Zenon
    <3>5. /\ a \in Nat /\ b \in Nat /\ c \in Nat /\ Resolution \in Nat
          /\ b <= c /\ c < b + Resolution /\ ticker'.left = a /\ timer'.elapsed = c
      BY <1>1, <1>2, <2>2, <3>1, <3>2, <3>3
    <3>6. Wait(h)' <= ticker'.left /\ ticker'.left < Wait(h)' + Resolution
      <4>1. Wait(h)' = x - timer'.elapsed
        BY DEF Wait
      <4> HIDE DEF a, b, c, x
      <4> QED
        BY <3>4, <3>5, <4>1
    <3>7. \A g \in Handle : IsFirstTimed(list', remaining', g) => g = h
      <4> DEFINE t == list'
      <4>1. t \in Seq(Handle) /\ IsFirstTimed(t, remaining', h)
        BY <2>6
      <4> HIDE DEF t
      <4>2. \A g \in Handle : IsFirstTimed(t, remaining', g) => g = h
        BY <4>1, FirstIsUnique
      <4> QED
        BY <4>2 DEF t
    <3> QED
      BY <2>5, <3>6, <3>7 DEF ClocksInv, TickerTracksFirst
  <2>7. CASE ~IsFirstTimed(list', remaining', h)
    <3>1. ticker' = ticker /\ timer' = timer
      BY <2>1, <2>7 DEF update_ticker_if_first
    <3>2. ASSUME NEW g \in Handle, IsFirstTimed(list', remaining', g)
          PROVE  IsFirstTimed(list, remaining, g) /\ remaining'[g] = remaining[g]
      <4>1. g # h
        BY <2>7, <3>2
      <4> QED
        BY <1>1, <2>1, <2>2, <3>2, <4>1, FirstBeforeInsert
    <3> QED
      BY <2>5, <3>1, <3>2 DEF ClocksInv, TickerTracksFirst, Wait
  <2> QED
    BY <2>6, <2>7
<1> QED
  BY <1>3, <1>4

(* updateTime() of the events of the new list.                             *)
LEMMA UpdateTimeTicker ==
  ASSUME EventsOK, timer.elapsed \in Nat, NEW s \in Seq(Handle), list' = s, UpdateTime(s)
  PROVE  ClocksInv'
<1>1. remaining' \in [Handle -> Nat]
  BY UpdateTimeEffect
<1>2. Timed' = TimedOf(s, remaining')
  BY DEF Timed, Posted, TimedOf
<1>3. CASE /\ \A i \in 1 .. Len(s) : remaining'[s[i]] = 0
           /\ timed_event_pending' = FALSE
           /\ ticker' = [attached |-> FALSE, left |-> 0]
           /\ restart_timer(FALSE)
  <2>1. \A h : ~IsFirstTimed(s, remaining', h)
    BY <1>3 DEF IsFirstTimed
  <2>2. Timed' = {}
    BY <1>2, <1>3 DEF TimedOf, ToSet
  <2>3. ~timed_event_pending' /\ ~ticker'.attached /\ ~timer'.running
    BY <1>3 DEF restart_timer
  <2> QED
    BY <2>1, <2>2, <2>3 DEF ClocksInv, ClocksFollowQueue, TickerTracksFirst
<1>4. CASE \E i \in 1 .. Len(s) :
             /\ IsFirstTimed(s, remaining', s[i])
             /\ update_ticker(remaining'[s[i]])
             /\ restart_timer(TRUE)
  <2>1. PICK h \in Handle :
          /\ IsFirstTimed(s, remaining', h)
          /\ update_ticker(remaining'[h])
          /\ restart_timer(TRUE)
    <3>1. \A i \in 1 .. Len(s) : s[i] \in Handle
      OBVIOUS
    <3> QED
      BY <1>4, <3>1
  <2>2. remaining'[h] \in Nat
    BY <1>1
  <2>3. /\ timed_event_pending' = TRUE
        /\ ticker'.attached = TRUE /\ ticker'.left = remaining'[h] * Resolution
        /\ timer'.running = TRUE /\ timer'.elapsed = 0
    BY <2>1 DEF update_ticker, restart_timer
  <2>4. Timed' # {}
    BY <1>2, <2>1, FirstIsTimed
  <2>5. Wait(h)' = remaining'[h] * Resolution /\ remaining'[h] * Resolution \in Nat
    <3>1. Wait(h)' = remaining'[h] * Resolution - timer'.elapsed
      BY DEF Wait
    <3>2. remaining'[h] * Resolution \in Nat
      BY <2>2, Product
    <3> QED
      BY <2>3, <3>1, <3>2
  <2>6. Wait(h)' <= ticker'.left /\ ticker'.left < Wait(h)' + Resolution
    BY <2>3, <2>5, ResolutionAssumption
  <2>7. \A g \in Handle : IsFirstTimed(s, remaining', g) => g = h
    BY <2>1, FirstIsUnique
  <2> QED
    BY <2>3, <2>4, <2>6, <2>7 DEF ClocksInv, ClocksFollowQueue, TickerTracksFirst
<1> QED
  BY <1>3, <1>4 DEF UpdateTime

LEMMA ClocksInvPost ==
  ASSUME IInv, ClocksInv, list' \in Seq(Handle), NEW d \in Delay, NEW repeat \in BOOLEAN, Post(d, repeat)
  PROVE  ClocksInv'
<1>1. EventsOK /\ list \in Seq(Handle)
  BY DEF IInv, EventInv, EventsOK
<1>2. PICK h \in Handle \ Posted :
        IF d = 0 THEN Enqueue(list, h, 0) /\ UNCHANGED clocks ELSE Schedule(list, h, d)
  BY DEF Post
<1>3. h \notin ToSet(list) /\ TimedOf(list, remaining) = Timed /\ d \in Nat
  BY DelayAssumption DEF Posted, Timed, TimedOf
<1>4. CASE d = 0
  <2>1. Enqueue(list, h, 0) /\ UNCHANGED <<timed_event_pending, ticker, timer>>
    BY <1>2, <1>4 DEF clocks
  <2>2. Timed' = Timed
    BY <1>1, <1>3, <2>1, EnqueueTimed, ZenonT(60)
  <2>3. ASSUME NEW g \in Handle, IsFirstTimed(list', remaining', g)
        PROVE  IsFirstTimed(list, remaining, g) /\ remaining'[g] = remaining[g]
    <3>1. g # h
      BY <1>1, <2>1, <2>3, EnqueueEffect DEF IsFirstTimed
    <3> QED
      BY <1>1, <1>3, <2>1, <2>3, <3>1, FirstBeforeInsert
  <2> QED
    BY <2>1, <2>2, <2>3 DEF ClocksInv, ClocksFollowQueue, TickerTracksFirst, Wait
<1>5. CASE d # 0
  BY <1>1, <1>2, <1>3, <1>5, ScheduleTicker
<1> QED
  BY <1>4, <1>5

LEMMA ClocksInvCancel ==
  ASSUME IInv, ClocksInv, list' \in Seq(Handle), NEW h \in Handle, Cancel(h)
  PROVE  ClocksInv'
<1>1. CASE spinning'
  BY <1>1, StuckEffect
     DEF clocks, ClocksInv, ClocksFollowQueue, TickerTracksFirst, Timed, Posted, Wait
<1>2. CASE ~spinning'
  <2> DEFINE s == list'
  <2>1. EventsOK /\ timer.elapsed \in Nat /\ s \in Seq(Handle) /\ list' = s /\ UpdateTime(s)
    BY <1>2, CancelEffect DEF IInv, EventInv
  <2> HIDE DEF s
  <2> QED
    BY <2>1, UpdateTimeTicker
<1> QED
  BY <1>1, <1>2

LEMMA ClocksInvDispatch ==
  ASSUME IInv, ClocksInv, list' \in Seq(Handle), Dispatch
  PROVE  ClocksInv'
<1> DEFINE h == Head(list)
<1>1. EventsOK /\ list \in Seq(Handle) /\ list # <<>> /\ NoDuplicates(list) /\ remaining[h] = 0
  BY DEF IInv, EventInv, EventsOK, Dispatch, IsDue
<1>2. /\ 1 \in 1 .. Len(list) /\ h = list[1] /\ Tail(list) = RemoveAt(list, 1)
      /\ Tail(list) \in Seq(Handle) /\ h \in Handle
  BY <1>1, TailIsRemoveAt
<1>3. ToSet(Tail(list)) = ToSet(list) \ {h}
  BY <1>1, <1>2, RemoveSet, ZenonT(60)
<1>4. TimedOf(Tail(list), remaining) = Timed /\ h \notin ToSet(Tail(list))
  BY <1>1, <1>3 DEF Timed, Posted, TimedOf
<1>5. \A g \in Handle : IsFirstTimed(Tail(list), remaining, g) => IsFirstTimed(list, remaining, g)
  BY <1>1, FirstBehindHead
<1>6. CASE list' = Tail(list) /\ UNCHANGED <<remaining, clocks>>
  <2>1. UNCHANGED <<remaining, timed_event_pending, ticker, timer>>
    BY <1>6 DEF clocks
  <2>2. Timed' = Timed
    BY <1>4, <1>6, <2>1 DEF Timed, Posted, TimedOf
  <2> QED
    BY <1>5, <1>6, <2>1, <2>2 DEF ClocksInv, ClocksFollowQueue, TickerTracksFirst, Wait
<1>7. CASE period[h] # 0 /\ Schedule(Tail(list), h, period[h])
  <2>1. period[h] \in Nat \ {0}
    BY <1>1, <1>2, <1>7 DEF EventsOK
  <2> HIDE DEF h
  <2> QED
    BY <1>2, <1>4, <1>5, <1>7, <2>1, ScheduleTicker
<1> QED
  BY <1>6, <1>7 DEF Dispatch

(* The ticker and the timer run together.                                  *)
LEMMA ClocksInvTick ==
  ASSUME IInv, ClocksInv, Tick
  PROVE  ClocksInv'
<1>1. /\ EventsOK /\ ticker \in [attached : BOOLEAN, left : Int]
      /\ timer \in [running : BOOLEAN, elapsed : Nat] /\ Resolution \in Nat \ {0}
  BY ResolutionAssumption DEF IInv, EventInv, ClocksOK
<1>2. /\ ticker' = [ticker EXCEPT !.left = IF ticker.attached THEN @ - 1 ELSE @]
      /\ timer' = [timer EXCEPT !.elapsed = IF timer.running THEN @ + 1 ELSE @]
      /\ UNCHANGED <<list, remaining, timed_event_pending>>
  BY DEF Tick
<1>3. ticker'.attached = ticker.attached /\ timer'.running = timer.running /\ Timed' = Timed
  BY <1>1, <1>2 DEF Timed, Posted
<1>4. ClocksFollowQueue'
  BY <1>2, <1>3 DEF ClocksInv, ClocksFollowQueue
<1>5. ASSUME NEW h \in Handle, IsFirstTimed(list', remaining', h)
      PROVE  Wait(h)' <= ticker'.left /\ ticker'.left < Wait(h)' + Resolution
  <2>1. IsFirstTimed(list, remaining, h) /\ remaining[h] \in Nat
    BY <1>1, <1>2, <1>5 DEF EventsOK
  <2>2. h \in Timed
    BY <1>1, <2>1, FirstIsTimed DEF EventsOK, Timed, Posted, TimedOf
  <2>3. ticker.attached /\ timer.running
    BY <2>2 DEF ClocksInv, ClocksFollowQueue
  <2>4. ticker'.left = ticker.left - 1 /\ timer'.elapsed = timer.elapsed + 1
    BY <1>1, <1>2, <2>3
  <2> DEFINE a == remaining[h] * Resolution
  <2>5. a \in Nat /\ a - timer.elapsed <= ticker.left /\ ticker.left < a - timer.elapsed + Resolution
    BY <1>1, <2>1, Product DEF ClocksInv, TickerTracksFirst, Wait
  <2>6. Wait(h)' = a - timer'.elapsed
    BY <1>2 DEF Wait
  <2> HIDE DEF a
  <2> QED
    BY <1>1, <2>4, <2>5, <2>6
<1> QED
  BY <1>4, <1>5 DEF ClocksInv, TickerTracksFirst

LEMMA ClocksInvNext == IInv /\ ClocksInv /\ [Next]_vars => ClocksInv'
<1> SUFFICES ASSUME IInv, ClocksInv, [Next]_vars
             PROVE  ClocksInv'
  OBVIOUS
<1>1. list \in Seq(Handle) /\ list' \in Seq(Handle) /\ EventsOK /\ timer.elapsed \in Nat
  BY EventInvNext DEF IInv, EventInv, EventsOK
<1>2. CASE TickerInterrupt
  <2>1. list' = list /\ UpdateTime(list)
    BY <1>2 DEF TickerInterrupt
  <2> QED
    BY <1>1, <2>1, UpdateTimeTicker
<1>3. CASE UNCHANGED vars
  BY <1>3 DEF vars, clocks, ClocksInv, ClocksFollowQueue, TickerTracksFirst, Timed, Posted, Wait
<1> QED
  BY <1>1, <1>2, <1>3, ClocksInvPost, ClocksInvCancel, ClocksInvDispatch, ClocksInvTick DEF Next, Spin

LEMMA ClocksInvariant == Spec => []ClocksInv
<1>1. Init => ClocksInv
  <2>1. Init => ClocksFollowQueue
    BY DEF Init, ClocksFollowQueue, Timed, Posted, ToSet
  <2>2. Init => TickerTracksFirst
    BY DEF Init, TickerTracksFirst, IsFirstTimed
  <2> QED
    BY <2>1, <2>2 DEF ClocksInv
<1> QED
  BY <1>1, ClocksInvNext, IInvariant, PTL DEF Spec

(* The flag, the ticker and the timer run exactly while an event waits for its time
   (do_post(), reschedule_event(), updateTime()).                          *)
THEOREM ClocksRunWhileOneWaits == Spec => []ClocksFollowQueue
<1>1. ClocksInv => ClocksFollowQueue
  BY DEF ClocksInv
<1> QED
  BY <1>1, ClocksInvariant, PTL

(* The interrupt of the ticker comes neither before the time of the event that waits the
   shortest nor a millisecond after it.                                    *)
THEOREM TickerIsSetForFirst == Spec => []TickerTracksFirst
<1>1. ClocksInv => TickerTracksFirst
  BY DEF ClocksInv
<1> QED
  BY <1>1, ClocksInvariant, PTL

-----------------------------------------------------------------------------
(* The moment a waiting event is brought forward.                          *)

(* What a step may do to the wait of h.                                    *)
Kept(h) == Wait(h)' >= Wait(h) - 1 /\ Wait(h)' < Wait(h) + Resolution

LEMMA WaitStays ==
  ASSUME EventsOK, timer.elapsed \in Nat, NEW h \in Handle,
         remaining'[h] = remaining[h], timer'.elapsed \in {timer.elapsed, timer.elapsed + 1}
  PROVE  Kept(h)
<1> DEFINE a == remaining[h] * Resolution
<1>1. a \in Nat /\ Resolution \in Nat \ {0}
  BY Product, ResolutionAssumption DEF EventsOK
<1>2. Wait(h)' = a - timer'.elapsed /\ Wait(h) = a - timer.elapsed
  BY DEF Wait
<1> HIDE DEF a
<1> QED
  BY <1>1, <1>2 DEF Kept

(* A timer that is reset takes the whole milliseconds off the wait.        *)
LEMMA WaitIsCountedDown ==
  ASSUME EventsOK, timer.elapsed \in Nat, NEW s, UpdateTime(s),
         NEW h \in ToSet(s), h \in Handle, remaining[h] # 0, remaining'[h] # 0
  PROVE  Kept(h)
<1>1. remaining'[h] = CountDown(remaining[h]) /\ timer'.elapsed = 0
  BY DEF UpdateTime, restart_timer
<1>2. remaining[h] \in Nat /\ read_ms \in Nat /\ Resolution \in Nat \ {0}
  BY ReadMs, ResolutionAssumption DEF EventsOK
<1>3. remaining'[h] = remaining[h] - read_ms /\ read_ms <= remaining[h]
  BY <1>1, <1>2 DEF CountDown
<1> DEFINE a == remaining[h] * Resolution
           b == read_ms * Resolution
           c == timer.elapsed
           x == remaining'[h] * Resolution
<1>4. /\ a \in Nat /\ b \in Nat /\ b <= c /\ c < b + Resolution
  BY <1>2, ReadMs, Product
<1>5. x = a - b
  <2>1. x = (remaining[h] - read_ms) * Resolution
    BY <1>3, Zenon
  <2>2. (remaining[h] - read_ms) * Resolution = a - b
    BY <1>2, <1>3, Product
  <2> QED
    BY <2>1, <2>2, Zenon
<1>6. Wait(h)' = x - timer'.elapsed /\ Wait(h) = a - c
  BY DEF Wait
<1> HIDE DEF a, b, x
<1> QED
  BY <1>1, <1>2, <1>4, <1>5, <1>6 DEF Kept

LEMMA WaitsStep == IInv /\ [Next]_vars => \A h \in Timed : h \in Timed' => Kept(h)
<1> SUFFICES ASSUME IInv, [Next]_vars, NEW h \in Timed, h \in Timed'
             PROVE  Kept(h)
  OBVIOUS
<1>1. /\ EventsOK /\ timer.elapsed \in Nat /\ Calm /\ list \in Seq(Handle) /\ NoDuplicates(list)
      /\ ClocksOK
  BY DEF IInv, EventInv, EventsOK
<1>2. h \in Posted /\ h \in Handle /\ remaining[h] # 0
  BY <1>1 DEF Timed, Posted, ToSet
<1>3. h \in Posted' /\ remaining'[h] # 0
  BY DEF Timed
<1>4. ASSUME NEW d \in Delay, NEW repeat \in BOOLEAN, Post(d, repeat)
      PROVE  Kept(h)
  <2>1. PICK g \in Handle \ Posted, w \in Nat : Enqueue(list, g, w) /\ timer'.elapsed = timer.elapsed
    BY <1>1, <1>4, PostEffect
  <2>2. remaining'[h] = remaining[h]
    BY <1>1, <1>2, <2>1, EnqueueEffect
  <2> QED
    BY <1>1, <1>2, <2>1, <2>2, WaitStays
<1>5. ASSUME NEW g \in Handle, Cancel(g)
      PROVE  Kept(h)
  <2>1. CASE spinning'
    BY <1>1, <1>2, <1>5, <2>1, StuckEffect, WaitStays DEF clocks
  <2>2. CASE ~spinning'
    <3> DEFINE s == list'
    <3>1. UpdateTime(s) /\ h \in ToSet(s)
      BY <1>1, <1>3, <1>5, <2>2, CancelEffect DEF Posted
    <3> HIDE DEF s
    <3> QED
      BY <1>1, <1>2, <1>3, <3>1, WaitIsCountedDown
  <2> QED
    BY <2>1, <2>2
<1>6. CASE TickerInterrupt
  <2>1. UpdateTime(list) /\ h \in ToSet(list)
    BY <1>2, <1>6 DEF TickerInterrupt, Posted
  <2> QED
    BY <1>1, <1>2, <1>3, <2>1, WaitIsCountedDown
<1>7. CASE Dispatch
  <2>1. PICK g \in Posted :
          /\ g = Head(list) /\ list # <<>> /\ remaining[g] = 0
          /\ timer'.elapsed = timer.elapsed
          /\ \/ remaining' = remaining
             \/ \E w \in Nat \ {0} : Enqueue(Tail(list), g, w)
    BY <1>1, <1>7, DispatchEffect
  <2>2. Tail(list) \in Seq(Handle) /\ g \in Handle /\ g # h
    BY <1>1, <1>2, <2>1, TailIsRemoveAt
  <2>3. remaining'[h] = remaining[h]
    <3>1. CASE remaining' = remaining
      BY <3>1
    <3>2. ASSUME NEW w \in Nat \ {0}, Enqueue(Tail(list), g, w)
          PROVE  remaining'[h] = remaining[h]
      BY <1>2, <2>2, <3>2 DEF Enqueue
    <3> QED
      BY <2>1, <3>1, <3>2
  <2> QED
    BY <1>1, <1>2, <2>1, <2>3, WaitStays
<1>8. CASE Tick
  <2>1. remaining' = remaining /\ timer'.elapsed \in {timer.elapsed, timer.elapsed + 1}
    BY <1>1, <1>8 DEF Tick, ClocksOK
  <2> QED
    BY <1>1, <1>2, <2>1, WaitStays
<1>9. CASE UNCHANGED vars
  BY <1>1, <1>2, <1>9, WaitStays DEF vars, clocks
<1> QED
  BY <1>4, <1>5, <1>6, <1>7, <1>8, <1>9 DEF Next, Spin

(* Whatever is posted, cancelled, run or counted down, the moment a waiting event is
   brought forward is never moved earlier, and by less than a millisecond in one step
   (updateTime() and the reset of its timer).                              *)
THEOREM WaitsKept == Spec => WaitsAreKept
<1>1. IInv /\ [Next]_vars => [StepKeepsWaits]_vars
  BY WaitsStep DEF Kept, StepKeepsWaits
<1> QED
  BY <1>1, IInvariant, PTL DEF Spec, WaitsAreKept
=============================================================================
