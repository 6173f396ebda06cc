---------------------------- MODULE EventService ----------------------------
(***************************************************************************)
(* What an event queue promises its callers, without its list, its ticker  *)
(* and its timer: an event runs once, or once per period, never after it   *)
(* was cancelled, and less than one millisecond before its time at most.   *)
(***************************************************************************)
EXTENDS Integers

CONSTANTS Handle,      \* the names of events
          Delay,       \* the delays callers ask for, in milliseconds
          Resolution   \* clock instants in a millisecond

VARIABLES posted,      \* the events that wait to run
          due,         \* instants until the time each event was asked for, 0 when it has come
          period       \* milliseconds between two runs of an event, 0 for one that runs once

vars == <<posted, due, period>>

Init ==
  /\ posted = {}
  /\ due = [h \in Handle |-> 0]
  /\ period = [h \in Handle |-> 0]

Post(h, d, p) ==
  /\ h \notin posted
  /\ p \in {0, d}
  /\ posted' = posted \cup {h}
  /\ due' = [due EXCEPT ![h] = d * Resolution]
  /\ period' = [period EXCEPT ![h] = p]

(* The event is gone, its name is free.                                    *)
Forget(h) ==
  /\ posted' = posted \ {h}
  /\ due' = [due EXCEPT ![h] = 0]
  /\ period' = [period EXCEPT ![h] = 0]

Cancel(h) == h \in posted /\ Forget(h)

Run(h) ==
  /\ h \in posted
  /\ due[h] < Resolution
  /\ \/ period[h] = 0 /\ Forget(h)
     \/ /\ period[h] # 0
        /\ due' = [due EXCEPT ![h] = period[h] * Resolution]
        /\ UNCHANGED <<posted, period>>

Pass ==
  /\ due' = [h \in Handle |-> IF due[h] = 0 THEN 0 ELSE due[h] - 1]
  /\ UNCHANGED <<posted, period>>

Next ==
  \/ \E h \in Handle, d, p \in Delay \cup {0} : Post(h, d, p)
  \/ \E h \in Handle : Cancel(h) \/ Run(h)
  \/ Pass

Spec == Init /\ [][Next]_vars
=============================================================================
