-------------------------- MODULE ServiceDeclaration --------------------------
(***************************************************************************)
(* What the commands that declare a GATT service promise.  A service is    *)
(* declared one characteristic and one descriptor after the other, the     *)
(* last of which can still be changed; committing gives the server all     *)
(* that was declared, in that order, and nothing else gives it anything.   *)
(* The one way out of the promise: a list that gets too long.              *)
(***************************************************************************)
EXTENDS Integers, Sequences

CONSTANTS UUID, Setting, DefaultSetting, Length,
          None,        \* no service is being declared
          CountValues  \* the length of a list that is too long

VARIABLES declared,  \* the characteristics of the service that is being declared
          server,    \* what the server was given, service by service
          lost       \* a list was too long

vars == <<declared, server, lost>>

NewAttribute(u) == [uuid |-> u, setting |-> DefaultSetting, len |-> 0, lenMax |-> 0]

Init == declared = None /\ server = <<>> /\ lost = FALSE

Last(list) == list[Len(list)]
WithLast(list, x) == [list EXCEPT ![Len(list)] = x]

(* A value may be longer than the attribute was, which grows; a maximum may not be
   shorter than the value.                                                 *)
Changed(old) ==
  {[old EXCEPT !.len = n, !.lenMax = IF @ < n THEN n ELSE @] : n \in Length} \cup
  {[old EXCEPT !.lenMax = n] : n \in {n \in Length \cup {0} : n >= old.len}} \cup
  {[old EXCEPT !.setting = s] : s \in Setting}

Declare(u) ==
  /\ declared = None
  /\ declared' = [uuid |-> u, characteristics |-> <<>>]
  /\ UNCHANGED <<server, lost>>

(* The characteristics are added at the end, or the last one is another.   *)
Characteristics(list) ==
  {Append(list, [value |-> NewAttribute(u), descriptors |-> <<>>]) : u \in UUID} \cup
  (IF list = <<>> THEN {}
   ELSE LET c == Last(list) IN
     {WithLast(list, [c EXCEPT !.value = v]) : v \in Changed(c.value)} \cup
     {WithLast(list, [c EXCEPT !.descriptors = Append(@, NewAttribute(u))]) : u \in UUID} \cup
     (IF c.descriptors = <<>> THEN {}
      ELSE {WithLast(list, [c EXCEPT !.descriptors = WithLast(@, d)]) :
              d \in Changed(Last(c.descriptors))}))

Extend ==
  /\ declared # None
  /\ \E list \in Characteristics(declared.characteristics) :
       declared' = [declared EXCEPT !.characteristics = list]
  /\ UNCHANGED <<server, lost>>

Commit ==
  /\ declared # None
  /\ server' = Append(server, declared)
  /\ declared' = None
  /\ UNCHANGED lost

(* The user cancels it, or the server refuses it.                          *)
Cancel == declared # None /\ declared' = None /\ UNCHANGED <<server, lost>>

Shutdown == declared' = None /\ server' = <<>> /\ UNCHANGED lost

TooLong ==
  /\ declared # None
  /\ \/ Len(declared.characteristics) >= CountValues
     \/ \E i \in DOMAIN declared.characteristics :
          Len(declared.characteristics[i].descriptors) >= CountValues

(* Then nothing is promised any more.                                      *)
Lose == lost \/ (TooLong /\ lost')

Next == (\E u \in UUID : Declare(u)) \/ Extend \/ Commit \/ Cancel \/ Shutdown \/ Lose

Spec == Init /\ [][Next]_vars
=============================================================================
