--------------------------- MODULE SortedListOps ---------------------------
(***************************************************************************)
(* Operators on the ordered list that the event queue is built on          *)
(* (source/EventQueue/PriorityQueue.h): what it is to be ordered, and the  *)
(* place an element gets in an ordered list.                               *)
(***************************************************************************)
EXTENDS Integers, SequencesExt

(* The keys of an ordered list do not decrease.                            *)
IsOrdered(keys) ==
  \A i, j \in 1 .. Len(keys) : i < j => keys[i] <= keys[j]

(***************************************************************************)
(* push() and insert_after() link an element before the first element it   *)
(* is smaller than, so behind every element of the same key.  keys are the *)
(* keys of an ordered list, i is the place an element of key k gets.       *)
(***************************************************************************)
IsInsertionPoint_BeforeEquals(keys, k, i) ==  \* mutant: in front of the elements of its key
  /\ i \in 1 .. Len(keys) + 1
  /\ \A j \in 1 .. Len(keys) : keys[j] < k <=> j < i
IsInsertionPoint(keys, k, i) ==
  /\ i \in 1 .. Len(keys) + 1
  /\ \A j \in 1 .. Len(keys) : keys[j] <= k <=> j < i

(* No element is in the list twice.                                        *)
NoDuplicates(s) ==
  \A i, j \in 1 .. Len(s) : s[i] = s[j] => i = j
=============================================================================
