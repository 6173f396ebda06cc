---------------------------- MODULE BoundedFifo ----------------------------
(***************************************************************************)
(* What a buffer between an interrupt handler and the main loop promises:  *)
(* at most Size elements, taken out in the order they were put in.         *)
(***************************************************************************)
EXTENDS Integers, Sequences

CONSTANTS Size, Value

VARIABLES contents,   \* the elements, the oldest first
          taken       \* what the last operation handed out

vars == <<contents, taken>>

Init == contents = <<>> /\ taken = <<>>

Put(v) ==
  /\ Len(contents) < Size
  /\ contents' = Append(contents, v)
  /\ taken' = <<>>

(* At most n elements are asked for and as many as there are handed out.   *)
Take(n) ==
  LET k == IF n < Len(contents) THEN n ELSE Len(contents)
  IN /\ taken' = SubSeq(contents, 1, k)
     /\ contents' = SubSeq(contents, k + 1, Len(contents))

Clear == contents' = <<>> /\ taken' = <<>>

Next ==
  \/ \E v \in Value : Put(v)
  \/ \E n \in 1 .. Size : Take(n)
  \/ Clear

Spec == Init /\ [][Next]_vars
=============================================================================
