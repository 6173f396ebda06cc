--------------------------- MODULE CircularBuffer ---------------------------
(***************************************************************************)
(* The ring buffer of source/util/CircularBuffer.h, one action per member  *)
(* function that changes it.  The variables are its members; taken is what *)
(* the last pop() wrote to its destination.                                *)
(***************************************************************************)
EXTENDS Integers, Sequences

CONSTANTS BufferSize, Value,
          MaxPop      \* bound: the most elements one pop() asks for

ASSUME BufferSizeAssumption == BufferSize \in Nat \ {0}
ASSUME MaxPopAssumption == MaxPop \in Nat

VARIABLES buffer, head, tail, full, taken

vars == <<buffer, head, tail, full, taken>>

Index == 0 .. BufferSize - 1

Init ==
  /\ buffer \in [Index -> Value]
  /\ head = 0
  /\ tail = 0
  /\ full = FALSE
  /\ taken = <<>>

empty == head = tail /\ ~full

incrementCounter_NoWrap(val) ==  \* mutant: off by one before the end of the buffer
  IF val + 1 > BufferSize THEN 0 ELSE val + 1
incrementCounter(val) == (val + 1) % BufferSize

(* push() of a buffer that is not full.                                    *)
push(v) ==
  /\ ~full
  /\ buffer' = [buffer EXCEPT ![head] = v]
  /\ head' = incrementCounter(head)
  /\ full' = (incrementCounter(head) = tail)
  /\ taken' = <<>>
  /\ UNCHANGED tail

(* pop() of one element.                                                   *)
pop_one ==
  /\ ~empty
  /\ taken' = <<buffer[tail]>>
  /\ tail' = incrementCounter(tail)
  /\ full' = FALSE
  /\ UNCHANGED <<buffer, head>>

(* std::copy of n elements from place i on.                                *)
copy(i, n) == [j \in 1 .. n |-> buffer[i + j - 1]]

(* pop() of up to len elements that stays in front of the head.            *)
pop_ahead(len) ==
  /\ tail < head
  /\ LET n == IF tail + len > head THEN head - tail ELSE len
     IN /\ taken' = copy(tail, n)
        /\ tail' = tail + n
  /\ UNCHANGED <<buffer, head, full>>

(* The elements go on at the beginning of the buffer, but end before it.   *)
pop_to_end_StaysFull(len) ==  \* mutant: _full is not cleared
  /\ ~empty /\ head <= tail
  /\ tail + len <= BufferSize
  /\ taken' = copy(tail, len)
  /\ tail' = (tail + len) % BufferSize
  /\ UNCHANGED <<buffer, head, full>>
pop_to_end(len) ==
  /\ ~empty /\ head <= tail
  /\ tail + len <= BufferSize
  /\ taken' = copy(tail, len)
  /\ tail' = (tail + len) % BufferSize
  /\ full' = FALSE
  /\ UNCHANGED <<buffer, head>>

(* The two calls pop() makes of itself when it has to go on at the beginning:
   one up to the end of the buffer, one for the rest that takes what there is
   in front of the head.                                                   *)
pop_around(len) ==
  /\ ~empty /\ head <= tail
  /\ tail + len > BufferSize
  /\ LET rest == len - (BufferSize - tail)
         n == IF rest > head THEN head ELSE rest
     IN /\ taken' = copy(tail, BufferSize - tail) \o copy(0, n)
        /\ tail' = n
  /\ full' = FALSE
  /\ UNCHANGED <<buffer, head>>

reset ==
  /\ head' = 0
  /\ tail' = 0
  /\ full' = FALSE
  /\ taken' = <<>>
  /\ UNCHANGED buffer

Next ==
  \/ \E v \in Value : push(v)
  \/ pop_one
  \/ \E len \in 1 .. MaxPop : pop_ahead(len) \/ pop_to_end(len) \/ pop_around(len)
  \/ reset

Spec == Init /\ [][Next]_vars

-----------------------------------------------------------------------------
TypeOK ==
  /\ buffer \in [Index -> Value]
  /\ head \in Index
  /\ tail \in Index
  /\ full \in BOOLEAN
  /\ full => head = tail
  /\ taken \in Seq(Value)

(* The number of elements, and the place of the i-th oldest one.           *)
Count == IF full THEN BufferSize
         ELSE IF tail <= head THEN head - tail
         ELSE head - tail + BufferSize

Place(i) == IF tail + i <= BufferSize THEN tail + i - 1 ELSE tail + i - 1 - BufferSize

Contents == [i \in 1 .. Count |-> buffer[Place(i)]]

(* Across the wrap of both indices, a full buffer and requests longer than what
   there is, the ring hands out its elements in the order they were pushed, none
   lost and none twice.                                                    *)
Fifo == INSTANCE BoundedFifo WITH Size <- BufferSize, contents <- Contents

ImplementsFifo == Fifo!Spec
=============================================================================
