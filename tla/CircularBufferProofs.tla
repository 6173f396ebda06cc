------------------------ MODULE CircularBufferProofs ------------------------
(***************************************************************************)
(* The ring of CircularBuffer is a first-in first-out buffer: it           *)
(* implements BoundedFifo, for every BufferSize, every set of elements and *)
(* however many elements a pop() asks for.                                 *)
(***************************************************************************)
EXTENDS CircularBuffer, SequenceTheorems, TLAPS

(* (val + 1) % BufferSize is the next index, or 0 behind the last one.     *)
LEMMA Increment ==
  ASSUME NEW val \in Index
  PROVE  /\ incrementCounter(val) = IF val + 1 = BufferSize THEN 0 ELSE val + 1
         /\ incrementCounter(val) \in Index
<1>1. BufferSize \in Nat \ {0} /\ val \in 0 .. BufferSize - 1
  BY BufferSizeAssumption DEF Index
<1>2. CASE val + 1 = BufferSize
  <2>1. (val + 1) % BufferSize = 0
    BY <1>1, <1>2
  <2> QED
    BY <1>1, <1>2, <2>1 DEF incrementCounter, Index
<1>3. CASE val + 1 # BufferSize
  <2>1. val + 1 \in 0 .. BufferSize - 1
    BY <1>1, <1>3
  <2>2. (val + 1) % BufferSize = val + 1
    BY <1>1, <2>1
  <2> QED
    BY <1>1, <1>3, <2>1, <2>2 DEF incrementCounter, Index
<1> QED
  BY <1>2, <1>3

(* The remainder pop() takes when it may have reached the end of the buffer. *)
LEMMA AtTheEnd ==
  ASSUME NEW i \in Nat, i <= BufferSize
  PROVE  i % BufferSize = IF i = BufferSize THEN 0 ELSE i
<1>1. BufferSize \in Nat \ {0}
  BY BufferSizeAssumption
<1>2. CASE i = BufferSize
  BY <1>1, <1>2
<1>3. CASE i # BufferSize
  BY <1>1, <1>3
<1> QED
  BY <1>2, <1>3

(* What the ring holds, and that its places are places of the buffer.      *)
RingFacts ==
  /\ BufferSize \in Nat \ {0}
  /\ head \in 0 .. BufferSize - 1 /\ tail \in 0 .. BufferSize - 1
  /\ Count \in 0 .. BufferSize
  /\ Count = 0 <=> empty
  /\ \A i \in 1 .. Count : Place(i) \in Index
  /\ Contents \in Seq(Value)
  /\ Len(Contents) = Count
  /\ \A i \in 1 .. Count : Contents[i] = buffer[Place(i)]

LEMMA ContentsType == TypeOK => RingFacts
<1> SUFFICES ASSUME TypeOK PROVE RingFacts
  OBVIOUS
<1>1. BufferSize \in Nat \ {0} /\ head \in 0 .. BufferSize - 1 /\ tail \in 0 .. BufferSize - 1
  BY BufferSizeAssumption DEF TypeOK, Index
<1>2. full \in BOOLEAN /\ (full => head = tail)
  BY DEF TypeOK
<1>3. Count \in 0 .. BufferSize /\ (Count = 0 <=> empty)
  BY <1>1, <1>2 DEF Count, empty
<1>4. \A i \in 1 .. Count : Place(i) \in Index
  BY <1>1, <1>3 DEF Place, Index
<1>5. \A i \in 1 .. Count : buffer[Place(i)] \in Value
  BY <1>4 DEF TypeOK
<1>6. Contents \in Seq(Value)
  BY <1>3, <1>5, IsASeq DEF Contents
<1>7. Len(Contents) = Count /\ \A i \in 1 .. Count : Contents[i] = buffer[Place(i)]
  BY <1>3 DEF Contents
<1> QED
  BY <1>1, <1>3, <1>4, <1>6, <1>7 DEF RingFacts

LEMMA ContentsTypeAfter == TypeOK' => RingFacts'
  BY ContentsType, PTL

(* Splitting a sequence behind its k-th element.                           *)
LEMMA Split ==
  ASSUME NEW c \in Seq(Value), NEW t \in Seq(Value), NEW d \in Seq(Value),
         NEW k \in 0 .. Len(c), Len(t) = k, Len(d) = Len(c) - k,
         \A i \in 1 .. k : t[i] = c[i],
         \A i \in 1 .. Len(c) - k : d[i] = c[k + i]
  PROVE  t = SubSeq(c, 1, k) /\ d = SubSeq(c, k + 1, Len(c))
<1>1. Len(c) \in Nat /\ \A i \in 1 .. Len(c) : c[i] \in Value
  BY LenProperties, ElementOfSeq
<1>2. /\ SubSeq(c, 1, k) \in Seq(Value)
      /\ Len(SubSeq(c, 1, k)) = k
      /\ \A i \in 1 .. k : SubSeq(c, 1, k)[i] = c[i]
  <2>1. \A i \in 1 .. k : c[i] \in Value
    BY <1>1
  <2>2. /\ SubSeq(c, 1, k) \in Seq(Value)
        /\ Len(SubSeq(c, 1, k)) = IF 1 <= k THEN k - 1 + 1 ELSE 0
        /\ \A i \in 1 .. k - 1 + 1 : SubSeq(c, 1, k)[i] = c[1 + i - 1]
    BY <1>1, <2>1, SubSeqProperties
  <2> QED
    BY <1>1, <2>2
<1>3. t = SubSeq(c, 1, k)
  BY <1>2, SeqEqual
<1>4. /\ SubSeq(c, k + 1, Len(c)) \in Seq(Value)
      /\ Len(SubSeq(c, k + 1, Len(c))) = Len(c) - k
      /\ \A i \in 1 .. Len(c) - k : SubSeq(c, k + 1, Len(c))[i] = c[k + i]
  <2>1. \A i \in k + 1 .. Len(c) : c[i] \in Value
    BY <1>1
  <2>2. /\ SubSeq(c, k + 1, Len(c)) \in Seq(Value)
        /\ Len(SubSeq(c, k + 1, Len(c))) = IF k + 1 <= Len(c) THEN Len(c) - (k + 1) + 1 ELSE 0
        /\ \A i \in 1 .. Len(c) - (k + 1) + 1 : SubSeq(c, k + 1, Len(c))[i] = c[(k + 1) + i - 1]
    BY <1>1, <2>1, SubSeqProperties
  <2> QED
    BY <1>1, <2>2
<1>5. d = SubSeq(c, k + 1, Len(c))
  BY <1>1, <1>4, SeqEqual
<1> QED
  BY <1>3, <1>5

(* pop() that hands out the k oldest elements and moves the tail behind them. *)
Popped(k) ==
  /\ taken' \in Seq(Value)
  /\ Len(taken') = k
  /\ \A i \in 1 .. k : taken'[i] = buffer[Place(i)]
  /\ tail' = IF tail + k < BufferSize THEN tail + k ELSE tail + k - BufferSize
  /\ full' = FALSE
  /\ UNCHANGED <<buffer, head>>

LEMMA PoppedIsTaken ==
  ASSUME TypeOK, NEW k \in 1 .. Count, Popped(k)
  PROVE  TypeOK' /\ (\E n \in 1 .. BufferSize : Fifo!Take(n))
<1>1. /\ BufferSize \in Nat \ {0}
      /\ head \in 0 .. BufferSize - 1 /\ tail \in 0 .. BufferSize - 1
      /\ Count \in 0 .. BufferSize
      /\ Contents \in Seq(Value) /\ Len(Contents) = Count
      /\ \A i \in 1 .. Count : Contents[i] = buffer[Place(i)]
      /\ full => head = tail
  BY ContentsType DEF RingFacts, TypeOK
<1>2. TypeOK'
  <2>1. tail' \in Index
    BY <1>1 DEF Popped, Index
  <2>2. buffer' = buffer /\ head' = head /\ full' = FALSE /\ taken' \in Seq(Value)
    BY DEF Popped
  <2> QED
    BY <2>1, <2>2 DEF TypeOK
<1>3. Count' = Count - k
  BY <1>1 DEF Popped, Count
<1>4. \A i \in 1 .. Count - k : Place(i)' = Place(k + i)
  BY <1>1 DEF Popped, Place, Count
<1>5. /\ Contents' \in Seq(Value) /\ Len(Contents') = Count'
      /\ \A i \in 1 .. Count' : Contents'[i] = buffer'[Place(i)']
  BY <1>2, ContentsTypeAfter DEF RingFacts
<1>6. \A i \in 1 .. Count - k : Contents'[i] = Contents[k + i]
  BY <1>1, <1>3, <1>4, <1>5 DEF Popped
<1>7. /\ taken' = SubSeq(Contents, 1, k)
      /\ Contents' = SubSeq(Contents, k + 1, Len(Contents))
  <2> DEFINE c == Contents
             d == Contents'
             t == taken'
  <2>1. /\ c \in Seq(Value) /\ t \in Seq(Value) /\ d \in Seq(Value)
        /\ k \in 0 .. Len(c) /\ Len(t) = k /\ Len(d) = Len(c) - k
        /\ \A i \in 1 .. k : t[i] = c[i]
        /\ \A i \in 1 .. Len(c) - k : d[i] = c[k + i]
    BY <1>1, <1>3, <1>5, <1>6 DEF Popped
  <2> HIDE DEF c, d, t
  <2>2. t = SubSeq(c, 1, k) /\ d = SubSeq(c, k + 1, Len(c))
    BY <2>1, Split
  <2> QED
    BY <2>2 DEF c, d, t
<1>8. Fifo!Take(k)
  BY <1>1, <1>7 DEF Fifo!Take
<1> QED
  BY <1>1, <1>2, <1>8

(* What std::copy writes.                                                  *)
LEMMA CopyIsSeq ==
  ASSUME TypeOK, NEW i \in Nat, NEW n \in Nat, i + n <= BufferSize
  PROVE  /\ copy(i, n) \in Seq(Value)
         /\ Len(copy(i, n)) = n
         /\ \A j \in 1 .. n : copy(i, n)[j] = buffer[i + j - 1]
<1>1. BufferSize \in Nat \ {0}
  BY BufferSizeAssumption
<1>2. \A j \in 1 .. n : i + j - 1 \in Index
  BY <1>1 DEF Index
<1>3. \A j \in 1 .. n : buffer[i + j - 1] \in Value
  BY <1>2 DEF TypeOK
<1>4. copy(i, n) \in Seq(Value)
  BY <1>3, IsASeq DEF copy
<1> QED
  BY <1>4 DEF copy

LEMMA PopOne ==
  ASSUME TypeOK, pop_one
  PROVE  1 \in 1 .. Count /\ Popped(1)
<1>1. /\ BufferSize \in Nat \ {0}
      /\ tail \in 0 .. BufferSize - 1
      /\ Count \in 0 .. BufferSize /\ Count # 0
      /\ \A i \in 1 .. Count : Place(i) \in Index
  BY ContentsType DEF RingFacts, pop_one
<1>2. Place(1) = tail
  BY <1>1 DEF Place
<1>3. taken' = <<buffer[tail]>> /\ buffer[tail] \in Value
  BY <1>1 DEF pop_one, TypeOK
<1>4. tail' = IF tail + 1 < BufferSize THEN tail + 1 ELSE tail + 1 - BufferSize
  BY <1>1, Increment DEF pop_one, TypeOK
<1> QED
  BY <1>1, <1>2, <1>3, <1>4 DEF pop_one, Popped

LEMMA PopAhead ==
  ASSUME TypeOK, NEW len \in 1 .. MaxPop, pop_ahead(len)
  PROVE  \E k \in 1 .. Count : Popped(k)
<1> DEFINE n == IF tail + len > head THEN head - tail ELSE len
<1>1. /\ BufferSize \in Nat \ {0} /\ len \in Nat \ {0}
      /\ head \in 0 .. BufferSize - 1 /\ tail \in 0 .. BufferSize - 1
      /\ tail < head /\ full = FALSE
  BY ContentsType, MaxPopAssumption DEF RingFacts, pop_ahead, TypeOK
<1>2. n \in 1 .. Count /\ Count = head - tail
  BY <1>1 DEF Count
<1>3. taken' = copy(tail, n) /\ tail' = tail + n /\ UNCHANGED <<buffer, head, full>>
  BY DEF pop_ahead
<1> HIDE DEF n
<1>4. /\ taken' \in Seq(Value) /\ Len(taken') = n
      /\ \A j \in 1 .. n : taken'[j] = buffer[tail + j - 1]
  <2>1. tail \in Nat /\ n \in Nat /\ tail + n <= BufferSize
    BY <1>1, <1>2
  <2> QED
    BY <1>3, <2>1, CopyIsSeq
<1>5. \A j \in 1 .. n : Place(j) = tail + j - 1
  BY <1>1, <1>2 DEF Place
<1>6. Popped(n)
  BY <1>1, <1>2, <1>3, <1>4, <1>5 DEF Popped
<1> QED
  BY <1>2, <1>6

LEMMA PopToEnd ==
  ASSUME TypeOK, NEW len \in 1 .. MaxPop, pop_to_end(len)
  PROVE  \E k \in 1 .. Count : Popped(k)
<1>1. /\ BufferSize \in Nat \ {0} /\ len \in Nat \ {0}
      /\ head \in 0 .. BufferSize - 1 /\ tail \in 0 .. BufferSize - 1
      /\ head <= tail /\ tail + len <= BufferSize
  BY ContentsType, MaxPopAssumption DEF RingFacts, pop_to_end
<1>2. len \in 1 .. Count
  BY <1>1 DEF Count, empty, pop_to_end
<1>3. taken' = copy(tail, len) /\ full' = FALSE /\ UNCHANGED <<buffer, head>>
  BY DEF pop_to_end
<1>4. tail' = IF tail + len < BufferSize THEN tail + len ELSE tail + len - BufferSize
  <2>1. tail' = (tail + len) % BufferSize
    BY DEF pop_to_end
  <2> DEFINE i == tail + len
  <2>2. i \in Nat /\ i <= BufferSize
    BY <1>1
  <2> HIDE DEF i
  <2>3. i % BufferSize = IF i = BufferSize THEN 0 ELSE i
    BY <2>2, AtTheEnd
  <2> QED
    BY <1>1, <2>1, <2>2, <2>3 DEF i
<1>5. /\ taken' \in Seq(Value) /\ Len(taken') = len
      /\ \A j \in 1 .. len : taken'[j] = buffer[tail + j - 1]
  BY <1>1, <1>2, <1>3, CopyIsSeq
<1>6. \A j \in 1 .. len : Place(j) = tail + j - 1
  BY <1>1, <1>2 DEF Place
<1>7. Popped(len)
  BY <1>1, <1>2, <1>3, <1>4, <1>5, <1>6 DEF Popped
<1> QED
  BY <1>2, <1>7

LEMMA PopAround ==
  ASSUME TypeOK, NEW len \in 1 .. MaxPop, pop_around(len)
  PROVE  \E k \in 1 .. Count : Popped(k)
<1> DEFINE m == BufferSize - tail
           rest == len - (BufferSize - tail)
           n == IF rest > head THEN head ELSE rest
           k == m + n
<1>1. /\ BufferSize \in Nat \ {0} /\ len \in Nat \ {0}
      /\ head \in 0 .. BufferSize - 1 /\ tail \in 0 .. BufferSize - 1
      /\ head <= tail /\ tail + len > BufferSize
  BY ContentsType, MaxPopAssumption DEF RingFacts, pop_around
<1>2. /\ m \in 1 .. BufferSize /\ n \in 0 .. head
      /\ k \in 1 .. Count
      /\ tail + m = BufferSize
  BY <1>1 DEF Count, empty, pop_around
<1>3. /\ taken' = copy(tail, m) \o copy(0, n) /\ tail' = n
      /\ full' = FALSE /\ UNCHANGED <<buffer, head>>
  BY DEF pop_around
<1> HIDE DEF m, n
<1>4. /\ copy(tail, m) \in Seq(Value) /\ Len(copy(tail, m)) = m
      /\ \A j \in 1 .. m : copy(tail, m)[j] = buffer[tail + j - 1]
  BY <1>1, <1>2, CopyIsSeq
<1>5. /\ copy(0, n) \in Seq(Value) /\ Len(copy(0, n)) = n
      /\ \A j \in 1 .. n : copy(0, n)[j] = buffer[0 + j - 1]
  <2>1. 0 \in Nat /\ n \in Nat /\ 0 + n <= BufferSize
    BY <1>1, <1>2
  <2> QED
    BY <2>1, CopyIsSeq
<1>6. /\ taken' \in Seq(Value) /\ Len(taken') = k
      /\ \A j \in 1 .. k : taken'[j] = IF j <= m THEN buffer[tail + j - 1] ELSE buffer[j - m - 1]
  <2> DEFINE s == copy(tail, m)
             t == copy(0, n)
  <2>1. /\ s \in Seq(Value) /\ t \in Seq(Value) /\ Len(s) = m /\ Len(t) = n
    BY <1>4, <1>5
  <2> HIDE DEF s, t
  <2>2. /\ s \o t \in Seq(Value) /\ Len(s \o t) = m + n
        /\ \A j \in 1 .. m + n : (s \o t)[j] = IF j <= m THEN s[j] ELSE t[j - m]
    BY <2>1, ConcatProperties
  <2>3. ASSUME NEW j \in 1 .. m + n
        PROVE  (s \o t)[j] = IF j <= m THEN buffer[tail + j - 1] ELSE buffer[j - m - 1]
    <3>1. CASE j <= m
      BY <1>2, <1>4, <2>2, <3>1 DEF s
    <3>2. CASE ~(j <= m)
      <4>1. j - m \in 1 .. n /\ 0 + (j - m) - 1 = j - m - 1
        BY <1>1, <1>2, <3>2
      <4>2. t[j - m] = buffer[j - m - 1]
        BY <1>5, <4>1 DEF t
      <4> QED
        BY <2>2, <3>2, <4>2
    <3> QED
      BY <3>1, <3>2
  <2>4. taken' = s \o t
    BY <1>3 DEF s, t
  <2> QED
    BY <2>2, <2>3, <2>4
<1>7. \A j \in 1 .. k : Place(j) = IF j <= m THEN tail + j - 1 ELSE j - m - 1
  BY <1>1, <1>2 DEF Place
<1>8. tail' = IF tail + k < BufferSize THEN tail + k ELSE tail + k - BufferSize
  BY <1>1, <1>2, <1>3
<1>9. Popped(k)
  BY <1>1, <1>2, <1>3, <1>6, <1>7, <1>8 DEF Popped
<1> QED
  BY <1>2, <1>9

LEMMA PushIsPut ==
  ASSUME TypeOK, NEW v \in Value, push(v)
  PROVE  TypeOK' /\ Fifo!Put(v)
<1>1. /\ BufferSize \in Nat \ {0}
      /\ head \in 0 .. BufferSize - 1 /\ tail \in 0 .. BufferSize - 1
      /\ Count \in 0 .. BufferSize
      /\ \A i \in 1 .. Count : Place(i) \in Index
      /\ Contents \in Seq(Value) /\ Len(Contents) = Count
      /\ \A i \in 1 .. Count : Contents[i] = buffer[Place(i)]
      /\ full = FALSE
  BY ContentsType DEF RingFacts, TypeOK, push
<1>2. /\ head' = IF head + 1 = BufferSize THEN 0 ELSE head + 1
      /\ full' = (head' = tail)
      /\ buffer' = [buffer EXCEPT ![head] = v]
      /\ tail' = tail /\ taken' = <<>>
  BY Increment DEF push, TypeOK
<1>3. TypeOK'
  BY <1>1, <1>2 DEF TypeOK, Index
<1>4. Count < BufferSize /\ Count' = Count + 1
  <2>1. Count = IF tail <= head THEN head - tail ELSE head - tail + BufferSize
    BY <1>1 DEF Count
  <2>2. Count' = IF head' = tail THEN BufferSize
                 ELSE IF tail <= head' THEN head' - tail
                 ELSE head' - tail + BufferSize
    BY <1>2 DEF Count
  <2> QED
    BY <1>1, <1>2, <2>1, <2>2
<1>5. /\ \A i \in 1 .. Count : Place(i) # head /\ Place(i)' = Place(i)
      /\ \A i \in {Count + 1} : Place(i)' = head
  <2>1. Count = IF tail <= head THEN head - tail ELSE head - tail + BufferSize
    BY <1>1 DEF Count
  <2>2. \A i \in 1 .. Count + 1 :
          /\ Place(i) = IF tail + i <= BufferSize THEN tail + i - 1 ELSE tail + i - 1 - BufferSize
          /\ Place(i)' = Place(i)
    BY <1>2 DEF Place
  <2>3. ASSUME NEW i \in 1 .. Count
        PROVE  Place(i) # head
    <3>1. i \in Nat /\ 1 <= i /\ i <= Count /\ i \in 1 .. Count + 1
      BY <1>1
    <3>2. Place(i) = IF tail + i <= BufferSize THEN tail + i - 1 ELSE tail + i - 1 - BufferSize
      BY <2>2, <3>1
    <3>3. i <= IF tail <= head THEN head - tail ELSE head - tail + BufferSize
      BY <2>1, <3>1
    <3>4. CASE tail <= head
      BY <1>1, <3>1, <3>2, <3>3, <3>4
    <3>5. CASE ~(tail <= head)
      BY <1>1, <3>1, <3>2, <3>3, <3>5
    <3> QED
      BY <3>4, <3>5
  <2>4. ASSUME NEW i, i = Count + 1
        PROVE  Place(i)' = head
    <3>1. Place(i) = head
      BY <1>1, <1>4, <2>1, <2>2, <2>4
    <3> QED
      BY <1>1, <2>2, <2>4, <3>1
  <2> QED
    BY <1>1, <2>2, <2>3, <2>4, SMTT(60)
<1>6. /\ Contents' \in Seq(Value) /\ Len(Contents') = Count'
      /\ \A i \in 1 .. Count' : Contents'[i] = buffer'[Place(i)']
  BY <1>3, ContentsTypeAfter DEF RingFacts
<1>7. /\ \A i \in 1 .. Count : Contents'[i] = Contents[i]
      /\ Contents'[Count + 1] = v
  <2>1. ASSUME NEW i \in 1 .. Count
        PROVE  Contents'[i] = Contents[i]
    <3>1. Contents'[i] = buffer'[Place(i)]
      BY <1>1, <1>4, <1>5, <1>6
    <3>2. Place(i) # head /\ Place(i) \in Index
      BY <1>1, <1>5
    <3>3. buffer'[Place(i)] = buffer[Place(i)]
      BY <1>2, <3>2 DEF TypeOK
    <3> QED
      BY <1>1, <3>1, <3>3
  <2>2. ASSUME NEW i, i = Count + 1
        PROVE  Contents'[i] = v
    <3>1. Contents'[i] = buffer'[head]
      BY <1>1, <1>4, <1>5, <1>6, <2>2
    <3> QED
      BY <1>2, <3>1 DEF TypeOK
  <2> QED
    BY <2>1, <2>2
<1>8. Contents' = Append(Contents, v)
  <2> DEFINE c == Contents
             d == Contents'
  <2>1. /\ c \in Seq(Value) /\ d \in Seq(Value) /\ Len(d) = Len(c) + 1 /\ Len(c) \in Nat
        /\ \A i \in 1 .. Len(c) : d[i] = c[i]
        /\ d[Len(c) + 1] = v
    BY <1>1, <1>4, <1>6, <1>7
  <2> HIDE DEF c, d
  <2>2. /\ Append(c, v) \in Seq(Value) /\ Len(Append(c, v)) = Len(c) + 1
        /\ \A i \in 1 .. Len(c) : Append(c, v)[i] = c[i]
        /\ Append(c, v)[Len(c) + 1] = v
    BY <2>1, AppendProperties
  <2>3. \A i \in 1 .. Len(d) : d[i] = Append(c, v)[i]
    BY <2>1, <2>2
  <2>4. d = Append(c, v)
    BY <2>1, <2>2, <2>3, SeqEqual
  <2> QED
    BY <2>4 DEF c, d
<1> QED
  BY <1>1, <1>2, <1>3, <1>4, <1>8 DEF Fifo!Put

(* A ring whose indices meet and that is not full holds nothing.           *)
LEMMA NothingLeft == TypeOK /\ empty => Contents = <<>>
<1> SUFFICES ASSUME TypeOK, empty PROVE Contents = <<>>
  OBVIOUS
<1>1. Contents \in Seq(Value) /\ Len(Contents) = 0
  BY ContentsType DEF RingFacts
<1> QED
  BY <1>1, EmptySeq

LEMMA NothingLeftAfter == TypeOK' /\ empty' => (Contents = <<>>)'
  BY NothingLeft, PTL

LEMMA InitIsEmpty == Init => TypeOK /\ Fifo!Init
<1> SUFFICES ASSUME Init PROVE TypeOK /\ Fifo!Init
  OBVIOUS
<1>1. 0 \in Index
  BY BufferSizeAssumption DEF Index
<1>2. TypeOK /\ empty
  BY <1>1, EmptySeq DEF Init, TypeOK, empty
<1> QED
  BY <1>2, NothingLeft DEF Init, Fifo!Init

LEMMA ResetIsClear ==
  ASSUME TypeOK, reset
  PROVE  TypeOK' /\ Fifo!Clear
<1>1. 0 \in Index
  BY BufferSizeAssumption DEF Index
<1>2. TypeOK' /\ empty'
  BY <1>1, EmptySeq DEF reset, TypeOK, empty
<1>3. Contents' = <<>>
  BY <1>2, NothingLeftAfter
<1> QED
  BY <1>2, <1>3 DEF reset, Fifo!Clear

(* Every member function does to the contents what BoundedFifo says: push()
   puts, pop() of len elements takes as many of the oldest as it hands out. *)
LEMMA RingStep == TypeOK /\ [Next]_vars => TypeOK' /\ [Fifo!Next]_(Fifo!vars)
<1> SUFFICES ASSUME TypeOK, [Next]_vars
             PROVE  TypeOK' /\ [Fifo!Next]_(Fifo!vars)
  OBVIOUS
<1>1. ASSUME NEW v \in Value, push(v)
      PROVE  TypeOK' /\ Fifo!Next
  BY <1>1, PushIsPut DEF Fifo!Next
<1>2. ASSUME NEW k \in 1 .. Count, Popped(k)
      PROVE  TypeOK' /\ Fifo!Next
  BY <1>2, PoppedIsTaken DEF Fifo!Next
<1>3. CASE pop_one
  BY <1>2, <1>3, PopOne
<1>4. ASSUME NEW len \in 1 .. MaxPop, pop_ahead(len) \/ pop_to_end(len) \/ pop_around(len)
      PROVE  TypeOK' /\ Fifo!Next
  BY <1>2, <1>4, PopAhead, PopToEnd, PopAround
<1>5. CASE reset
  BY <1>5, ResetIsClear DEF Fifo!Next
<1>6. CASE UNCHANGED vars
  <2>1. TypeOK'
    BY <1>6 DEF vars, TypeOK
  <2>2. Contents' = Contents
    BY <1>6 DEF vars, Contents, Count, Place
  <2> QED
    BY <1>6, <2>1, <2>2 DEF vars, Fifo!vars
<1> QED
  BY <1>1, <1>3, <1>4, <1>5, <1>6 DEF Next

(* Both indices stay inside the buffer, the ring is full only when they meet
   and what pop() hands out are elements (push(), pop(), reset()).         *)
THEOREM TypeCorrect == Spec => []TypeOK
<1>1. Init => TypeOK
  BY InitIsEmpty
<1>2. TypeOK /\ [Next]_vars => TypeOK'
  BY RingStep
<1> QED
  BY <1>1, <1>2, PTL DEF Spec

(* Across the wrap of both indices, a full buffer and requests for more than
   there is, the ring hands out its elements in the order they were pushed, none
   lost and none twice (push(), pop(), reset()).                           *)
THEOREM RingImplementsFifo == Spec => ImplementsFifo
<1>1. Init => Fifo!Init
  BY InitIsEmpty
<1>2. TypeOK /\ [Next]_vars => [Fifo!Next]_(Fifo!vars)
  BY RingStep
<1> QED
  BY <1>1, <1>2, TypeCorrect, PTL DEF Spec, ImplementsFifo, Fifo!Spec
=============================================================================
