--------------------------- MODULE SerialRxProofs ---------------------------
(***************************************************************************)
(* The safety properties of SerialRx, for every length of the buffer, the  *)
(* chunk, the event queue and the bursts of bytes.                         *)
(***************************************************************************)
EXTENDS SerialRx, SequenceTheorems, TLAPS

(* n bytes numbered from a byte on are a sequence of n bytes.              *)
LEMMA NumberedType ==
  ASSUME NEW f \in Int, NEW n \in Nat
  PROVE  /\ Numbered(f, n) \in Seq(Byte)
         /\ Len(Numbered(f, n)) = n
  BY WrapAssumption DEF Numbered, Byte

(* The chunk is a part of the buffer.                                      *)
LEMMA ChunkType ==
  ASSUME BytesOK
  PROVE  /\ Chunk \in 0 .. Len(rxBuffer)
         /\ rxBuffer # <<>> => Chunk # 0
         /\ SubSeq(rxBuffer, 1, Chunk) \in Seq(Byte)
         /\ SubSeq(rxBuffer, Chunk + 1, Len(rxBuffer)) \in Seq(Byte)
         /\ Len(SubSeq(rxBuffer, Chunk + 1, Len(rxBuffer))) <= BufferLength
<1>1. Chunk \in 0 .. Len(rxBuffer) /\ (rxBuffer # <<>> => Chunk # 0)
  <2>1. rxBuffer # <<>> => Len(rxBuffer) > 0
    BY DEF BytesOK
  <2> QED
    BY <2>1, ChunkAssumption DEF Chunk, BytesOK
<1>2. /\ SubSeq(rxBuffer, 1, Chunk) \in Seq(Byte)
      /\ SubSeq(rxBuffer, Chunk + 1, Len(rxBuffer)) \in Seq(Byte)
  BY <1>1 DEF BytesOK
<1>3. Len(SubSeq(rxBuffer, Chunk + 1, Len(rxBuffer))) <= BufferLength
  BY <1>1, BufferAssumption DEF BytesOK
<1> QED
  BY <1>1, <1>2, <1>3

(* An interrupt that does not overflow the buffer appends its bytes.       *)
LEMMA AppendType ==
  ASSUME BytesOK, NEW n \in Nat
  PROVE  /\ rxBuffer \o Numbered(received, n) \in Seq(Byte)
         /\ Len(rxBuffer \o Numbered(received, n)) = Len(rxBuffer) + n
         /\ (received + n) % Wrap \in Byte
<1>1. received \in Int
  BY DEF BytesOK, Byte
<1>2. /\ Numbered(received, n) \in Seq(Byte)
      /\ Len(Numbered(received, n)) = n
  BY <1>1, NumberedType
<1>3. (received + n) % Wrap \in Byte
  BY <1>1, WrapAssumption DEF Byte
<1> QED
  BY <1>2, <1>3 DEF BytesOK

(* The sequences and numbers of the receive path keep their types, the buffer its
   capacity.                                                               *)
LEMMA BytesNext == BytesOK /\ [Next]_vars => BytesOK'
<1> SUFFICES ASSUME BytesOK, [Next]_vars
             PROVE  BytesOK'
  OBVIOUS
<1>1. ASSUME NEW n \in 1 .. Burst, whenRxInterrupt(n)
      PROVE  BytesOK'
  <2>0. n \in Nat
    BY BurstAssumption
  <2>1. UNCHANGED <<data, fed>>
    BY <1>1 DEF whenRxInterrupt, consumer
  <2>2. CASE UNCHANGED <<rxBuffer, received>>
    BY <2>1, <2>2 DEF BytesOK
  <2>3. CASE /\ Len(rxBuffer) + n <= BufferLength
             /\ rxBuffer' = rxBuffer \o Numbered(received, n)
             /\ received' = (received + n) % Wrap
    BY <2>0, <2>1, <2>3, AppendType DEF BytesOK
  <2> QED
    BY <1>1, <2>2, <2>3 DEF whenRxInterrupt
<1>2. CASE PopChunk
  BY <1>2, ChunkType DEF PopChunk, consumer, BytesOK
<1>3. CASE FeedChunk
  <2>1. (fed + Available) % Wrap \in Byte
    BY WrapAssumption DEF BytesOK, Available, Byte
  <2> QED
    BY <1>3, <2>1 DEF FeedChunk, BytesOK
<1>4. CASE UNCHANGED <<rxBuffer, data, received, fed>>
  BY <1>4 DEF BytesOK
<1> QED
  BY <1>1, <1>2, <1>3, <1>4
     DEF Next, PostOther, FinishOther, StartConsumer, mbed_die, vars, queue, consumer

(* The event queue keeps its capacity.                                     *)
LEMMA QueueNext == QueueOK /\ [Next]_vars => QueueOK'
<1> USE QueueAssumption
<1> SUFFICES ASSUME QueueOK, [Next]_vars
             PROVE  QueueOK'
  OBVIOUS
<1>1. ASSUME NEW n \in 1 .. Burst, whenRxInterrupt(n)
      PROVE  QueueOK'
  <2>1. /\ others' = others
        /\ \/ consumers' = consumers
           \/ consumers + others < QueueCapacity /\ consumers' = consumers + 1
    BY <1>1 DEF whenRxInterrupt, PostConsumer
  <2> QED
    BY <2>1 DEF QueueOK
<1>2. CASE PostOther
  BY <1>2 DEF PostOther, QueueOK
<1>3. CASE FinishOther
  BY <1>3 DEF FinishOther, QueueOK
<1>4. CASE StartConsumer
  BY <1>4 DEF StartConsumer, QueueOK
<1>5. CASE UNCHANGED queue
  BY <1>5 DEF queue, QueueOK
<1> QED
  BY <1>1, <1>2, <1>3, <1>4, <1>5 DEF Next, PopChunk, FeedChunk, mbed_die, vars

LEMMA FlagsNext == FlagsOK /\ [Next]_vars => FlagsOK'
<1> SUFFICES ASSUME FlagsOK, [Next]_vars
             PROVE  FlagsOK'
  OBVIOUS
<1>1. ASSUME NEW n \in 1 .. Burst, whenRxInterrupt(n)
      PROVE  FlagsOK'
  BY <1>1 DEF whenRxInterrupt, PostConsumer, consumer, FlagsOK
<1>2. CASE StartConsumer
  BY <1>2 DEF StartConsumer, FlagsOK
<1>3. CASE PopChunk
  BY <1>3 DEF PopChunk, consumer, FlagsOK
<1>4. CASE FeedChunk
  BY <1>4 DEF FeedChunk, FlagsOK
<1>5. CASE UNCHANGED <<main, shouldExit, died, deaf>>
  BY <1>5 DEF FlagsOK
<1> QED
  BY <1>1, <1>2, <1>3, <1>4, <1>5 DEF Next, PostOther, FinishOther, mbed_die, vars, consumer

(* The sequences, counters and flags of the receive path keep their types, the
   buffer and the event queue their capacity.                              *)
THEOREM TypeCorrect == Spec => []TypeOK
<1>1. Init => TypeOK
  <2>1. Init => BytesOK
    BY BufferAssumption, WrapAssumption DEF Init, BytesOK, Byte
  <2>2. Init => QueueOK
    BY QueueAssumption DEF Init, QueueOK
  <2>3. Init => FlagsOK
    BY DEF Init, FlagsOK
  <2> QED
    BY <2>1, <2>2, <2>3 DEF TypeOK
<1>2. TypeOK /\ [Next]_vars => TypeOK'
  BY BytesNext, QueueNext, FlagsNext DEF TypeOK
<1> QED
  BY <1>1, <1>2, PTL DEF Spec

-----------------------------------------------------------------------------
(* ConsumerMatchesBytes, without the sum: a consumer is posted, or one is looping,
   and never both.                                                         *)
OneTurn ==
  IF rxBuffer = <<>> \/ deaf
  THEN consumers = 0 /\ ~Looping
  ELSE \/ consumers = 0 /\ Looping
       \/ consumers = 1 /\ ~Looping

LEMMA TurnMatchesBytes ==
  ASSUME consumers \in Nat
  PROVE  OneTurn <=> ConsumerMatchesBytes
<1>1. CASE Looping
  BY <1>1 DEF OneTurn, ConsumerMatchesBytes, Popping
<1>2. CASE ~Looping
  BY <1>2 DEF OneTurn, ConsumerMatchesBytes, Popping
<1> QED
  BY <1>1, <1>2

(* After a refused post the buffer keeps its bytes: nobody pops them.      *)
DeafKeepsBytes == deaf => rxBuffer # <<>>

(* The inductive invariant: OneTurn says that a consumer that is about to pop finds
   bytes, and DeafKeepsBytes that no interrupt posts a consumer once one was
   refused.                                                                *)
ConsumerInv == OneTurn /\ DeafKeepsBytes /\ SanityCheck

LEMMA ConsumerInvInit == Init => ConsumerInv
  BY DEF Init, ConsumerInv, OneTurn, DeafKeepsBytes, SanityCheck, Looping

(* An interrupt that finds bytes leaves bytes.                             *)
LEMMA AppendNonEmpty ==
  ASSUME BytesOK, NEW n \in 1 .. Burst
  PROVE  rxBuffer \o Numbered(received, n) # <<>>
<1>1. n \in Nat \ {0} /\ Len(rxBuffer) \in Nat
  BY BurstAssumption DEF BytesOK
<1>2. Len(rxBuffer \o Numbered(received, n)) = Len(rxBuffer) + n
  BY <1>1, AppendType
<1>3. Len(rxBuffer \o Numbered(received, n)) # 0
  BY <1>1, <1>2
<1> QED
  BY <1>3

(* The first consumer is posted or refused.                                *)
LEMMA PostFirst ==
  ASSUME consumers = 0, PostConsumer
  PROVE  \/ consumers' = 1 /\ (deaf' <=> deaf)
         \/ consumers' = 0 /\ deaf'
<1>1. 0 + 1 = 1
  OBVIOUS
<1> QED
  BY <1>1 DEF PostConsumer

LEMMA ConsumerInvNext == TypeOK /\ ConsumerInv /\ [Next]_vars => ConsumerInv'
<1> SUFFICES ASSUME BytesOK, ConsumerInv, [Next]_vars
             PROVE  ConsumerInv'
  BY DEF TypeOK
<1> USE DEF ConsumerInv, OneTurn, DeafKeepsBytes, SanityCheck
<1>1. ASSUME NEW n \in 1 .. Burst, whenRxInterrupt(n)
      PROVE  ConsumerInv'
  <2>0. Looping' <=> Looping
    BY <1>1 DEF whenRxInterrupt, consumer, Looping
  <2>1. CASE UNCHANGED <<rxBuffer, consumers, deaf>> /\ died' = "serial buffer is full"
    BY <2>0, <2>1
  <2>2. CASE /\ rxBuffer' = rxBuffer \o Numbered(received, n)
             /\ IF startConsumer THEN PostConsumer ELSE UNCHANGED <<consumers, deaf>>
             /\ UNCHANGED died
    <3>1. rxBuffer' # <<>>
      BY <2>2, AppendNonEmpty
    <3>2. CASE rxBuffer = <<>>
      <4>1. consumers = 0 /\ ~deaf /\ ~Looping
        BY <3>2
      <4>2. \/ consumers' = 1 /\ (deaf' <=> deaf)
            \/ consumers' = 0 /\ deaf'
        BY <2>2, <3>2, <4>1, PostFirst DEF startConsumer
      <4> QED
        BY <2>0, <2>2, <3>1, <4>1, <4>2
    <3>3. CASE rxBuffer # <<>>
      BY <2>0, <2>2, <3>1, <3>3 DEF startConsumer
    <3> QED
      BY <3>2, <3>3
  <2> QED
    BY <1>1, <2>1, <2>2 DEF whenRxInterrupt
<1> USE DEF Looping
<1>2. CASE PostOther
  BY <1>2 DEF PostOther, consumer
<1>3. CASE FinishOther
  BY <1>3 DEF FinishOther, consumer
<1>4. CASE StartConsumer
  BY <1>4 DEF StartConsumer
<1>5. CASE PopChunk
  <2>1. rxBuffer # <<>> /\ ~deaf /\ consumers = 0
    BY <1>5 DEF PopChunk
  <2>2. Chunk # 0
    BY <2>1, ChunkType
  <2> QED
    BY <1>5, <2>1, <2>2 DEF PopChunk, queue
<1>6. CASE FeedChunk
  BY <1>6 DEF FeedChunk, loops, queue
<1>7. CASE mbed_die
  BY <1>7 DEF mbed_die, vars, queue, consumer
<1>8. CASE UNCHANGED vars
  BY <1>8 DEF vars, queue, consumer
<1> QED
  BY <1>1, <1>2, <1>3, <1>4, <1>5, <1>6, <1>7, <1>8 DEF Next

LEMMA ConsumerInvariant == Spec => []ConsumerInv
  BY ConsumerInvInit, ConsumerInvNext, TypeCorrect, PTL DEF Spec

(* consumeSerialBytes() never finds the buffer empty.                      *)
THEOREM ConsumerFindsBytes == Spec => []SanityCheck
<1>1. ConsumerInv => SanityCheck
  BY DEF ConsumerInv
<1> QED
  BY <1>1, ConsumerInvariant, PTL

(* There is exactly one consumer while there are bytes, and none otherwise. *)
THEOREM OneConsumer == Spec => []ConsumerMatchesBytes
<1>1. TypeOK /\ ConsumerInv => ConsumerMatchesBytes
  BY TurnMatchesBytes DEF ConsumerInv, TypeOK, QueueOK
<1> QED
  BY <1>1, ConsumerInvariant, TypeCorrect, PTL

-----------------------------------------------------------------------------
(* StreamIntact: the command line gets every byte once and in order, whatever
   the numbers of the bytes wrap at.                                       *)

(* Division with remainder.                                                *)
LEMMA Remainder ==
  ASSUME NEW w \in Nat \ {0}, NEW a \in Int
  PROVE  a % w \in 0 .. w - 1 /\ a \div w \in Int
  OBVIOUS

LEMMA Division ==
  ASSUME NEW w \in Nat \ {0}, NEW a \in Int
  PROVE  a = w * (a \div w) + (a % w)
  OBVIOUS

LEMMA RemainderUnique ==
  ASSUME NEW w \in Nat \ {0}, NEW q \in Int, NEW r \in 0 .. w - 1
  PROVE  (w * q + r) % w = r
  OBVIOUS

LEMMA Distribute ==
  ASSUME NEW w \in Int, NEW q \in Int, NEW m \in Int, NEW r \in Int
  PROVE  w * m + (w * q + r) = w * (m + q) + r
  OBVIOUS

LEMMA AddMultiple ==
  ASSUME NEW w \in Nat \ {0}, NEW m \in Int, NEW p \in Int
  PROVE  (w * m + p) % w = p % w
<1> DEFINE q == p \div w
           r == p % w
<1>1. q \in Int /\ r \in 0 .. w - 1 /\ p = w * q + r
  BY Remainder, Division
<1> HIDE DEF q, r
<1>2. w * m + p = w * (m + q) + r
  <2>1. w \in Int /\ r \in Int
    BY <1>1
  <2> QED
    BY <1>1, <2>1, Distribute
<1>3. (w * m + p) % w = r
  BY <1>1, <1>2, RemainderUnique
<1> QED
  BY <1>3 DEF r

LEMMA Regroup ==
  ASSUME NEW x \in Int, NEW y \in Int, NEW k \in Int
  PROVE  (x + y) + k = x + (y + k)
  OBVIOUS

(* A number can be reduced modulo w before another is added.               *)
LEMMA AddRemainder ==
  ASSUME NEW w \in Nat \ {0}, NEW a \in Int, NEW k \in Int
  PROVE  ((a % w) + k) % w = (a + k) % w
<1> DEFINE d == a \div w
           y == a % w
<1>1. d \in Int /\ y \in Int /\ w * d \in Int /\ a = w * d + y
  BY Remainder, Division
<1> HIDE DEF d, y
<1>2. y + k \in Int
  BY <1>1
<1>3. (w * d + (y + k)) % w = (y + k) % w
  BY <1>1, <1>2, AddMultiple
<1>4. a + k = w * d + (y + k)
  BY <1>1, Regroup
<1>5. (a + k) % w = (y + k) % w
  BY <1>3, <1>4
<1> QED
  BY <1>5 DEF y

-----------------------------------------------------------------------------
LEMMA ByteIsItsRemainder ==
  ASSUME NEW b \in Byte
  PROVE  b % Wrap = b
  BY WrapAssumption DEF Byte

LEMMA Reduce ==
  ASSUME NEW a \in Int, NEW k \in Int
  PROVE  /\ a % Wrap \in Byte
         /\ a % Wrap \in Int
         /\ ((a % Wrap) + k) % Wrap = (a + k) % Wrap
<1>1. a % Wrap \in 0 .. Wrap - 1
  BY Remainder, WrapAssumption
<1>2. ((a % Wrap) + k) % Wrap = (a + k) % Wrap
  BY AddRemainder, WrapAssumption
<1> QED
  BY <1>1, <1>2, WrapAssumption DEF Byte

(* The ith number of a run.                                                *)
LEMMA NumberedAt ==
  ASSUME NEW f \in Int, NEW n \in Nat, NEW i \in 1 .. n
  PROVE  Numbered(f, n)[i] = (f + (i - 1)) % Wrap
  BY DEF Numbered

(* Two runs of numbers, the second from where the first ends, are one run. *)
LEMMA NumberedAppend ==
  ASSUME NEW f \in Int, NEW n \in Nat, NEW k \in Nat
  PROVE  Numbered(f, n) \o Numbered((f + n) % Wrap, k) = Numbered(f, n + k)
<1> DEFINE g == (f + n) % Wrap
           first == Numbered(f, n)
           second == Numbered(g, k)
           both == Numbered(f, n + k)
<1>1. g \in Int /\ f + n \in Int /\ n + k \in Nat
  BY WrapAssumption, Remainder
<1>2. \A j \in Int : (g + j) % Wrap = ((f + n) + j) % Wrap
  BY <1>1, AddRemainder, WrapAssumption
<1> HIDE DEF g
<1>3. /\ first \in Seq(Byte) /\ Len(first) = n
      /\ second \in Seq(Byte) /\ Len(second) = k
      /\ both \in Seq(Byte) /\ Len(both) = n + k
  BY <1>1, NumberedType
<1>4. ASSUME NEW i \in 1 .. n
      PROVE  first[i] = both[i]
  BY <1>1, NumberedAt
<1>5. ASSUME NEW i \in n + 1 .. n + k
      PROVE  second[i - n] = both[i]
  <2>1. i - n \in 1 .. k /\ i \in 1 .. n + k
    OBVIOUS
  <2>2. second[i - n] = (g + ((i - n) - 1)) % Wrap
    BY <1>1, <2>1, NumberedAt
  <2>3. both[i] = (f + (i - 1)) % Wrap
    BY <1>1, <2>1, NumberedAt
  <2>4. (f + n) + ((i - n) - 1) = f + (i - 1) /\ (i - n) - 1 \in Int
    OBVIOUS
  <2> QED
    BY <1>2, <2>2, <2>3, <2>4
<1> HIDE DEF first, second, both
<1>6. /\ first \o second \in Seq(Byte)
      /\ Len(first \o second) = n + k
      /\ \A i \in 1 .. n + k : (first \o second)[i] = both[i]
  <2>1. /\ first \o second \in Seq(Byte)
        /\ Len(first \o second) = n + k
        /\ \A i \in 1 .. n + k :
             (first \o second)[i] = IF i <= n THEN first[i] ELSE second[i - n]
    BY <1>3, ConcatProperties
  <2>2. ASSUME NEW i \in 1 .. n + k
        PROVE  (first \o second)[i] = both[i]
    <3>1. CASE i <= n
      BY <1>4, <2>1, <3>1
    <3>2. CASE ~(i <= n)
      <4>1. i \in n + 1 .. n + k
        BY <3>2
      <4> QED
        BY <1>5, <2>1, <3>2, <4>1
    <3> QED
      BY <3>1, <3>2
  <2> QED
    BY <2>1, <2>2
<1>7. first \o second = both
  BY <1>3, <1>6, SeqEqual
<1> QED
  BY <1>7 DEF first, second, both, g

(* A run that is cut after its first c numbers gives two runs.             *)
LEMMA NumberedSplit ==
  ASSUME NEW f \in Int, NEW n \in Nat, NEW c \in 0 .. n
  PROVE  /\ SubSeq(Numbered(f, n), 1, c) = Numbered(f, c)
         /\ SubSeq(Numbered(f, n), c + 1, n) = Numbered((f + c) % Wrap, n - c)
<1> DEFINE g == (f + c) % Wrap
           whole == Numbered(f, n)
           first == SubSeq(whole, 1, c)
           rest == SubSeq(whole, c + 1, n)
<1>1. g \in Int /\ f + c \in Int /\ c \in Nat /\ n - c \in Nat
  BY WrapAssumption, Remainder
<1>2. \A j \in Int : (g + j) % Wrap = ((f + c) + j) % Wrap
  BY <1>1, AddRemainder, WrapAssumption
<1>3. /\ Numbered(f, c) \in Seq(Byte) /\ Len(Numbered(f, c)) = c
      /\ Numbered(g, n - c) \in Seq(Byte) /\ Len(Numbered(g, n - c)) = n - c
      /\ whole \in Seq(Byte) /\ Len(whole) = n
  BY <1>1, NumberedType
<1>4. /\ \A i \in 1 .. n : whole[i] = (f + (i - 1)) % Wrap
      /\ \A i \in 1 .. c : Numbered(f, c)[i] = (f + (i - 1)) % Wrap
      /\ \A i \in 1 .. n - c : Numbered(g, n - c)[i] = (g + (i - 1)) % Wrap
  BY <1>1, NumberedAt
<1> HIDE DEF g, whole
<1>5. /\ first \in Seq(Byte) /\ Len(first) = c
      /\ \A i \in 1 .. c : first[i] = whole[i]
  BY <1>1, <1>3
<1>6. /\ rest \in Seq(Byte) /\ Len(rest) = n - c
      /\ \A i \in 1 .. n - c : rest[i] = whole[c + i]
  BY <1>1, <1>3
<1> HIDE DEF first, rest
<1>7. first = Numbered(f, c)
  <2>1. \A i \in 1 .. c : first[i] = Numbered(f, c)[i]
    BY <1>4, <1>5
  <2> QED
    BY <1>3, <1>5, <2>1, SeqEqual
<1>8. rest = Numbered(g, n - c)
  <2>1. ASSUME NEW i \in 1 .. n - c
        PROVE  rest[i] = Numbered(g, n - c)[i]
    <3>1. c + i \in 1 .. n /\ i - 1 \in Int /\ f + ((c + i) - 1) = (f + c) + (i - 1)
      OBVIOUS
    <3>2. rest[i] = (f + ((c + i) - 1)) % Wrap
      BY <1>4, <1>6, <3>1
    <3> QED
      BY <1>2, <1>4, <3>1, <3>2
  <2> QED
    BY <1>3, <1>6, <2>1, SeqEqual
<1> QED
  BY <1>7, <1>8 DEF first, rest, whole, g

-----------------------------------------------------------------------------
(* The inductive invariant, StreamIntact taken apart: the chunk and the buffer are
   the two runs of bytes after the last that was fed, and there is no chunk but
   between the consumer's two steps.                                       *)
StreamInv ==
  /\ data = Numbered(fed, Len(data))
  /\ rxBuffer = Numbered((fed + Len(data)) % Wrap, Len(rxBuffer))
  /\ received = ((fed + Len(data)) + Len(rxBuffer)) % Wrap
  /\ main # "feed" => data = <<>>

LEMMA BytesAreNumbers ==
  ASSUME BytesOK
  PROVE  fed \in Int /\ fed % Wrap = fed /\ Len(data) \in Nat /\ Len(rxBuffer) \in Nat
<1>1. fed \in Int /\ Len(data) \in Nat /\ Len(rxBuffer) \in Nat
  BY DEF BytesOK, Byte
<1> QED
  BY <1>1, ByteIsItsRemainder DEF BytesOK

LEMMA StreamInvImplies == BytesOK /\ StreamInv => StreamIntact
<1> SUFFICES ASSUME BytesOK, StreamInv
             PROVE  StreamIntact
  OBVIOUS
<1>1. Len(data \o rxBuffer) = Len(data) + Len(rxBuffer)
  BY DEF BytesOK
<1>2. data \o rxBuffer = Numbered(fed, Len(data) + Len(rxBuffer))
  <2>1. Numbered(fed, Len(data)) \o Numbered((fed + Len(data)) % Wrap, Len(rxBuffer))
          = Numbered(fed, Len(data) + Len(rxBuffer))
    BY BytesAreNumbers, NumberedAppend
  <2> QED
    BY <2>1 DEF StreamInv
<1>3. (fed + Len(data)) + Len(rxBuffer) = fed + (Len(data) + Len(rxBuffer))
  BY BytesAreNumbers
<1> QED
  BY <1>1, <1>2, <1>3 DEF StreamIntact, StreamInv

LEMMA NumberedEmpty ==
  ASSUME NEW f \in Int
  PROVE  Numbered(f, 0) = <<>>
  BY NumberedType

LEMMA StreamInvInit == Init => StreamInv
<1> SUFFICES ASSUME Init
             PROVE  StreamInv
  OBVIOUS
<1>1. Len(<<>>) = 0 /\ 0 % Wrap = 0 /\ 0 + 0 = 0
  BY WrapAssumption
<1>2. Numbered(0, 0) = <<>>
  BY NumberedEmpty
<1> QED
  BY <1>1, <1>2 DEF Init, StreamInv

LEMMA StreamReceive ==
  ASSUME BytesOK, StreamInv, NEW n \in 1 .. Burst, whenRxInterrupt(n)
  PROVE  StreamInv'
<1> DEFINE a == fed + Len(data)
           m == Len(rxBuffer)
<1>1. UNCHANGED <<fed, data, main>>
  BY DEF whenRxInterrupt, consumer
<1>2. CASE UNCHANGED <<rxBuffer, received>>
  BY <1>1, <1>2 DEF StreamInv
<1>3. CASE /\ rxBuffer' = rxBuffer \o Numbered(received, n)
           /\ received' = (received + n) % Wrap
  <2>1. n \in Nat /\ n \in Int
    BY BurstAssumption
  <2>2. a \in Int /\ m \in Nat /\ m \in Int
    BY BytesAreNumbers
  <2>3. rxBuffer = Numbered(a % Wrap, m) /\ received = (a + m) % Wrap
    BY DEF StreamInv
  <2>4. Len(rxBuffer') = m + n
    BY <1>3, <2>1, AppendType
  <2> HIDE DEF a, m
  <2>5. a + m \in Int /\ a % Wrap \in Int
    BY <2>2, Reduce
  <2>6. received' = (a + (m + n)) % Wrap
    BY <1>3, <2>1, <2>2, <2>3, <2>5, Reduce, Regroup
  <2>7. received = ((a % Wrap) + m) % Wrap
    BY <2>2, <2>3, Reduce
  <2>8. rxBuffer' = Numbered(a % Wrap, m + n)
    <3> DEFINE g == a % Wrap
    <3>1. /\ g \in Int
          /\ rxBuffer' = Numbered(g, m) \o Numbered((g + m) % Wrap, n)
      BY <1>3, <2>3, <2>5, <2>7
    <3> HIDE DEF g
    <3>2. rxBuffer' = Numbered(g, m + n)
      BY <2>1, <2>2, <3>1, NumberedAppend
    <3> QED
      BY <3>2 DEF g
  <2> QED
    BY <1>1, <2>4, <2>6, <2>8 DEF StreamInv, a
<1> QED
  BY <1>2, <1>3 DEF whenRxInterrupt

LEMMA StreamPop ==
  ASSUME BytesOK, StreamInv, PopChunk
  PROVE  StreamInv'
<1> DEFINE n == Len(rxBuffer)
           c == Chunk
<1>1. CASE UNCHANGED <<rxBuffer, data, main>>
  BY <1>1 DEF PopChunk, StreamInv
<1>2. CASE /\ data' = SubSeq(rxBuffer, 1, c)
           /\ rxBuffer' = SubSeq(rxBuffer, c + 1, n)
           /\ main' = "feed"
  <2>1. main = "pop" /\ UNCHANGED <<fed, received>>
    BY DEF PopChunk
  <2>2. /\ c \in 0 .. n /\ n \in Nat /\ n - c \in Nat /\ c \in Nat
        /\ fed \in Int /\ fed % Wrap = fed
        /\ (fed + c) + (n - c) = fed + n
    BY BytesAreNumbers, ChunkType
  <2>3. data = <<>> /\ Len(data) = 0 /\ fed + Len(data) = fed
    BY <2>1, <2>2 DEF StreamInv
  <2>4. rxBuffer = Numbered(fed, n) /\ received = (fed + n) % Wrap
    BY <2>2, <2>3 DEF StreamInv
  <2> HIDE DEF n, c
  <2>5. /\ data' = Numbered(fed, c)
        /\ rxBuffer' = Numbered((fed + c) % Wrap, n - c)
    BY <1>2, <2>2, <2>4, NumberedSplit
  <2>6. Len(data') = c /\ Len(rxBuffer') = n - c
    <3>1. (fed + c) % Wrap \in Int
      BY <2>2, Reduce
    <3> QED
      BY <2>2, <2>5, <3>1, NumberedType
  <2> QED
    BY <1>2, <2>1, <2>2, <2>4, <2>5, <2>6 DEF StreamInv
<1> QED
  BY <1>1, <1>2 DEF PopChunk, consumer

LEMMA StreamFeed ==
  ASSUME BytesOK, StreamInv, FeedChunk
  PROVE  StreamInv'
<1> DEFINE a == fed + Len(data)
           m == Len(rxBuffer)
<1>1. /\ fed' = a % Wrap
      /\ data' = <<>>
      /\ UNCHANGED <<rxBuffer, received>>
  BY DEF FeedChunk, Available
<1>2. a \in Int /\ m \in Int
  BY BytesAreNumbers
<1>3. rxBuffer = Numbered(a % Wrap, m) /\ received = (a + m) % Wrap
  BY DEF StreamInv
<1> HIDE DEF a
<1>4. fed' \in Int /\ fed' \in Byte /\ received = (fed' + m) % Wrap
  BY <1>1, <1>2, <1>3, Reduce
<1>5. fed' % Wrap = fed'
  BY <1>4, ByteIsItsRemainder
<1>6. Len(data') = 0 /\ fed' + Len(data') = fed'
  BY <1>1, <1>4
<1>7. data' = Numbered(fed', Len(data'))
  BY <1>1, <1>4, <1>6, NumberedEmpty
<1> QED
  BY <1>1, <1>3, <1>4, <1>5, <1>6, <1>7 DEF StreamInv

LEMMA StreamInvNext == TypeOK /\ StreamInv /\ [Next]_vars => StreamInv'
<1> SUFFICES ASSUME BytesOK, StreamInv, [Next]_vars
             PROVE  StreamInv'
  BY DEF TypeOK
<1>1. CASE UNCHANGED <<rxBuffer, data, received, fed, main>>
  BY <1>1 DEF StreamInv
<1>2. CASE StartConsumer
  BY <1>2 DEF StartConsumer, StreamInv
<1> QED
  BY <1>1, <1>2, StreamReceive, StreamPop, StreamFeed
     DEF Next, PostOther, FinishOther, mbed_die, vars, queue, consumer

(* The command line gets the bytes in the order they came in, none lost and none
   twice, until the program dies.                                          *)
THEOREM BytesInOrder == Spec => []StreamIntact
  BY StreamInvInit, StreamInvNext, StreamInvImplies, TypeCorrect, PTL DEF Spec, TypeOK
=============================================================================
