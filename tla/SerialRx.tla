------------------------------ MODULE SerialRx ------------------------------
(***************************************************************************)
(* The way of a byte from the serial port to the command line (main.cpp):  *)
(* the receive interrupt puts bytes into rxBuffer, a ring buffer, and      *)
(* posts consumeSerialBytes to the event queue when it found the buffer    *)
(* empty; the main loop runs the consumer, which empties the buffer in     *)
(* chunks and feeds them to the command line.                              *)
(*                                                                         *)
(* rxBuffer is the sequence that CircularBuffer implements, the event      *)
(* queue the number of its consumers and of other events: EventQueue shows *)
(* that a posted event runs.  Bytes are numbered modulo Wrap in the order  *)
(* they are received.                                                      *)
(***************************************************************************)
EXTENDS Integers, Sequences

CONSTANTS BufferLength,   \* CIRCULAR_BUFFER_LENGTH
          ChunkLength,    \* CONSUMER_BUFFER_LENGTH
          QueueCapacity,  \* the events the event queue can hold
          Burst,          \* bound: the most bytes one interrupt finds
          Wrap            \* bound: numbers of bytes before they repeat

ASSUME BufferAssumption == BufferLength \in Nat \ {0}
ASSUME ChunkAssumption == ChunkLength \in Nat \ {0}
ASSUME QueueAssumption == QueueCapacity \in Nat
ASSUME BurstAssumption == Burst \in Nat
ASSUME WrapAssumption == Wrap \in Nat \ {0}

VARIABLES
  rxBuffer,     \* the bytes received and not yet taken
  consumers,    \* posted events that run consumeSerialBytes
  others,       \* other posted events
  main,         \* the main loop: "dispatch", or in the consumer "pop" or "feed"
  data,         \* the consumer's chunk
  shouldExit,   \* the consumer's flag
  died,         \* the error() the program ended in, or "no"
  deaf,         \* a post of the consumer was refused
  received,     \* number of the next byte that comes in
  fed           \* number of the next byte the command line gets

queue == <<consumers, others>>
consumer == <<main, data, shouldExit>>
vars == <<rxBuffer, queue, consumer, died, deaf, received, fed>>

Byte == 0 .. Wrap - 1

Numbered(first, n) == [i \in 1 .. n |-> (first + i - 1) % Wrap]

Init ==
  /\ rxBuffer = <<>>
  /\ consumers = 0
  /\ others = 0
  /\ main = "dispatch"
  /\ data = <<>>
  /\ shouldExit = FALSE
  /\ died = "no"
  /\ deaf = FALSE
  /\ received = 0
  /\ fed = 0

(* taskQueue.post(consumeSerialBytes), whose result is not looked at.      *)
PostConsumer_Unchecked ==  \* mutant: the capacity of the queue is not respected
  consumers' = consumers + 1 /\ UNCHANGED deaf
PostConsumer ==
  IF consumers + others < QueueCapacity
  THEN consumers' = consumers + 1 /\ UNCHANGED deaf
  ELSE deaf' = TRUE /\ UNCHANGED consumers

(* whenRxInterrupt() finds n bytes.  The buffer is looked at before they are in. *)
startConsumer_Always == TRUE  \* mutant: every interrupt posts a consumer
startConsumer == rxBuffer = <<>>

whenRxInterrupt(n) ==
  /\ died = "no"
  /\ \/ /\ Len(rxBuffer) + n <= BufferLength
        /\ rxBuffer' = rxBuffer \o Numbered(received, n)
        /\ received' = (received + n) % Wrap
        /\ IF startConsumer THEN PostConsumer ELSE UNCHANGED <<consumers, deaf>>
        /\ UNCHANGED died
     \/ /\ Len(rxBuffer) + n > BufferLength
        /\ died' = "serial buffer is full"
        /\ UNCHANGED <<rxBuffer, received, consumers, deaf>>
  /\ UNCHANGED <<others, consumer, fed>>

(* Other callbacks and interrupt handlers post events ...                  *)
PostOther ==
  /\ died = "no"
  /\ consumers + others < QueueCapacity
  /\ others' = others + 1
  /\ UNCHANGED <<rxBuffer, consumers, consumer, died, deaf, received, fed>>

(* ... which leave the queue when they are cancelled or dispatched.        *)
FinishOther ==
  /\ died = "no"
  /\ others > 0
  /\ others' = others - 1
  /\ UNCHANGED <<rxBuffer, consumers, consumer, died, deaf, received, fed>>

(* The main loop dispatches consumeSerialBytes.                            *)
StartConsumer ==
  /\ died = "no"
  /\ main = "dispatch"
  /\ consumers > 0
  /\ main' = "pop"
  /\ consumers' = consumers - 1
  /\ UNCHANGED <<rxBuffer, others, data, shouldExit, died, deaf, received, fed>>

(* rxBuffer.pop(data)                                                      *)
Chunk == IF Len(rxBuffer) < ChunkLength THEN Len(rxBuffer) ELSE ChunkLength

(* The critical section of consumeSerialBytes().                           *)
PopChunk ==
  /\ died = "no"
  /\ main = "pop"
  /\ \/ /\ Chunk = 0
        /\ died' = "serial buffer is empty"
        /\ UNCHANGED <<rxBuffer, consumer>>
     \/ /\ Chunk > 0
        /\ data' = SubSeq(rxBuffer, 1, Chunk)
        /\ rxBuffer' = SubSeq(rxBuffer, Chunk + 1, Len(rxBuffer))
        /\ shouldExit' = (rxBuffer' = <<>>)
        /\ main' = "feed"
        /\ UNCHANGED died
  /\ UNCHANGED <<queue, deaf, received, fed>>

(* The chunk goes to cmd_char_input() with interrupts enabled, then the loop
   goes on unless the buffer was empty when the chunk was popped.          *)
Available_WholeArray == ChunkLength  \* mutant: the whole array is fed, not the bytes popped
Available == Len(data)

loops_Once == FALSE  \* mutant: one chunk per event
loops_WhileBytes == rxBuffer # <<>>  \* mutant: the buffer is looked at again, out of the lock
loops == ~shouldExit

FeedChunk ==
  /\ died = "no"
  /\ main = "feed"
  /\ fed' = (fed + Available) % Wrap
  /\ data' = <<>>
  /\ main' = IF loops THEN "pop" ELSE "dispatch"
  /\ UNCHANGED <<rxBuffer, queue, shouldExit, died, deaf, received>>

(* error() never returns: mbed_die() loops for ever.                       *)
mbed_die == died # "no" /\ UNCHANGED vars

Next ==
  \/ \E n \in 1 .. Burst : whenRxInterrupt(n)
  \/ PostOther
  \/ FinishOther
  \/ StartConsumer
  \/ PopChunk
  \/ FeedChunk
  \/ mbed_die

Spec == Init /\ [][Next]_vars

(* The main loop dispatches posted events and runs their callbacks.  Bytes and
   other events come or do not come.                                       *)
FairSpec == Spec /\ WF_vars(StartConsumer) /\ WF_vars(PopChunk) /\ WF_vars(FeedChunk)

-----------------------------------------------------------------------------
BytesOK ==
  /\ rxBuffer \in Seq(Byte)
  /\ Len(rxBuffer) <= BufferLength
  /\ data \in Seq(Byte)
  /\ received \in Byte
  /\ fed \in Byte

QueueOK ==
  /\ consumers \in Nat
  /\ others \in Nat
  /\ consumers + others <= QueueCapacity

FlagsOK ==
  /\ main \in {"dispatch", "pop", "feed"}
  /\ shouldExit \in BOOLEAN
  /\ died \in {"no", "serial buffer is full", "serial buffer is empty"}
  /\ deaf \in BOOLEAN

(* The buffer and the event queue keep their capacity.                     *)
TypeOK == BytesOK /\ QueueOK /\ FlagsOK

(* The consumer is in its loop and will pop again.                         *)
Looping == main = "pop" \/ (main = "feed" /\ ~shouldExit)

(* The consumers that are still going to pop.                              *)
Popping == consumers + (IF Looping THEN 1 ELSE 0)

(* "sanity check, this should never happen" (main.cpp:115): a consumer always
   finds bytes, although the interrupt comes between its chunks and between the
   last look at the buffer and the end of the callback.                    *)
SanityCheck == died # "serial buffer is empty"

(* Exactly one consumer is posted or looping while there are bytes, and none
   while there are none; only a refused post leaves bytes without consumer.  *)
ConsumerMatchesBytes ==
  Popping = IF rxBuffer = <<>> \/ deaf THEN 0 ELSE 1

(* The command line gets the bytes in the order they came in, none lost and none
   twice: those fed, those in the consumer's chunk and those in the buffer make
   up all that were received.                                              *)
StreamIntact ==
  LET bytes == data \o rxBuffer
  IN /\ bytes = Numbered(fed, Len(bytes))
     /\ received = (fed + Len(bytes)) % Wrap

(* The byte b is in the buffer or in the consumer's chunk.                 *)
InFlight(b) == \E i \in 1 .. Len(data \o rxBuffer) : (data \o rxBuffer)[i] = b

(* A byte that was received reaches the command line, unless a consumer could not
   be posted or the buffer overflows.                                      *)
BytesAreFed ==
  \A b \in Byte : InFlight(b) ~> (~InFlight(b) \/ deaf \/ died # "no")
=============================================================================
