# Verification of ble-cliapp

ble-cliapp is a shell over a serial line: a host types commands, the program
calls the Bluetooth Low Energy (BLE) stack of mbed and answers with one JSON
document per command.  It runs on a microcontroller: one main loop, interrupt
handlers, no threads, no operating system.  These modules model its event queue,
its serial input, the life of a command, how the text of a line becomes a call of a
handler, the document a command writes, and the declaration of GATT services.  TLC checks
them on small instances; the modules named `*Proofs` hold theorems for
every value of the constants, checked by TLAPS.

Paths below are relative to `src/source`.

## 1. The system

### Parts, state and operations

| Part | Files | State | Operations |
|---|---|---|---|
| Node list | `EventQueue/PriorityQueue.h` | nodes linked from `head` and from `free_nodes`, a counter | push, pop, erase, update, clear |
| Event queue | `EventQueue/EventQueueClassic.h` | the node list, remaining times, a ticker, a timer, `_timed_event_pending` | post, post_in, post_every, cancel, dispatch, interrupt of the ticker |
| Ring buffer | `util/CircularBuffer.h` | array, head, tail, full | push, pop of one, pop of many, reset |
| Serial input | `main.cpp` | the ring, the posted consumers | interrupt handler, consumer |
| Command execution | `CLICommand/**` | response with its reference count, procedure, timeout handle, `onClose` | commandHandler, startProcedure, doStart, terminate, whenTimeout, close, cmd_ready |
| Response | `CLICommand/CommandResponse.*`, `Serialization/JSONOutputStream.*` | status, whether the result has begun, whether a comma is due | setStatusCode, getResultStream, close |
| Arguments | `CLICommand/CommandHandlerGenerator.*`, `Serialization/Serializer.*`, `Commands/Serialization` | none | fromString() of each type, the generated handlers, print_error |
| Command suites | `Commands/*.cpp` | the version of gap and the event handler of the stack; the procedures' own members | about 160 commands in 8 suites, 21 classes of procedures, 13 event callbacks |
| GATT server | `Commands/GattServerCommands.cpp`, `Commands/util` | the service builder, the services committed, the objects they own | declare, set, commit, cancel, shutdown |
| Parameters | `Commands/parameters` | three records of settings | setters |

### How they interact

* The main loop calls `dispatch()` for ever.  It takes the event at the head
  of the queue when its time has come and calls it with interrupts enabled.
* Interrupt handlers post: the serial one `consumeSerialBytes`, the one of the BLE
  stack `BLE::processEvents`.  The interrupt of the ticker counts the
  remaining times down.
* `consumeSerialBytes` feeds bytes to `cmd_char_input()` of mbed-client-cli, which at
  the end of a line calls `commandHandler()`.  That looks the command up in its suite,
  counts the arguments and calls the generated handler, which converts them
  to the types of the handler proper.  A command that needs the BLE
  stack to answer starts an `AsyncProcedure`; that posts its timeout to
  the same queue, keeps a reference to the response, and is deleted by a
  callback of the stack or by the timeout.  When the last reference to the
  response goes, `cmd_ready` is posted, again to the same queue.
* So everything shares ten nodes of one queue, and every `post` may be refused.
* The stack has one handler of gap events: that of version 2, which prints each event
  on a JSON stream of its own, or a `ReadPhyProcedure`, which takes its place.
* The commands of the GATT server share one `ServiceBuilder`; a shutdown of the stack,
  from any other command, deletes it and the services that were committed.

### What is hard

* Interleaving: interrupts come between any two steps outside a critical section.
  Callbacks of the stack, timeouts and new input come in any order.
* Resources: ten events, 768 bytes; a refused post loses something.
* Ordering and staleness: who is deleted first, procedure, timeout or callback; what a
  decision taken before interrupts are enabled is worth after.
* Time: two clocks rounded to milliseconds, an interrupt that is late.
* Sequences: nodes relinked by hand between two lists, references counted, pointers
  handed from the builder to a service and from there to the stack.
* Widths: texts of any size become integers of 8, 16 and 32 bits through strtol(),
  strtoul(), sscanf() and casts; lists are counted in 8 bits.

PROJECT.json lists the hazards with the line where each bites and the
properties that watch it.

## 2. The modules

| Module | Models | Extends or instantiates |
|---|---|---|
| `SortedListOps` | where an ordered list takes a new element | |
| `SortedList` | the abstract ordered list | `SortedListOps` |
| `PriorityQueue` | the nodes and links of `PriorityQueue.h` | implements `SortedList` |
| `EventService` | what an event queue promises | |
| `EventQueue` | `EventQueueClassic.h` over an ordered list | `SortedListOps`, implements `EventService` |
| `BoundedFifo` | the abstract bounded FIFO | |
| `CircularBuffer` | `CircularBuffer.h`, indices and wrap | implements `BoundedFifo` |
| `SerialRx` | `main.cpp`, interrupt and consumer over a FIFO | |
| `CommandLine` | what the command line is promised of a command | |
| `CommandExecution` | `commandHandler`, `AsyncProcedure`, `CommandResponse::close` | implements `CommandLine` |
| `Procedures` | what each class of procedures of `Commands/` adds | given to `CommandExecution` as `Traits` |
| `JsonReader` | the host: which tokens make a JSON document | |
| `ResponseStream` | `CommandResponse` over `JSONOutputStream`, one insertion a step | `JsonReader` |
| `Responses` | what the commands of `Commands/` write | given to `ResponseStream` as `Writes` |
| `Names` | the tables of names of the serialisers, in both directions | |
| `Arguments` | `fromString()` of each type, and what a text denotes | `Names` |
| `Commands` | the suites: every command with its arguments and kind of answer | `Arguments` |
| `Events` | what the callbacks of version 2 of gap print | `Responses` |
| `Invocation` | `commandHandler()` from the line to the answer, useVersion, the event handlers | composes `ResponseStream`, `Commands` and `Events` |
| `ServiceDeclaration` | what declaring and committing services promises | |
| `GattServer` | the builder, the objects and their lists, the committed services | implements `ServiceDeclaration` |
| `MC*` | instances for TLC | |
| `ListLemmas`, `*Proofs` | proofs | |

The layers meet by their abstract specifications: `PriorityQueue` shows that the
links are an ordered list, `EventQueue` uses an ordered list;
`CircularBuffer` shows that the ring is a FIFO, `SerialRx` uses a FIFO;
`EventQueue` shows what its callers may rely on, `CommandExecution` relies on
it and keeps, of the queue, only how many events of each kind it holds and how many
run before the timeout.

### PriorityQueue

A node is a number; `next`, `head`, `free_nodes`, `storage` and
`used_nodes_count` are the fields of the class.  Push, Pop, Erase, UpdateHead and
Clear are its operations as the event queue uses them.
`Chain(n)` is the walk along `next` from n; that it ends is part of `NodesAccounted`.
`erase()` loops on `while (current->next)` and never advances `current`: the action
`Erase` of a node that is neither first nor second sets `spinning`.  `update()`
of an element that is not at the head is left out: the event queue only
updates the head.  (There the code has a flaw without effect: an element whose key
becomes smaller than the head's is not moved in front of it.)

### EventQueue

`list` holds handles in the order of their remaining times, `remaining` and
`period` are the fields of an event, `ticker` and `timer` the two mbed objects.
Each action is one critical section or one interrupt.  Time is counted in
instants, `Resolution` to the millisecond, because `read_ms()` rounds down: an
event that is posted between two milliseconds of the running timer comes up to a
millisecond early, which is what `EventService` allows and no more.
`due` is a history of what the caller asked for.  All values are
relative to now, so that the states are finitely many without a bound on time;
`Latency` bounds how late the interrupt of the ticker is.

### SerialRx

`rxBuffer` is the FIFO, bytes are numbered modulo `Wrap` in the order they come.
`whenRxInterrupt(n)` is the handler that found n bytes; PopChunk is the critical
section of the consumer and FeedChunk what follows it.  `others` are the other
events in the queue, so that a post can be refused; `deaf` records that one was.
`died` is `error()`, which never returns.

### CommandExecution

`main` is what the main loop does next: within `commandHandler()` ("handler",
"doStart", "return"), in `terminate()` ("terminate", "release") or back in
`dispatch()`.  Interrupts post between any two steps.  `holders` are the references
that `use_count()` counts.  `calls` are the calls of `terminate()` still to
come.  A procedure's class is a record of `Traits`, read from its
code (module `Procedures`): what doStart() may return, whether a callback may
end it, whether its destructor takes its callbacks back, how often terminate()
is called at its timeout.  `fault` is set where the code's behaviour is undefined and
nothing happens after it.  cmd_ready() and cmd_next() belong to
mbed-client-cli, which is not in the repository: while a command is "waiting" it
calls no handler.

### ResponseStream

A response is printed as it is written and shared by the handler, `doStart()`, callbacks and
the timeout.  `response.out` is the JSONOutputStream: `startNewValue`, which is all the
code remembers, and beside it the text as its reader sees it (`JsonReader`).  Each step
is one insertion, so that a document may be wrong in the middle.  `Writes`
gives, for each command, what may be written at once, at the start, in a callback that
reports and at the end; module `Responses` lists it for the commands, with one entry for
those that write alike.  Formats and names are left out: a scalar is "value", a key of the
result "member".  `print_error` writes one member for the index, name, type and description
of the refused argument.

`Responses` has two tables.  Those in `ProperResponses` write one document whatever happens.
Those in `OtherResponses` do not (readPhy does as long as it is not answered):

| Command | What it writes |
|---|---|
| readPhy | the status between the key "result" and its value, when it succeeds |
| generateWhitelistFromBondTable, commands that pair and wait | several values after the key "result", when the stack refuses (`BLE_SM_TEST_ASSERT_RET`) |
| discoverAllServices, discoverPrimaryServicesByUUID, discoverAllServicesAndCharacteristics | a message into an array that is never closed, when the connection is lost or the time is over |
| startScan, getAdvertisingPayload | service IDs of 32 bits without a comma |
| startScan | what follows the refusal of its duration, as the handler goes on |
| discoverAllCharacteristicsDescriptors, waitForEvent | a document, but with a failure under "result" |

All of them tell one status, the one the command line is given.

readAttribute is among the proper ones although it writes its body before its status
(`GattServerCommands.cpp:528-529`, `545-546`), which the note at `CommandResponse.h:80-81` asks users not to
do: a status that is not set counts as success, so the body is under "result", and success is
what is told after it.

### Arguments and Commands

A text is a record: the word itself where it is a name, what matters of its shape, and
the numbers that the C library finds in it.  `strtol`, `strtoul` and the casts are
modelled with their widths, which are constants: a `long` is taken as 2^26 instead of
2^32, as TLC's integers have 32 bits; it only has to be a multiple of 2^16 and larger.
The limits of a duration are those of the types of the BLE stack.  A MAC address is kept in
the order it is written.  `Denotes` is the reference: what a text may mean
without these detours, and how far the code may depart from it (modulo 2^32 where
strtoul() reads, the low bits where it casts).  It also admits what `hexStringToRawData()`
makes of "1g": strtol() is given two characters and only refused when it reads none
(`Hex.cpp`), so the value is 1, where `Hex.h:36` says that an invalid string gives an invalid vector.

`Commands` has one entry for each command: the least and most arguments, the types of
its handler and the entry of `Responses` it answers with.  Commands that take
their arguments as they come (`Raw`) convert them themselves; whether that fails is in
their answers.  `commands[v]` are the suites under version v of gap.

### Invocation

`Invoke(l)` is `commandHandler()` for the line l up to and with the call of the handler:
`Outcome` is a refusal or the values the handler gets, `CallHandler` the answer
that it begins.  The following steps are those of `ResponseStream`.  `eventHandler` is
what the stack was given by `setEventHandler()`.  useVersion 2 registers
"events"; version 1 registers nothing and leaves what is there.  readPhy registers its
procedure before it asks the stack, and its destructor leaves none, so that after a readPhy
no event is printed until useVersion 2 is given again.  `PrintEvent` is a callback of
the stack between two steps of the main loop; `eventLine` is what it printed.
Only lines whose commands `Writes` has in both versions are given (`Answered`).

### GattServer

`heap` holds the objects that are allocated, an attribute with its value's length, a
service or characteristic with its list.  `serviceBuilder`, `gattServices` and
`cleanupRegistered` are the variables of the code.  A command is one action: none
of them waits.  `Deleted` is what a destructor deletes; a pointer that dangles
or is deleted twice is what `OwnedOnce` excludes.  The counts of lists are of
`CountValues`, 256 in the code: the 256th entry sets the count to 0, and the list is lost
(`wrapped`).  `database` is what the stack was told.  The refinement maps the objects
reached from the builder to the service being declared.

## 3. The runs

| Run | Shows | Bounds, and why they are enough |
|---|---|---|
| `priority_queue` | no operation loses, shares or miscounts a node; the links are an ordered list, stable among equals | 4 nodes, so that a node has neighbours on both sides and the free list runs empty; 3 keys |
| `priority_queue_erase` | **violated**: erase() of the third node never returns | 3 nodes |
| `event_queue` | the list stays ordered; the flag, ticker and timer agree; the ticker is set for the first to wait; no event is a millisecond early; no wait is shortened; the queue keeps the promise of `EventService`; a ready event runs; a waiting one becomes ready unless cancels of others for ever lose a begun millisecond | 3 events, so that one has a neighbour on each side; delays 0, 1 and 2 ms, 2 instants to the millisecond, an interrupt up to a millisecond late; no symmetry, which liveness rules out |
| `event_queue_starved` | **violated**: an event posted in 1 ms never runs while another is posted and cancelled within every millisecond | 2 events, delays 0 and 1 ms, 2 instants to the millisecond |
| `circular_buffer` | the ring is a FIFO | 5 places, pops of up to 7: every way to split a pop |
| `serial_rx` | one consumer while there are bytes and none otherwise; it never finds the buffer empty; bytes come out in order, once; all come out | 5 bytes in chunks of 2, bursts of up to 3, a queue of 2 |
| `command_execution` | one command at a time; timeouts belong to a procedure that exists; one answer at most and only after it was announced | all 21 classes of procedures, a queue of 4: the timeout can be third, and the queue full |
| `command_execution_live` | the classes that keep the contract of AsyncProcedure are never called after their end, and their commands end | the 17 sound classes, a queue of 4 |
| `command_execution_twice` | **violated**: a procedure is deleted twice | its class, a queue of 3 |
| `gatt_server` | no pointer dangles and no object is deleted twice; nothing leaks unless a count wrapped; the stack refers to services that exist; a shutdown cleans up once; the stack gets what was declared | 5 objects, enough for a service with a list of two, a descriptor and one more; a list wraps at the third entry; 2 services; symmetric in the objects |
| `response_stream` | the handler gets what was written and a refusal tells the first bad argument; a command's document is JSON, tells one status, the one the command line is given, and has one body, named after it; the stream knows when a comma is due; no event handler outlives its procedure; every event is a document | the lines of all commands with one of the 28 proper kinds of answers; for each type its limits, one beyond them, what wraps and what is no value; one word less and more than there may be; arrays of up to 2 elements, so that there is a first, a next and none; 3 reports |
| `response_stream_broken` | **violated**: a document is no JSON | the 9 other kinds, 2 reports |

`MCInvocation` also has TLC evaluate `RoundTrip` (a name that is printed for a value is
read as that value, in each of the 31 tables) and the conditions on the tables that
the theorems assume.

The violated runs are the findings of PROJECT.json.

### Fairness

`event_queue` and `event_queue_starved`: weak fairness of Dispatch (the main loop does
nothing else, and callbacks return), of Tick (time passes) and of TickerInterrupt (an
interrupt that is due is taken).  None of Post or Cancel, which come as often as callers like,
also for ever.

Every successful cancel() resets the timer and takes only whole milliseconds off the waits
(`EventQueueClassic.h:185-188`), so what the timer had counted of the next one is lost.
That an event which is posted will be executed (`PostedWillBeExecuted`, after `EventQueue.h:34`) is
therefore refuted: in the counterexample of `event_queue_starved` each millisecond is cut
short by a cancel.  `WaitingEnds` says that, but for a main loop that spins in erase(), this is the only way: if the time of an event never
comes, then steps of `LosesFraction` happen without end, cancels of *other* events, while it
waits, at a moment between two milliseconds.  Posts, dispatches, repetitions, late
interrupts and cancels at any other moment put nothing off for ever.  It is a disjunction and no
fairness of the code: nothing keeps a caller from doing that.  The program itself does not.  Its one caller of
cancel() and of post_in() is `AsyncProcedure`, one procedure lives at a time, and its timeout is
the only event that ever waits (`OneCommandAtATime`, `TimeoutIsOwned`).

`serial_rx`: weak fairness of the main loop's steps.  This takes it that `cmd_char_input()`
returns: that a command which is fed calls cancel() and spins in erase() is outside this module
(`CommandExecution` has it, where `main` is "hung").  None of the interrupt, nor
of other events, which makes a full queue stay full if it likes; `BytesAreFed`
therefore excepts a refused post (`deaf`) and an overflow (`died`).

`command_execution_live`: weak fairness of the steps of the main loop, of Expire (the
time of a timeout comes) and of taking the event at the head, which `ReadyRuns` and
`WaitingEnds` justify, the latter as no other event waits whose cancel could lose a fraction.  None of WhenAnswered: the peer need not answer.
`CommandEnds` excepts a refused post and a cancel() that does not return.

## 4. The proofs

Every invariant, action property and refinement that a passing run checks is stated by a
theorem; only liveness is not.

| Theorem | Statement | Inductive invariant |
|---|---|---|
| `PriorityQueueProofs!TypeCorrect`, `NoNodeIsLost`, `LinksImplementList` | the links lead to nodes; none is lost, shared or miscounted; refinement of `SortedList` | `LinksInv`: there are two sequences of nodes, each node in one of them once, that are the chains of `next` from `head` and from `free_nodes`; the counter is the length of the first, and its keys are in order |
| `EventQueueProofs!TypeCorrect`, `NotAMillisecondEarly`, `QueueImplementsService` | type; no event early by a millisecond; refinement of `EventService` | `IInv`: the type, no handle twice in the list, the timer at 0 while no event waits, and for each event that what it waits, less what the timer has counted, covers what is left of its delay but for less than a millisecond |
| `EventQueueProofs!ListIsOrdered` | the list is in the order of the remaining times | the property and `IInv` |
| `EventQueueProofs!ClocksRunWhileOneWaits`, `TickerIsSetForFirst` | the pending flag, ticker and timer run while an event waits; the ticker is set for the first of them | `ClocksInv`: both properties, over `IInv`; each operation is reduced to what it does to the set of events that wait and to the first of them in the list, which `ListIsOrdered` shows to be the one that waits the shortest |
| `EventQueueProofs!WaitsKept` | no step shortens a wait, or lengthens it by a millisecond | `IInv` |
| `CircularBufferProofs!TypeCorrect`, `RingImplementsFifo` | indices; refinement of `BoundedFifo` | the type, with a full ring having head at tail; how many elements there are follows from tail, head and the full flag, and each operation is one of the FIFO on the elements read from there |
| `SerialRxProofs!TypeCorrect`, `ConsumerFindsBytes`, `OneConsumer` | capacities; line 116 of `main.cpp` unreachable; one consumer | `ConsumerInv`: the consumers still going to pop are 1 or 0 as the buffer holds bytes or not, unless deaf |
| `SerialRxProofs!BytesInOrder` | order of the stream | `StreamInv`: the chunk followed by the buffer is the run of numbers from `fed` to `received` |
| `CommandExecutionProofs!TypeCorrect`, `OneCommand`, `TimeoutOwned`, `CommandLinePromise`, `ContractSuffices` | capacity; one command; ownership; refinement of `CommandLine`; nothing undefined if every class detaches and is terminated once | `IInv`: `Control` ties where the main loop is to what the command line does and to whether there is a procedure; `Held` ties the references to both; `AnsweredOnce` says that cmd_ready is posted or refused exactly when nobody holds the response any more; `Owned` ties the timeout and the stack's callbacks to the procedure |
| `InvocationProofs!TypeCorrect`, `StatusIsToldOnce`, `CommaIsKnown` | of `ResponseStream`: type; one status, the one returned; commas | for the status: what was told is what is set, and a command that is not done has its status set, among the insertions still to come, or in everything that may end it; for commas: no insertion still to come is an uncommitted value |
| `InvocationProofs!DocumentIsWellFormed`, `BodyAgreesWithStatus` | of `ResponseStream`: what is printed is the beginning of a JSON document, and all of one at the end; its body is named after the status | `DocumentInv`: the response has a *form* (what is open, whether a value is due, which body it has) from which what is still to write keeps the rules, and leads to a form that the callbacks may find, or to a finished one |
| `InvocationProofs!ImplementsResponseStream`, `InvocationTypeCorrect`, `InvocationTellsOnce`, `InvocationKnowsComma`, `InvocationWritesDocument`, `InvocationBodyAgrees` | a command that is looked up, counted, converted and perhaps refused is a command of `ResponseStream`, so what is proved there holds here | none but the version being 1 or 2: each step is mapped to one of `ResponseStream`, the event to a stutter |
| `InvocationProofs!HandlerAlive` | no event handler outlives its procedure | the property, with the phases in which readPhy's procedure exists |
| `InvocationProofs!RefusedExactly` | a refusal tells the first argument that does not convert, with its code | `RefusalInv`: the property, and that what is still to write and is told of a refusal is its code; that a first failure exists is the least element of a finite set |
| `InvocationProofs!HandlerGetsIt` | the handler gets as many values as it takes, each one that its word denotes and within its limits | the property; its lemma `Converted` treats strtol(), strtoul(), sscanf(), names and casts type by type, for all widths |
| `InvocationProofs!EventsWriteDocuments` | every event is a document | what is printed is one of `EventLines`, which are documents as the callbacks keep the rules |
| `GattServerProofs!TypeCorrect`, `ObjectsOwnedOnce`, `NoLeak`, `StackServicesLive`, `ShutdownDeletes` | types; ownership; no leak; the stack's services exist; shutdown | `HeapInv`: the pointers and lists form a forest over the heap, every pointer held once, and everything allocated is in it unless a count wrapped; `FlagsInv` ties the registration of the callback to there being something to delete; `DatabaseInv` ties the stack's services to gattServices |
| `GattServerProofs!DeclaredIsCommitted` | refinement of `ServiceDeclaration` | the same: as every object is held once, a command changes what is reached through one pointer only; handing a pointer from the builder to a list or to gattServices changes nothing of how the service looks to the stack |

### How they go

`PriorityQueue`: the links lead from a node in one way only (`ChainOfIs`), so the
sequences of `LinksInv` are what `Chain` chooses, and each operation is proved by naming the
two sequences after it (lemmas `MoveOut`, `MoveIn`, `MoveWithin`, `MoveAll`).  That the walk of `insert_after()` finds a place is that a non-empty
set of indices has a least element.  erase() keeps the invariant also when it
spins: it does not change a link then, it only never returns.  What `LinksImplementList`
says of erase() is therefore safety: *if* it returns, the element is gone and the others are
in order.  That it returns is what the run `priority_queue_erase` refutes.

`EventQueue`: of `ClocksFollowQueue` and `TickerTracksFirst` neither is inductive alone: where
the flag is wrong, the next post attaches the ticker or leaves it for the wrong event.  Both, and the
order, need of `IInv` that a handle is in the list once.

`CommandExecution`: `IInv` is needed because the properties speak of neither the
position of the main loop nor of `onClose`, on which the next step depends: that a
response closed within its handler posts no cmd_ready() follows from `onClose`
being the dummy while the handler holds it.

`ResponseStream`: that a text is well-formed says nothing of what may be printed next.  A form
does: `KeepsRules` says what a sequence of insertions needs, `FormAfter` what it leads to.
Both are of one recursive function, `Forms`, and a step of the machine takes the first
insertion of the sequence away, so the proof unrolls it once a step.

### What they assume

The ASSUMEs of the modules, which TLC evaluates:

* Delays are natural numbers, the resolution is positive, capacities are natural numbers,
  `Traits` and `Writes` have their types.
* `KeyAssumption`: keys are integers and there is one, which the nodes hold before they are used
  (the code leaves their storage uninitialised and does not read it).
* `NullAssumption`: a null pointer is no object, no builder and nothing the stack is told.
* `WidthAssumption`: the widths are even, increasing, and each divides the next, as
  powers of two do.
* `LinesAssumption`: a line names a suite there is, and its words are texts in which the C
  library finds a sequence of integers, of six characters not more than six digits.

And conditions on the tables, each a hypothesis of the theorems that need it, so that a new
command needs no new proof.  `MCInvocation` asserts all of them for the
tables of the code:

| Condition | Says | Of | Holds for |
|---|---|---|---|
| `EveryCommandTells` | the answers of a command tell a status, and of one that goes on all beginnings or all ends do | `StatusIsToldOnce` | `ProperResponses`, `OtherResponses` |
| `EveryValueIsCommitted` | nothing is inserted as "format", a value that nobody commits | `CommaIsKnown` | `ProperResponses` |
| `EveryRuleIsKept` | from the form of a new response, and from each that a callback may find, what is written keeps the rules; what ends a command ends the document | `DocumentIsWellFormed`, `BodyAgreesWithStatus` | `ProperResponses`; each of the nine `OtherResponses` breaks it |
| `EventsKeepRules` | the same of an event | `EventsWriteDocuments` | `EventHandler`, which no constant changes |
| `EntriesAreTyped` | the types of an entry are a sequence | `RefusedExactly`, `HandlerGetsIt` | `commands` |
| `EntriesFit` | an entry takes at least as many words as it converts, its types are known to the conversions, a number that strtol() cuts off is beyond the limits of its type, useVersion is the same in both versions | `HandlerGetsIt` | `commands` |

`DocumentIsWellFormed` and `BodyAgreesWithStatus` are thus theorems about how the parts of a
document fit together over any number of callbacks, for the tables in the module
`Responses` by evaluation of the condition; the run `response_stream_broken` shows what
becomes of a table that breaks it.

### What is only model-checked

Liveness: `ReadyRuns`, `WaitingEnds`, `BytesAreFed` and `CommandEnds`, since the prover treats
neither fairness nor ENABLED.  `RoundTrip`, a property of the tables of names, is
evaluated.  The four properties that are violated have counterexamples, not proofs.
`EventService`, `SortedList`, `BoundedFifo`, `CommandLine` and `ServiceDeclaration` are
specifications to be implemented; nothing is proved of them alone.

## 5. What is not modelled

* `Thunk` and its relatives (type erasure), copying a `PriorityQueue`, the Minar variant
  of the event queue, which forwards to another scheduler.
* erase() on an empty queue (reads through a null pointer): the only
  caller of cancel(), `AsyncProcedure`, never does it (`TimeoutIsOwned`).
* The BLE stack and mbed-client-cli are not in the repository; they are what the code
  expects of them.
* The answer to a read that timed out may complete the next read of the same
  characteristic: answers have no identity in `CommandExecution`.
* The name of a suite alone on a line: `args[1]` is then read beyond the arguments
  (`CommandSuiteImplementation.cpp:43`, `ConstArray.h:37` checks no bound).  The lines of `Invocation`
  name a command.
* `setCommandName()` and `setArguments()`, which nothing calls.
* A line of an event (`JSONEventStream`, "<<< ") is printed wherever the serial line
  is, also in the middle of the result of a command that waits, although
  `JSONOutputStream.h:220` says that it begins a new line.  `EventLinesAreDocuments` is
  of the event's own stream.
* The conversions that `Raw` commands make themselves, the advertising payload they build
  (a static member of version 1), the records of the parameter suites, and in general what
  the BLE stack makes of a value.
* Characters: strings are printed without escapes (`JSONOutputStream.cpp:56`), so that a
  quote in a device name breaks a document; a scalar is one token here.
* Descriptions of arguments.  Those of setActiveScanning (`GapV1Commands.cpp:769`) and
  setLinkEncryptionAndWait (`SecurityManagerCommands.cpp:676`) name other types than
  their handlers convert.
* getCentralPrivacyConfiguration is written but missing in the table of commands
  (`GapCommands.cpp:530`), so that it is refused; `Commands` leaves it out as the table does.
  getMinAdvertisingInterval answers with the minimum of non connectable
  advertising (`GapCommands.cpp:85`).

## 6. Plan

1. Answers of the stack with an identity: a late answer to a read (`GattClientCommands.cpp:597`),
   events that come between two commands of the security manager.
2. The serial line that responses and events share.
3. The advertising payload and scan of version 1.
4. Proofs: that the composition of the layers keeps the promises of each, where two modules
   now meet only by their abstract specifications (a queue of events over linked nodes, the
   consumer over the ring); the safety part of liveness, such as what a step must leave for
   `BytesAreFed` to hold.
