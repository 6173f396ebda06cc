-------------------------- MODULE CommandExecution --------------------------
(***************************************************************************)
(* The life of a command: CommandSuiteImplementation::commandHandler()     *)
(* calls its handler, which answers at once or starts an AsyncProcedure    *)
(* that keeps the response; a callback of the BLE stack or a timeout ends  *)
(* the procedure, its destructor cancels the timeout and releases the      *)
(* response, and the response, once nobody refers to it, posts cmd_ready() *)
(* to the event queue.  Interrupt handlers post events between any two     *)
(* steps.                                                                  *)
(*                                                                         *)
(* The event queue is that of EventQueue, reduced to how many events of    *)
(* each kind it holds and how many run before the timeout.  What a         *)
(* procedure's own class adds to AsyncProcedure are its Traits:            *)
(*   starts      what doStart() may return                                 *)
(*   answers     a callback of the stack may end it                        *)
(*   detaches    the destructor takes its callbacks back from the stack    *)
(*   terminates  the calls of terminate() when its timeout comes           *)
(***************************************************************************)
EXTENDS Integers, FiniteSets

CONSTANTS Procedure,      \* the classes of procedures commands start
          Traits,         \* what each of them does
          None,           \* no procedure
          QueueCapacity   \* the events the event queue can hold

ASSUME TraitsAssumption ==
  Traits \in [Procedure -> [starts : SUBSET BOOLEAN, answers : BOOLEAN,
                            detaches : BOOLEAN, terminates : {1, 2}]]
ASSUME NoneAssumption == None \notin Procedure
ASSUME CapacityAssumption == QueueCapacity \in Nat

VARIABLES
  cli,            \* the command line: "idle", "calling" a handler or "waiting" for cmd_ready()
  main,           \* what the main loop is about to do
  procedure,      \* the class of the procedure that exists
  calls,          \* calls of terminate() that are still to come
  holders,        \* the references to the response: "handler", "procedure"
  onClose,        \* the callback of the response: "dummy" or "whenAsyncCommandEnd"
  timeoutHandle,  \* the procedure's handle is not NULL
  timer,          \* the event of the timeout: "none", "waiting" or "expired"
  ahead,          \* the events that are in front of it
  ready,          \* posted events that call cmd_ready()
  others,         \* other posted events: bytes to consume, the BLE stack to run
  operation,      \* the BLE stack holds a callback of the procedure
  stale,          \* classes of deleted procedures it still holds a callback of
  refused,        \* the posts for this command that the full queue refused
  fault           \* what the program did that is undefined, or "no"

queue == <<timer, ahead, ready, others>>
response == <<holders, onClose>>
stack == <<operation, stale>>
vars == <<cli, main, procedure, calls, response, timeoutHandle, queue, stack, refused, fault>>

Init ==
  /\ cli = "idle"
  /\ main = "dispatch"
  /\ procedure = None
  /\ calls = 0
  /\ holders = {}
  /\ onClose = "dummy"
  /\ timeoutHandle = FALSE
  /\ timer = "none"
  /\ ahead = 0
  /\ ready = 0
  /\ others = 0
  /\ operation = FALSE
  /\ stale = {}
  /\ refused = {}
  /\ fault = "no"

-----------------------------------------------------------------------------
(* The event queue                                                         *)

Posted == others + ready + (IF timer = "none" THEN 0 ELSE 1)

Room_OffByOne == Posted <= QueueCapacity  \* mutant: one node too many
Room == Posted < QueueCapacity

(* An event without delay goes in front of those that wait for their time. *)
PassTimer == ahead' = IF timer = "waiting" THEN ahead + 1 ELSE ahead

(* post_in(whenTimeout): NULL when the queue is full.                      *)
PostTimeout ==
  IF Room
  THEN /\ timeoutHandle' = TRUE
       /\ timer' = "waiting"
       /\ ahead' = others + ready
       /\ UNCHANGED refused
  ELSE /\ timeoutHandle' = FALSE
       /\ refused' = refused \cup {"timeout"}
       /\ UNCHANGED <<timer, ahead>>

(* An interrupt handler posts an event.                                    *)
PostOther ==
  /\ fault = "no" /\ main # "hung"
  /\ Room
  /\ others' = others + 1
  /\ PassTimer
  /\ UNCHANGED <<cli, main, procedure, calls, response, timeoutHandle, timer, ready, stack, refused, fault>>

(* The time of the timeout comes.                                          *)
Expire ==
  /\ fault = "no" /\ main # "hung"
  /\ timer = "waiting"
  /\ timer' = "expired"
  /\ UNCHANGED <<cli, main, procedure, calls, response, timeoutHandle, ahead, ready, others, stack, refused, fault>>

(* The main loop takes an event other than the timeout from the head.      *)
TakeEvent ==
  /\ fault = "no" /\ main = "dispatch"
  /\ timer = "expired" => ahead > 0
  /\ ahead' = IF ahead > 0 THEN ahead - 1 ELSE 0
  /\ UNCHANGED timer

(* ... one that leaves commands alone: a byte of a line, a callback of the BLE
   stack that the procedure ignores or only writes to the response.        *)
DispatchOther ==
  /\ TakeEvent
  /\ others > 0
  /\ others' = others - 1
  /\ UNCHANGED <<cli, main, procedure, calls, response, timeoutHandle, ready, stack, refused, fault>>

-----------------------------------------------------------------------------
(* commandHandler(), called from cmd_char_input() or cmd_next()            *)

Call ==
  /\ fault = "no" /\ main = "dispatch"
  /\ cli = "idle"
  /\ cli' = "calling"
  /\ main' = "handler"
  /\ holders' = {"handler"}
  /\ onClose' = "dummy"
  /\ refused' = {}
  /\ UNCHANGED <<procedure, calls, timeoutHandle, queue, stack, fault>>

(* The name or the arguments are wrong, or the command needs no procedure. *)
HandlerAnswers ==
  /\ fault = "no" /\ main = "handler"
  /\ main' = "return"
  /\ UNCHANGED <<cli, procedure, calls, response, timeoutHandle, queue, stack, refused, fault>>

(* startProcedure(), up to the call of doStart().                          *)
StartProcedure(p) ==
  /\ fault = "no" /\ main = "handler"
  /\ procedure' = p
  /\ holders' = holders \cup {"procedure"}
  /\ PostTimeout
  /\ main' = "doStart"
  /\ UNCHANGED <<cli, calls, onClose, ready, others, stack, fault>>

(* doStart() either asks something of the stack, or has failed or finished. *)
DoStart ==
  /\ fault = "no" /\ main = "doStart"
  /\ \E started \in Traits[procedure].starts :
       /\ operation' = started
       /\ calls' = IF started THEN 0 ELSE 1
       /\ main' = IF started THEN "return" ELSE "terminate"
  /\ UNCHANGED <<cli, procedure, response, timeoutHandle, queue, stale, refused, fault>>

(* ~CommandResponse() closes the response that nobody holds any more, and
   whenAsyncCommandEnd() does not look at the result of post().            *)
PostReady ==
  IF Room
  THEN ready' = ready + 1 /\ PassTimer /\ UNCHANGED refused
  ELSE refused' = refused \cup {"cmd_ready"} /\ UNCHANGED <<ready, ahead>>

Close_Always == PostReady  \* mutant: cmd_ready() is called for a command that returned, too
Close_Never == UNCHANGED <<ready, ahead, refused>>  \* mutant: close() forgets its callback
Close ==
  IF onClose = "whenAsyncCommandEnd" THEN PostReady ELSE UNCHANGED <<ready, ahead, refused>>

(* commandHandler() goes on after the handler: the command is done if nobody else
   holds the response, and continues otherwise.                            *)
IsDone_Always == TRUE  \* mutant: the references to the response are not counted
IsDone == Cardinality(holders) = 1

Return ==
  /\ fault = "no" /\ main = "return"
  /\ main' = "dispatch"
  /\ holders' = holders \ {"handler"}
  /\ \/ IsDone /\ cli' = "idle" /\ UNCHANGED onClose /\ Close
     \/ /\ ~IsDone
        /\ onClose' = "whenAsyncCommandEnd"
        /\ cli' = "waiting"
        /\ UNCHANGED <<ready, ahead, refused>>
  /\ UNCHANGED <<procedure, calls, timeoutHandle, timer, others, stack, fault>>

-----------------------------------------------------------------------------
(* The end of a procedure                                                  *)

(* The stack runs and a callback fills the response and calls terminate(). *)
WhenAnswered ==
  /\ TakeEvent
  /\ others > 0
  /\ others' = others - 1
  /\ operation
  /\ Traits[procedure].answers
  /\ operation' = FALSE
  /\ calls' = 1
  /\ main' = "terminate"
  /\ UNCHANGED <<cli, procedure, response, timeoutHandle, ready, stale, refused, fault>>

(* whenTimeout(), called through a pointer to the procedure.               *)
WhenTimeout ==
  /\ fault = "no" /\ main = "dispatch"
  /\ timer = "expired" /\ ahead = 0
  /\ timer' = "none"
  /\ timeoutHandle' = FALSE
  /\ fault' = IF procedure = None THEN "timeout of a deleted procedure" ELSE fault
  /\ calls' = IF procedure = None THEN 0 ELSE Traits[procedure].terminates
  /\ main' = "terminate"
  /\ UNCHANGED <<cli, procedure, response, ahead, ready, others, stack, refused>>

(* ~AsyncProcedure() cancels the timeout: erase() returns only for one of the
   first two events of the queue (EventQueue, Cancel).                     *)
CancelTimeout_Forgotten ==  \* mutant: the timeout is left in the queue
  UNCHANGED <<timer, ahead>> /\ timeoutHandle' = FALSE /\ main' = "release"
CancelTimeout ==
  /\ timeoutHandle' = FALSE
  /\ \/ /\ ~timeoutHandle
        /\ main' = "release"
        /\ UNCHANGED <<timer, ahead>>
     \/ /\ timeoutHandle /\ timer # "none" /\ ahead <= 1
        /\ timer' = "none"
        /\ ahead' = 0
        /\ main' = "release"
     \/ /\ timeoutHandle /\ timer # "none" /\ ahead > 1
        /\ main' = "hung"
        /\ UNCHANGED <<timer, ahead>>

(* terminate(): the destructors, up to the one of the response.            *)
Terminate ==
  /\ fault = "no" /\ main = "terminate"
  /\ \/ /\ procedure = None
        /\ fault' = "procedure deleted twice"
        /\ UNCHANGED <<main, procedure, timeoutHandle, timer, ahead, stack>>
     \/ /\ procedure # None
        /\ procedure' = None
        /\ operation' = FALSE
        /\ stale' = IF operation /\ ~Traits[procedure].detaches
                    THEN stale \cup {procedure} ELSE stale
        /\ CancelTimeout
        /\ UNCHANGED fault
  /\ UNCHANGED <<cli, calls, response, ready, others, refused>>

(* The destructor of AsyncProcedure::response.                             *)
ReleaseResponse ==
  /\ fault = "no" /\ main = "release"
  /\ holders' = holders \ {"procedure"}
  /\ IF holders' = {} THEN Close ELSE UNCHANGED <<ready, ahead, refused>>
  /\ calls' = calls - 1
  /\ main' = IF calls > 1 THEN "terminate"
             ELSE IF "handler" \in holders THEN "return" ELSE "dispatch"
  /\ UNCHANGED <<cli, procedure, onClose, timeoutHandle, timer, others, stack, fault>>

(* cmd_ready() ends in cmd_next().                                         *)
DispatchReady ==
  /\ TakeEvent
  /\ ready > 0
  /\ ready' = ready - 1
  /\ cli' = "idle"
  /\ UNCHANGED <<main, procedure, calls, response, timeoutHandle, others, stack, refused, fault>>

(* The stack calls back a procedure that does not exist any more.          *)
LateAnswer ==
  /\ TakeEvent
  /\ others > 0
  /\ others' = others - 1
  /\ stale # {}
  /\ fault' = "callback of a deleted procedure"
  /\ UNCHANGED <<cli, main, procedure, calls, response, timeoutHandle, ready, stack, refused>>

(* After undefined behaviour nothing is known, and cancel() may not return. *)
Stopped == (fault # "no" \/ main = "hung") /\ UNCHANGED vars

HandlerStep == HandlerAnswers \/ (\E p \in Procedure : StartProcedure(p)) \/ DoStart \/ Return

Next ==
  \/ PostOther \/ Expire \/ DispatchOther
  \/ Call \/ HandlerStep
  \/ WhenAnswered \/ WhenTimeout \/ Terminate \/ ReleaseResponse
  \/ DispatchReady \/ LateAnswer
  \/ Stopped

Spec == Init /\ [][Next]_vars

(* The main loop runs, and an event whose time has come is dispatched
   (EventQueue, ReadyRuns and WaitingEnds).  The stack need not call back.  *)
FairSpec ==
  /\ Spec
  /\ WF_vars(HandlerStep) /\ WF_vars(Terminate) /\ WF_vars(ReleaseResponse)
  /\ WF_vars(Expire) /\ WF_vars(WhenTimeout)
  /\ WF_vars(DispatchOther) /\ WF_vars(DispatchReady)

-----------------------------------------------------------------------------
QueueOK ==
  /\ timer \in {"none", "waiting", "expired"}
  /\ ready \in Nat
  /\ others \in Nat
  /\ ahead \in 0 .. others + ready
  /\ Posted <= QueueCapacity

CommandOK ==
  /\ cli \in {"idle", "calling", "waiting"}
  /\ main \in {"dispatch", "handler", "doStart", "return", "terminate", "release", "hung"}
  /\ procedure \in Procedure \cup {None}
  /\ holders \subseteq {"handler", "procedure"}
  /\ onClose \in {"dummy", "whenAsyncCommandEnd"}
  /\ stale \subseteq Procedure
  /\ refused \subseteq {"timeout", "cmd_ready"}
  /\ fault \in {"no", "procedure deleted twice", "timeout of a deleted procedure",
               "callback of a deleted procedure"}

FlagsOK == timeoutHandle \in BOOLEAN /\ operation \in BOOLEAN

(* The queue keeps its capacity, and terminate() is called twice at most.  *)
TypeOK == QueueOK /\ calls \in 0 .. 2 /\ CommandOK /\ FlagsOK

(* "as long as the response exist in the system others command will be
   rejected" (Command.h:93): while a handler or a procedure holds the response,
   or its cmd_ready() is on the way, the command line does not call another
   command, so there is one procedure at most.                             *)
OneCommandAtATime ==
  /\ holders # {} \/ ready > 0 \/ procedure # None => cli # "idle"
  /\ ready <= 1
  /\ ready > 0 => holders = {} /\ procedure = None

(* The timeout that is posted, the handle that cancels it and the procedure it
   is for belong together, across timeouts that fire, are cancelled, or could
   not be posted: no timeout is left for a procedure that was deleted.     *)
TimeoutIsOwned ==
  /\ timer # "none" /\ main # "hung" => procedure # None
  /\ main # "hung" => (timeoutHandle <=> timer # "none")

(* No callback and no timeout reaches a procedure that was deleted, and none is
   deleted twice.                                                          *)
NothingUndefined == fault = "no"

(* cmd_ready() will not be called for the command the command line waits for. *)
Forgotten == cli = "waiting" /\ ("cmd_ready" \in refused \/ main = "hung")

(* The command line gets the one answer it is promised: a command that is called
   returns, or calls cmd_ready() exactly once and only after it has told that it
   will; or it is forgotten.                                               *)
Phase ==
  IF cli = "waiting" /\ ready = 1 THEN "answered"
  ELSE IF Forgotten THEN "forgotten"
  ELSE IF ready = 0 THEN cli
  ELSE "confused"

Promise == INSTANCE CommandLine WITH phase <- Phase

KeepsPromise == Promise!Spec

(* A command ends, unless the queue had no room for its timeout or its
   cmd_ready(), or cancel() does not return.                               *)
CommandEnds == cli # "idle" ~> (cli = "idle" \/ refused # {} \/ main = "hung")

(* "do **not** call terminate in this function. It is automatically done by the
   system." (AsyncProcedure.h:115)                                         *)
DeletedOnce == fault # "procedure deleted twice"
=============================================================================
