----------------------- MODULE CommandExecutionProofs -----------------------
(***************************************************************************)
(* What holds of CommandExecution for every set of procedures and every    *)
(* capacity of the event queue.  Everything rests on one inductive         *)
(* invariant: what the main loop is about to do determines who exists, who *)
(* holds the response and what the command line waits for.                 *)
(***************************************************************************)
EXTENDS CommandExecution, FiniteSetTheorems, TLAPS

(* Where the main loop is, what the command line does and whether there is a
   procedure.                                                              *)
Control ==
  /\ main \in {"handler", "doStart", "return"} => cli = "calling"
  /\ main = "dispatch" => cli # "calling"
  /\ main \in {"terminate", "release", "hung"} => cli # "idle"
  /\ cli = "idle" => procedure = None
  /\ main = "doStart" => procedure # None
  /\ main \in {"handler", "release", "hung"} => procedure = None
  /\ main \in {"terminate", "release"} => calls > 0
  /\ main \in {"dispatch", "handler", "doStart", "return"} => calls = 0
  /\ main = "terminate" /\ procedure = None => cli = "waiting"
  /\ calls = 2 => cli = "waiting"

(* Who holds the response, and what happens when nobody does.              *)
Held ==
  /\ "handler" \in holders <=> cli = "calling"
  /\ "procedure" \in holders <=> procedure # None \/ main \in {"release", "hung"}
  /\ cli = "waiting" => onClose = "whenAsyncCommandEnd"
  /\ cli = "calling" => onClose = "dummy"

(* cmd_ready() is posted once, or refused, for a response that nobody holds. *)
AnsweredOnce ==
  /\ ready \in {0, 1}
  /\ ready = 1 => cli = "waiting" /\ holders = {}
  /\ "cmd_ready" \in refused => cli = "waiting" /\ holders = {} /\ ready = 0
  /\ cli = "waiting" /\ holders = {} => ready = 1 \/ "cmd_ready" \in refused

(* What belongs to the procedure: the timeout and the callbacks of the stack. *)
Owned ==
  /\ TimeoutIsOwned
  /\ operation => procedure # None

NothingAhead == timer = "none" => ahead = 0

IInv == TypeOK /\ Control /\ Held /\ AnsweredOnce /\ Owned /\ NothingAhead

-----------------------------------------------------------------------------
(* use_count() is 1 while the handler is the only one to hold the response. *)
LEMMA Counted ==
  ASSUME holders \subseteq {"handler", "procedure"}, "handler" \in holders
  PROVE  IsDone <=> "procedure" \notin holders
  <1>1. Cardinality({"handler"}) = 1 /\ IsFiniteSet({"handler"})
    BY FS_Singleton
  <1>2. Cardinality({"handler"} \cup {"procedure"}) = 2
    BY <1>1, FS_AddElement
  <1>3. CASE "procedure" \in holders
    <2>1. holders = {"handler"} \cup {"procedure"}
      BY <1>3
    <2> QED BY <1>2, <1>3, <2>1 DEF IsDone
  <1>4. CASE "procedure" \notin holders
    <2>1. holders = {"handler"}
      BY <1>4
    <2> QED BY <1>1, <1>4, <2>1 DEF IsDone
  <1> QED BY <1>3, <1>4

(* An event is taken from the head of the queue, or the timeout is cancelled: the
   queue stays as it should be.                                            *)
LEMMA Taken ==
  ASSUME QueueOK, NothingAhead, others > 0, others' = others - 1, UNCHANGED <<timer, ready>>,
         timer = "expired" => ahead > 0,
         ahead' = IF ahead > 0 THEN ahead - 1 ELSE 0
  PROVE  QueueOK' /\ NothingAhead'
  BY CapacityAssumption DEF QueueOK, Posted, NothingAhead

LEMMA Cancelled ==
  ASSUME QueueOK, NothingAhead, UNCHANGED <<ready, others>>,
         \/ UNCHANGED <<timer, ahead>>
         \/ timer # "none" /\ timer' = "none" /\ ahead' = 0
  PROVE  QueueOK' /\ NothingAhead'
  BY CapacityAssumption DEF QueueOK, Posted, NothingAhead

LEMMA Fired ==
  ASSUME QueueOK, timer = "expired", ahead = 0, timer' = "none", UNCHANGED <<ahead, ready, others>>
  PROVE  QueueOK' /\ NothingAhead'
  BY CapacityAssumption DEF QueueOK, Posted, NothingAhead

LEMMA Terminations == ASSUME NEW p \in Procedure PROVE Traits[p].terminates \in {1, 2}
  BY TraitsAssumption

LEMMA InitInv == Init => IInv
  <1> SUFFICES ASSUME Init PROVE IInv
    OBVIOUS
  <1>1. QueueOK /\ NothingAhead
    BY CapacityAssumption DEF Init, QueueOK, Posted, NothingAhead
  <1>2. CommandOK /\ calls \in 0 .. 2
    BY DEF Init, CommandOK
  <1>3. FlagsOK /\ Owned
    BY DEF Init, FlagsOK, Owned, TimeoutIsOwned
  <1>4. Control /\ Held /\ AnsweredOnce
    BY DEF Init, Control, Held, AnsweredOnce
  <1> QED BY <1>1, <1>2, <1>3, <1>4 DEF IInv, TypeOK

LEMMA PostOtherStep == ASSUME IInv, PostOther PROVE IInv'
  <1> USE DEF PostOther, Room, PassTimer, IInv, TypeOK, queue, response, stack
  <1>1. QueueOK' /\ NothingAhead'
    BY CapacityAssumption DEF QueueOK, Posted, NothingAhead
  <1>2. (calls \in 0 .. 2)'
    BY DEF Control
  <1>3. CommandOK'
    BY DEF CommandOK, Control
  <1>4. FlagsOK'
    BY DEF FlagsOK
  <1>5. Control'
    BY DEF CommandOK, Control, Held, AnsweredOnce
  <1>6. Held'
    BY DEF CommandOK, Control, Held, AnsweredOnce
  <1>7. AnsweredOnce'
    BY DEF QueueOK, Posted, CommandOK, Control, Held, AnsweredOnce
  <1>8. Owned'
    BY DEF Owned, TimeoutIsOwned, FlagsOK, Control, Held
  <1> QED BY <1>1, <1>2, <1>3, <1>4, <1>5, <1>6, <1>7, <1>8

LEMMA ExpireStep == ASSUME IInv, Expire PROVE IInv'
  <1> USE DEF Expire, IInv, TypeOK, queue, response, stack
  <1>1. QueueOK' /\ NothingAhead'
    BY CapacityAssumption DEF QueueOK, Posted, NothingAhead
  <1>2. (calls \in 0 .. 2)'
    BY DEF Control
  <1>3. CommandOK'
    BY DEF CommandOK, Control
  <1>4. FlagsOK'
    BY DEF FlagsOK
  <1>5. Control'
    BY DEF CommandOK, Control, Held, AnsweredOnce
  <1>6. Held'
    BY DEF CommandOK, Control, Held, AnsweredOnce
  <1>7. AnsweredOnce'
    BY DEF QueueOK, Posted, CommandOK, Control, Held, AnsweredOnce
  <1>8. Owned'
    BY DEF Owned, TimeoutIsOwned, FlagsOK, Control, Held
  <1> QED BY <1>1, <1>2, <1>3, <1>4, <1>5, <1>6, <1>7, <1>8

LEMMA DispatchOtherStep == ASSUME IInv, DispatchOther PROVE IInv'
  <1> USE DEF DispatchOther, TakeEvent, IInv, TypeOK, queue, response, stack
  <1>1. QueueOK' /\ NothingAhead'
    BY Taken
  <1>2. (calls \in 0 .. 2)'
    BY DEF Control
  <1>3. CommandOK'
    BY DEF CommandOK, Control
  <1>4. FlagsOK'
    BY DEF FlagsOK
  <1>5. Control'
    BY DEF CommandOK, Control, Held, AnsweredOnce
  <1>6. Held'
    BY DEF CommandOK, Control, Held, AnsweredOnce
  <1>7. AnsweredOnce'
    BY DEF QueueOK, Posted, CommandOK, Control, Held, AnsweredOnce
  <1>8. Owned'
    BY DEF Owned, TimeoutIsOwned, FlagsOK, Control, Held
  <1> QED BY <1>1, <1>2, <1>3, <1>4, <1>5, <1>6, <1>7, <1>8

LEMMA LateAnswerStep == ASSUME IInv, LateAnswer PROVE IInv'
  <1> USE DEF LateAnswer, TakeEvent, IInv, TypeOK, queue, response, stack
  <1>1. QueueOK' /\ NothingAhead'
    BY Taken
  <1>2. (calls \in 0 .. 2)'
    BY DEF Control
  <1>3. CommandOK'
    BY DEF CommandOK, Control
  <1>4. FlagsOK'
    BY DEF FlagsOK
  <1>5. Control'
    BY DEF CommandOK, Control, Held, AnsweredOnce
  <1>6. Held'
    BY DEF CommandOK, Control, Held, AnsweredOnce
  <1>7. AnsweredOnce'
    BY DEF QueueOK, Posted, CommandOK, Control, Held, AnsweredOnce
  <1>8. Owned'
    BY DEF Owned, TimeoutIsOwned, FlagsOK, Control, Held
  <1> QED BY <1>1, <1>2, <1>3, <1>4, <1>5, <1>6, <1>7, <1>8

LEMMA CallStep == ASSUME IInv, Call PROVE IInv'
  <1> USE DEF Call, IInv, TypeOK, queue, response, stack
  <1>1. QueueOK' /\ NothingAhead'
    BY CapacityAssumption DEF QueueOK, Posted, NothingAhead
  <1>2. (calls \in 0 .. 2)'
    BY DEF Control
  <1>3. CommandOK'
    BY DEF CommandOK, Control
  <1>4. FlagsOK'
    BY DEF FlagsOK
  <1>5. Control'
    BY DEF CommandOK, Control, Held, AnsweredOnce
  <1>6. Held'
    BY DEF CommandOK, Control, Held, AnsweredOnce
  <1>7. AnsweredOnce'
    BY DEF QueueOK, Posted, CommandOK, Control, Held, AnsweredOnce
  <1>8. Owned'
    BY DEF Owned, TimeoutIsOwned, FlagsOK, Control, Held
  <1> QED BY <1>1, <1>2, <1>3, <1>4, <1>5, <1>6, <1>7, <1>8

LEMMA HandlerAnswersStep == ASSUME IInv, HandlerAnswers PROVE IInv'
  <1> USE DEF HandlerAnswers, IInv, TypeOK, queue, response, stack
  <1>1. QueueOK' /\ NothingAhead'
    BY CapacityAssumption DEF QueueOK, Posted, NothingAhead
  <1>2. (calls \in 0 .. 2)'
    BY DEF Control
  <1>3. CommandOK'
    BY DEF CommandOK, Control
  <1>4. FlagsOK'
    BY DEF FlagsOK
  <1>5. Control'
    BY DEF CommandOK, Control, Held, AnsweredOnce
  <1>6. Held'
    BY DEF CommandOK, Control, Held, AnsweredOnce
  <1>7. AnsweredOnce'
    BY DEF QueueOK, Posted, CommandOK, Control, Held, AnsweredOnce
  <1>8. Owned'
    BY DEF Owned, TimeoutIsOwned, FlagsOK, Control, Held
  <1> QED BY <1>1, <1>2, <1>3, <1>4, <1>5, <1>6, <1>7, <1>8

LEMMA StartProcedureStep == ASSUME NEW p \in Procedure, IInv, StartProcedure(p) PROVE IInv'
  <1> USE NoneAssumption DEF StartProcedure, PostTimeout, Room, IInv, TypeOK, queue, response, stack
  <1>1. QueueOK' /\ NothingAhead'
    BY CapacityAssumption DEF QueueOK, Posted, NothingAhead
  <1>2. (calls \in 0 .. 2)'
    BY DEF Control
  <1>3. CommandOK'
    BY DEF CommandOK, Control
  <1>4. FlagsOK'
    BY DEF FlagsOK
  <1>5. Control'
    BY DEF CommandOK, Control, Held, AnsweredOnce
  <1>6. Held'
    BY DEF CommandOK, Control, Held, AnsweredOnce
  <1>7. AnsweredOnce'
    BY DEF QueueOK, Posted, CommandOK, Control, Held, AnsweredOnce
  <1>8. Owned'
    BY DEF Owned, TimeoutIsOwned, FlagsOK, Control, Held
  <1> QED BY <1>1, <1>2, <1>3, <1>4, <1>5, <1>6, <1>7, <1>8

LEMMA DoStartStep == ASSUME IInv, DoStart PROVE IInv'
  <1> USE DEF DoStart, IInv, TypeOK, queue, response, stack
  <1>1. QueueOK' /\ NothingAhead'
    BY CapacityAssumption DEF QueueOK, Posted, NothingAhead
  <1>2. (calls \in 0 .. 2)'
    BY DEF Control
  <1>3. CommandOK'
    BY DEF CommandOK, Control
  <1>4. FlagsOK'
    <2>1. procedure \in Procedure
      BY DEF CommandOK, Control
    <2>2. Traits[procedure].starts \in SUBSET BOOLEAN
      BY <2>1, TraitsAssumption
    <2>3. operation' \in BOOLEAN
      BY <2>2
    <2> QED BY <2>3 DEF FlagsOK
  <1>5. Control'
    BY DEF CommandOK, Control, Held, AnsweredOnce
  <1>6. Held'
    BY DEF CommandOK, Control, Held, AnsweredOnce
  <1>7. AnsweredOnce'
    BY DEF QueueOK, Posted, CommandOK, Control, Held, AnsweredOnce
  <1>8. Owned'
    BY DEF Owned, TimeoutIsOwned, FlagsOK, Control, Held
  <1> QED BY <1>1, <1>2, <1>3, <1>4, <1>5, <1>6, <1>7, <1>8

LEMMA ReturnStep == ASSUME IInv, Return PROVE IInv'
  <1> USE Counted DEF Return, Close, PostReady, Room, PassTimer, IInv, TypeOK, queue, response, stack
  <1>1. QueueOK' /\ NothingAhead'
    BY CapacityAssumption DEF QueueOK, Posted, NothingAhead
  <1>2. (calls \in 0 .. 2)'
    BY DEF Control
  <1>3. CommandOK'
    BY DEF CommandOK, Control
  <1>4. FlagsOK'
    BY DEF FlagsOK
  <1>5. Control'
    BY DEF CommandOK, Control, Held, AnsweredOnce
  <1>6. Held'
    BY DEF CommandOK, Control, Held, AnsweredOnce
  <1>7. AnsweredOnce'
    BY DEF QueueOK, Posted, CommandOK, Control, Held, AnsweredOnce
  <1>8. Owned'
    BY DEF Owned, TimeoutIsOwned, FlagsOK, Control, Held
  <1> QED BY <1>1, <1>2, <1>3, <1>4, <1>5, <1>6, <1>7, <1>8

LEMMA WhenAnsweredStep == ASSUME IInv, WhenAnswered PROVE IInv'
  <1> USE DEF WhenAnswered, TakeEvent, IInv, TypeOK, queue, response, stack
  <1>1. QueueOK' /\ NothingAhead'
    BY Taken
  <1>2. (calls \in 0 .. 2)'
    BY DEF Control
  <1>3. CommandOK'
    BY DEF CommandOK, Control
  <1>4. FlagsOK'
    BY DEF FlagsOK
  <1>5. Control'
    <2>1. procedure # None
      BY DEF Owned
    <2>2. main' = "terminate" /\ calls' = 1 /\ UNCHANGED <<cli, procedure>> /\ main = "dispatch"
      OBVIOUS
    <2> QED BY <2>1, <2>2 DEF Control, CommandOK
  <1>6. Held'
    BY DEF CommandOK, Control, Held, AnsweredOnce
  <1>7. AnsweredOnce'
    BY DEF QueueOK, Posted, CommandOK, Control, Held, AnsweredOnce
  <1>8. Owned'
    BY DEF Owned, TimeoutIsOwned, FlagsOK, Control, Held
  <1> QED BY <1>1, <1>2, <1>3, <1>4, <1>5, <1>6, <1>7, <1>8

LEMMA WhenTimeoutStep == ASSUME IInv, WhenTimeout PROVE IInv'
  <1> USE DEF WhenTimeout, IInv, TypeOK, queue, response, stack
  <1>1. QueueOK' /\ NothingAhead'
    BY Fired
  <1>2. (calls \in 0 .. 2)'
    <2>1. procedure \in Procedure /\ procedure # None
      BY NoneAssumption DEF Owned, TimeoutIsOwned, CommandOK
    <2>2. calls' = Traits[procedure].terminates
      BY <2>1
    <2>3. calls' \in {1, 2}
      BY ONLY <2>1, <2>2, Terminations
    <2> QED BY ONLY <2>3
  <1>3. CommandOK'
    BY DEF CommandOK, Control
  <1>4. FlagsOK'
    BY DEF FlagsOK
  <1>5. Control'
    <2>1. procedure \in Procedure
      BY DEF Owned, TimeoutIsOwned, CommandOK
    <2>2. calls' \in {1, 2}
      BY <2>1, NoneAssumption, Terminations
    <2>3. main' = "terminate" /\ UNCHANGED <<cli, procedure>> /\ main = "dispatch" /\ procedure # None
      BY <2>1, NoneAssumption
    <2> QED BY <2>2, <2>3 DEF Control, CommandOK
  <1>6. Held'
    BY DEF CommandOK, Control, Held, AnsweredOnce
  <1>7. AnsweredOnce'
    BY DEF QueueOK, Posted, CommandOK, Control, Held, AnsweredOnce
  <1>8. Owned'
    BY DEF Owned, TimeoutIsOwned, FlagsOK, Control, Held
  <1> QED BY <1>1, <1>2, <1>3, <1>4, <1>5, <1>6, <1>7, <1>8

LEMMA TerminateStep == ASSUME IInv, Terminate PROVE IInv'
  <1> USE DEF Terminate, CancelTimeout, IInv, TypeOK, queue, response, stack
  <1>1. QueueOK' /\ NothingAhead'
    BY Cancelled
  <1>2. (calls \in 0 .. 2)'
    BY DEF Control
  <1>3. CommandOK'
    BY DEF CommandOK, Control
  <1>4. FlagsOK'
    BY DEF FlagsOK
  <1>5. Control'
    BY DEF CommandOK, Control, Held, AnsweredOnce
  <1>6. Held'
    BY DEF CommandOK, Control, Held, AnsweredOnce
  <1>7. AnsweredOnce'
    BY DEF QueueOK, Posted, CommandOK, Control, Held, AnsweredOnce
  <1>8. Owned'
    <2>1. operation' => procedure' # None
      BY DEF Owned
    <2>2. CASE procedure = None
      <3>1. UNCHANGED <<timeoutHandle, timer, main, procedure, operation>>
        BY <2>2
      <3>2. Owned
        OBVIOUS
      <3> QED BY ONLY <3>1, <3>2 DEF Owned, TimeoutIsOwned
    <2>3. CASE procedure # None
      <3>1. timeoutHandle' = FALSE /\ (main' # "hung" => timer' = "none")
        BY <2>3 DEF Owned, TimeoutIsOwned
      <3> QED BY <2>1, <3>1 DEF Owned, TimeoutIsOwned
    <2> QED BY <2>2, <2>3
  <1> QED BY <1>1, <1>2, <1>3, <1>4, <1>5, <1>6, <1>7, <1>8

LEMMA ReleaseResponseStep == ASSUME IInv, ReleaseResponse PROVE IInv'
  <1> USE DEF ReleaseResponse, Close, PostReady, Room, PassTimer, IInv, TypeOK, queue, response, stack
  <1>1. QueueOK' /\ NothingAhead'
    BY CapacityAssumption DEF QueueOK, Posted, NothingAhead
  <1>2. (calls \in 0 .. 2)'
    BY DEF Control
  <1>3. CommandOK'
    BY DEF CommandOK, Control
  <1>4. FlagsOK'
    BY DEF FlagsOK
  <1>5. Control'
    BY DEF CommandOK, Control, Held, AnsweredOnce
  <1>6. Held'
    BY DEF CommandOK, Control, Held, AnsweredOnce
  <1>7. AnsweredOnce'
    BY DEF QueueOK, Posted, CommandOK, Control, Held, AnsweredOnce
  <1>8. Owned'
    BY DEF Owned, TimeoutIsOwned, FlagsOK, Control, Held
  <1> QED BY <1>1, <1>2, <1>3, <1>4, <1>5, <1>6, <1>7, <1>8

LEMMA DispatchReadyStep == ASSUME IInv, DispatchReady PROVE IInv'
  <1> USE DEF DispatchReady, TakeEvent, IInv, TypeOK, queue, response, stack
  <1>1. QueueOK' /\ NothingAhead'
    BY CapacityAssumption DEF QueueOK, Posted, NothingAhead
  <1>2. (calls \in 0 .. 2)'
    BY DEF Control
  <1>3. CommandOK'
    BY DEF CommandOK, Control
  <1>4. FlagsOK'
    BY DEF FlagsOK
  <1>5. Control'
    BY DEF CommandOK, Control, Held, AnsweredOnce
  <1>6. Held'
    BY DEF CommandOK, Control, Held, AnsweredOnce
  <1>7. AnsweredOnce'
    BY DEF QueueOK, Posted, CommandOK, Control, Held, AnsweredOnce
  <1>8. Owned'
    BY DEF Owned, TimeoutIsOwned, FlagsOK, Control, Held
  <1> QED BY <1>1, <1>2, <1>3, <1>4, <1>5, <1>6, <1>7, <1>8

LEMMA StoppedStep == ASSUME IInv, UNCHANGED vars PROVE IInv'
  <1> USE DEF vars, queue, response, stack, IInv, TypeOK
  <1>1. QueueOK' /\ NothingAhead'
    BY DEF QueueOK, Posted, NothingAhead
  <1>2. CommandOK' /\ FlagsOK' /\ (calls \in 0 .. 2)'
    BY DEF CommandOK, FlagsOK
  <1>3. Control' /\ Held' /\ AnsweredOnce'
    BY DEF Control, Held, AnsweredOnce
  <1>4. Owned'
    BY DEF Owned, TimeoutIsOwned
  <1> QED BY <1>1, <1>2, <1>3, <1>4

LEMMA StepInv == IInv /\ [Next]_vars => IInv'
  <1> SUFFICES ASSUME IInv, [Next]_vars PROVE IInv'
    OBVIOUS
  <1>1. CASE UNCHANGED vars
    BY <1>1, StoppedStep
  <1>2. CASE PostOther \/ Expire \/ DispatchOther
    BY <1>2, PostOtherStep, ExpireStep, DispatchOtherStep
  <1>3. CASE Call \/ HandlerStep
    BY <1>3, CallStep, HandlerAnswersStep, StartProcedureStep, DoStartStep, ReturnStep DEF HandlerStep
  <1>4. CASE WhenAnswered \/ WhenTimeout \/ Terminate \/ ReleaseResponse
    BY <1>4, WhenAnsweredStep, WhenTimeoutStep, TerminateStep, ReleaseResponseStep
  <1>5. CASE DispatchReady \/ LateAnswer
    BY <1>5, DispatchReadyStep, LateAnswerStep
  <1> QED BY <1>1, <1>2, <1>3, <1>4, <1>5 DEF Next, Stopped

LEMMA Invariant == Spec => []IInv
  BY InitInv, StepInv, PTL DEF Spec

-----------------------------------------------------------------------------
(* The event queue keeps its capacity, and no procedure is terminated more than
   twice, whatever the procedures do and interrupts post.                  *)
THEOREM TypeCorrect == Spec => []TypeOK
  <1>1. IInv => TypeOK
    BY DEF IInv
  <1> QED BY <1>1, Invariant, PTL

(* The command line does not call a command while the response of another exists
   or its cmd_ready() is on the way.                                       *)
THEOREM OneCommand == Spec => []OneCommandAtATime
  <1>1. IInv => OneCommandAtATime
    <2> SUFFICES ASSUME IInv PROVE OneCommandAtATime
      OBVIOUS
    <2>1. holders # {} => cli # "idle"
      BY DEF IInv, TypeOK, CommandOK, Held, Control
    <2>2. procedure # None => cli # "idle"
      BY DEF IInv, Control
    <2>3. ready > 0 => ready = 1
      BY DEF IInv, AnsweredOnce
    <2>4. ready <= 1
      BY DEF IInv, AnsweredOnce
    <2>5. ready = 1 => cli # "idle" /\ holders = {} /\ procedure = None
      BY DEF IInv, AnsweredOnce, Held
    <2> QED BY <2>1, <2>2, <2>3, <2>4, <2>5 DEF OneCommandAtATime
  <1> QED BY <1>1, Invariant, PTL

(* No timeout is left in the queue for a procedure that was deleted, and the handle
   is NULL exactly when there is no timeout.                               *)
THEOREM TimeoutOwned == Spec => []TimeoutIsOwned
  <1>1. IInv => TimeoutIsOwned
    BY DEF IInv, Owned
  <1> QED BY <1>1, Invariant, PTL

-----------------------------------------------------------------------------
(* The contract of AsyncProcedure: the destructor of a procedure takes its callbacks
   back, and doWhenTimeout() does not call terminate().                    *)
Contract == \A p \in Procedure : Traits[p].detaches /\ Traits[p].terminates = 1

Sound ==
  /\ NothingUndefined
  /\ stale = {}
  /\ calls # 2
  /\ main = "terminate" => procedure # None

LEMMA SoundStep == ASSUME Contract, IInv, Sound, [Next]_vars PROVE Sound'
  <1> USE DEF Sound, NothingUndefined
  <1>1. CASE UNCHANGED vars
    BY <1>1 DEF vars, queue, response, stack
  <1>2. CASE PostOther \/ Expire \/ DispatchOther
    BY <1>2 DEF PostOther, Expire, DispatchOther, TakeEvent, response, stack
  <1>3. CASE Call \/ HandlerAnswers \/ Return
    BY <1>3 DEF Call, HandlerAnswers, Return, response, stack
  <1>4. ASSUME NEW p \in Procedure, StartProcedure(p) PROVE Sound'
    BY <1>4 DEF StartProcedure, stack
  <1>5. CASE DoStart
    BY <1>5 DEF DoStart, IInv, Control
  <1>6. CASE WhenAnswered
    BY <1>6 DEF WhenAnswered, TakeEvent, IInv, Owned
  <1>7. CASE WhenTimeout
    <2>1. procedure \in Procedure
      BY <1>7 DEF WhenTimeout, IInv, TypeOK, CommandOK, Owned, TimeoutIsOwned
    <2>2. procedure # None /\ Traits[procedure].terminates = 1
      BY <2>1, NoneAssumption DEF Contract
    <2>3. calls' = 1 /\ UNCHANGED <<fault, procedure, stale>>
      BY ONLY <1>7, <2>2 DEF WhenTimeout, stack
    <2> QED BY ONLY <2>2, <2>3, Sound DEF Sound, NothingUndefined
  <1>8. CASE Terminate
    <2>1. procedure \in Procedure
      BY <1>8 DEF Terminate, IInv, TypeOK, CommandOK
    <2>2. procedure # None /\ Traits[procedure].detaches
      BY <2>1, NoneAssumption DEF Contract
    <2>3. UNCHANGED <<fault, calls, stale>>
      BY ONLY <1>8, <2>2 DEF Terminate
    <2>4. main' # "terminate"
      BY <1>8, <2>2 DEF Terminate, CancelTimeout
    <2> QED BY ONLY <2>3, <2>4, Sound DEF Sound, NothingUndefined
  <1>9. CASE ReleaseResponse
    <2>1. calls = 1
      BY <1>9 DEF ReleaseResponse, IInv, TypeOK, Control
    <2>2. calls' = 0 /\ main' # "terminate" /\ UNCHANGED <<fault, stale>>
      BY ONLY <1>9, <2>1 DEF ReleaseResponse, stack
    <2> QED BY ONLY <2>2, Sound DEF Sound, NothingUndefined
  <1>10. CASE DispatchReady
    BY <1>10 DEF DispatchReady, TakeEvent, response, stack
  <1>11. ~LateAnswer
    BY DEF LateAnswer
  <1> QED
    BY <1>1, <1>2, <1>3, <1>4, <1>5, <1>6, <1>7, <1>8, <1>9, <1>10, <1>11 DEF Next, HandlerStep, Stopped

(* When every procedure keeps the contract of AsyncProcedure nothing undefined
   happens: no callback and no timeout reaches a deleted procedure, and none is
   deleted twice, even when the queue was too full for a timeout.          *)
THEOREM ContractSuffices == ASSUME Contract PROVE Spec => []NothingUndefined
  <1>1. Init => Sound
    BY DEF Init, Sound, NothingUndefined
  <1>2. IInv /\ Sound /\ [Next]_vars => Sound'
    BY SoundStep
  <1>3. Sound => NothingUndefined
    BY DEF Sound
  <1> QED BY <1>1, <1>2, <1>3, Invariant, PTL DEF Spec

-----------------------------------------------------------------------------
(* The steps of the promise that the steps of the program take.            *)

LEMMA SamePhase ==
  ASSUME UNCHANGED <<cli, ready>>, main # "hung", main' # "hung",
         "cmd_ready" \in refused' <=> "cmd_ready" \in refused
  PROVE  Phase' = Phase
  BY DEF Phase, Forgotten

LEMMA PhaseOfCall == ASSUME IInv, Call PROVE Promise!Call
  <1>1. ready = 0 /\ cli = "idle" /\ cli' = "calling" /\ ready' = 0
    BY DEF IInv, AnsweredOnce, Call, queue
  <1> QED BY ONLY <1>1 DEF Phase, Forgotten, Promise!Call

LEMMA PhaseOfReturn == ASSUME IInv, Return PROVE Promise!Return \/ Promise!Continue
  <1>1. cli = "calling" /\ main' = "dispatch"
    BY DEF IInv, Control, Return
  <1>2. ready = 0 /\ "cmd_ready" \notin refused
    BY <1>1 DEF IInv, AnsweredOnce
  <1>3. Phase = "calling"
    BY ONLY <1>1, <1>2 DEF Phase, Forgotten
  <1>4. CASE cli' = "waiting"
    <2>1. UNCHANGED <<ready, refused>>
      BY <1>4 DEF Return
    <2> QED BY ONLY <1>1, <1>2, <1>3, <1>4, <2>1 DEF Phase, Forgotten, Promise!Continue
  <1>5. CASE cli' = "idle"
    <2>1. onClose = "dummy"
      BY <1>1 DEF IInv, Held
    <2>2. ready' = ready
      BY <1>5, <2>1 DEF Return, Close
    <2> QED BY ONLY <1>2, <1>3, <1>5, <2>2 DEF Phase, Forgotten, Promise!Return
  <1> QED BY <1>4, <1>5 DEF Return

LEMMA PhaseOfTerminate == ASSUME IInv, Terminate PROVE Promise!GiveUp \/ Phase' = Phase
  <1>1. UNCHANGED <<cli, ready, refused>> /\ main # "hung"
    BY DEF Terminate
  <1>2. CASE main' # "hung"
    BY <1>1, <1>2, SamePhase
  <1>3. CASE main' = "hung"
    <2>1. procedure # None
      BY <1>1, <1>3 DEF Terminate
    <2>2. holders # {} /\ cli # "idle"
      BY <2>1 DEF IInv, Held, Control
    <2>3. ready = 0 /\ "cmd_ready" \notin refused
      BY <2>2 DEF IInv, AnsweredOnce
    <2>4. cli \in {"calling", "waiting"}
      BY <2>2 DEF IInv, TypeOK, CommandOK
    <2> QED BY ONLY <1>1, <1>3, <2>3, <2>4 DEF Phase, Forgotten, Promise!GiveUp
  <1> QED BY <1>2, <1>3

LEMMA PhaseOfRelease ==
  ASSUME IInv, ReleaseResponse
  PROVE  Promise!Answer \/ Promise!GiveUp \/ Phase' = Phase
  <1>1. main # "hung" /\ main' # "hung" /\ cli' = cli /\ cli \in {"calling", "waiting"}
    BY DEF ReleaseResponse, IInv, Control, TypeOK, CommandOK
  <1>2. holders # {}
    BY DEF ReleaseResponse, IInv, Held
  <1>3. ready = 0 /\ "cmd_ready" \notin refused
    BY <1>2 DEF IInv, AnsweredOnce
  <1>4. CASE cli = "calling"
    <2>1. UNCHANGED <<ready, refused>>
      BY <1>4 DEF ReleaseResponse, IInv, Held
    <2> QED BY <1>1, <2>1, SamePhase
  <1>5. CASE cli = "waiting"
    <2>1. Phase = "waiting"
      BY ONLY <1>1, <1>3, <1>5 DEF Phase, Forgotten
    <2>2. holders' = {} /\ onClose = "whenAsyncCommandEnd"
      BY <1>5 DEF ReleaseResponse, IInv, Held, TypeOK, CommandOK
    <2>3. PostReady
      BY <2>2 DEF ReleaseResponse, Close
    <2>4. ready' = 1 \/ (ready' = 0 /\ refused' = refused \cup {"cmd_ready"})
      BY ONLY <1>3, <2>3 DEF PostReady
    <2> QED
      BY ONLY <1>1, <1>5, <2>1, <2>4 DEF Phase, Forgotten, Promise!Answer, Promise!GiveUp
  <1> QED BY <1>1, <1>4, <1>5

LEMMA PhaseOfReady == ASSUME IInv, DispatchReady PROVE Promise!Ready
  <1>1. ready = 1 /\ ready' = 0
    BY DEF DispatchReady, IInv, AnsweredOnce
  <1>2. cli = "waiting" /\ cli' = "idle"
    BY <1>1 DEF DispatchReady, IInv, AnsweredOnce
  <1> QED BY ONLY <1>1, <1>2 DEF Phase, Forgotten, Promise!Ready

LEMMA PhaseStep == ASSUME IInv, [Next]_vars PROVE [Promise!Next]_Phase
  <1>1. CASE UNCHANGED vars
    BY <1>1 DEF vars, queue, response, stack, Phase, Forgotten
  <1>2. CASE PostOther \/ Expire \/ DispatchOther \/ LateAnswer
    BY <1>2, SamePhase DEF PostOther, Expire, DispatchOther, LateAnswer, TakeEvent
  <1>3. CASE HandlerAnswers
    BY <1>3, SamePhase DEF HandlerAnswers, queue
  <1>4. ASSUME NEW p \in Procedure, StartProcedure(p) PROVE Phase' = Phase
    BY <1>4, SamePhase DEF StartProcedure, PostTimeout
  <1>5. CASE DoStart
    BY <1>5, SamePhase DEF DoStart, queue
  <1>6. CASE WhenAnswered
    BY <1>6, SamePhase DEF WhenAnswered, TakeEvent
  <1>7. CASE WhenTimeout
    BY <1>7, SamePhase DEF WhenTimeout
  <1> QED
    BY <1>1, <1>2, <1>3, <1>4, <1>5, <1>6, <1>7, PhaseOfCall, PhaseOfReturn, PhaseOfTerminate,
       PhaseOfRelease, PhaseOfReady
    DEF Next, HandlerStep, Stopped, Promise!Next

(* A command that is called returns, or answers exactly once and only after it has
   said that it will, or is forgotten: for every set of procedures, sound or not,
   and every capacity of the queue.                                        *)
THEOREM CommandLinePromise == Spec => KeepsPromise
  <1>1. Init => Promise!Init
    BY DEF Init, Phase, Forgotten, Promise!Init
  <1>2. IInv /\ [Next]_vars => [Promise!Next]_Phase
    BY PhaseStep
  <1> QED BY <1>1, <1>2, Invariant, PTL DEF Spec, KeepsPromise, Promise!Spec

=============================================================================
