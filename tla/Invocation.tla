------------------------------- MODULE Invocation -------------------------------
(***************************************************************************)
(* A line of the host becomes a call of a command's handler: the command   *)
(* is looked up in the suite, its arguments are counted and converted, and *)
(* the response is written as ResponseStream has it.  Beside the responses *)
(* there are the events of version 2 of gap, printed by a handler that is  *)
(* registered with the stack, and for which readPhy registers another.     *)
(***************************************************************************)
EXTENDS ResponseStream, Commands, Events

CONSTANTS
  Lines,    \* the lines the host may send: a suite, the name of a command, texts
  NoLine    \* none: that of the last command is not looked at any more
ASSUME LinesAssumption ==
  /\ NoLine \notin Lines
  /\ \A l \in Lines : \A v \in {1, 2} : l.suite \in DOMAIN commands[v]
  /\ \A l \in Lines : Len(l.words) \in Nat /\ \A i \in 1 .. Len(l.words) : IsText(l.words[i])

VARIABLES
  line,          \* the line just read
  outcome,       \* what came of it: the handler is called with values, or a refusal;
                 \* then of which kind it was, until the next line
  version,       \* of the gap commands
  eventHandler,  \* the event handler the stack has: none, "events", or "procedure"
  eventLine      \* the text printed by the last callback, if nothing happened since

invocationVars == <<line, outcome, version, eventHandler, eventLine>>
allVars == <<vars, invocationVars>>

NoOutcome == [is |-> "none"]
NoEvent == NewStream.text

(* What a stream of its own prints.                                        *)
Printed_Shared(inserts) ==  \* mutant: the stream has printed another value before
  LET os[n \in 0 .. Len(inserts)] ==
        IF n = 0 THEN commitValue(NewStream) ELSE Insert(os[n - 1], inserts[n].insert) IN
  os[Len(inserts)].text
Printed(inserts) ==
  LET os[n \in 0 .. Len(inserts)] ==
        IF n = 0 THEN NewStream ELSE Insert(os[n - 1], inserts[n].insert) IN
  os[Len(inserts)].text

EventLines == {Printed(inserts) : inserts \in EventHandler}

-----------------------------------------------------------------------------
(* The generated handler: the arguments are converted from the first to the last,
   and the first that does not convert is reported by its index.           *)

Called(values) == [is |-> "called", values |-> values]
BadArgument(index) == [is |-> "bad argument", index |-> index]

(* A converted argument is a set of at most one value.                     *)
Fails(converted, i) == converted[i] = {}

FirstFailure_Last(converted) ==  \* mutant: they are converted from the last to the first
  CHOOSE i \in DOMAIN converted :
    Fails(converted, i) /\ \A j \in i + 1 .. Len(converted) : ~Fails(converted, j)
FirstFailure(converted) ==
  CHOOSE i \in DOMAIN converted : Fails(converted, i) /\ \A j \in 1 .. i - 1 : ~Fails(converted, j)

generated_handler(types, words) ==
  LET converted == [i \in DOMAIN types |-> fromString(types[i], words[i])] IN
  IF \E i \in DOMAIN types : Fails(converted, i) THEN BadArgument(FirstFailure(converted))
  ELSE Called([i \in DOMAIN types |-> CHOOSE v \in converted[i] : TRUE])

(* commandHandler() up to the handler.                                     *)
Outcome(l, v) ==
  LET suite == commands[v][l.suite]
      command1 == suite[l.name] IN
  IF l.name \notin DOMAIN suite THEN [is |-> "invalid command"]
  ELSE IF Len(l.words) < command1.least THEN [is |-> "not enough arguments"]
  ELSE IF Len(l.words) > command1.most THEN [is |-> "too many arguments"]
  ELSE generated_handler(command1.types, l.words)

Form(l, v) ==
  LET suite == commands[v][l.suite] IN
  IF l.name \in DOMAIN suite THEN suite[l.name].form ELSE "invalidCommand"

(* The lines whose commands Writes has, in both versions.                  *)
Answered == {l \in Lines : Form(l, 1) \in Command /\ Form(l, 2) \in Command}

(* print_error()                                                           *)
print_error ==
  <<[status |-> "INVALID_PARAMETERS", message |-> "none"], [insert |-> "result"],
    [insert |-> "startObject"], [insert |-> "key"], [insert |-> "value"], [insert |-> "endObject"]>>

Refusal(what) ==
  CASE what = "invalid command" -> <<[status |-> "FAIL", message |-> "scalar"]>>
    [] what \in {"not enough arguments", "too many arguments"} ->
         <<[status |-> "INVALID_PARAMETERS", message |-> "scalar"]>>
    [] what = "bad argument" -> print_error

-----------------------------------------------------------------------------
(* use_version() and the event handlers                                    *)

use_version(v) == v \in {1, 2}

(* The answer of useVersion, and what it changes.  Version 1 has no handler and
   leaves the one that is registered.                                      *)
UseVersion(v) ==
  /\ todo' = <<[status |-> IF use_version(v) THEN "SUCCESS" ELSE "FAIL", message |-> "none"]>>
  /\ version' = IF use_version(v) THEN v ELSE version
  /\ eventHandler' = IF v = 2 THEN "events" ELSE eventHandler

(* The handler the stack has after ~ReadPhyProcedure().                    *)
afterReadPhy_Kept == eventHandler  \* mutant: the procedure stays registered
afterReadPhy == "none"

(* What the other handlers answer or begin with.  readPhy: doStart() registers the
   procedure before it asks the stack; if that fails it is destroyed.      *)
CallHandler(form, values) ==
  IF form = "useVersion" THEN UseVersion(values[1])
  ELSE /\ UNCHANGED version
       /\ todo' \in IF phase' = "starting" THEN Writes[form].begins ELSE Writes[form].answers
       /\ eventHandler' = IF form # "readPhy" THEN eventHandler
                          ELSE IF phase' = "starting" THEN "procedure" ELSE afterReadPhy

-----------------------------------------------------------------------------
InvocationInit ==
  /\ Init
  /\ line = NoLine /\ outcome = NoOutcome
  /\ version = 1
  /\ eventHandler = "none"
  /\ eventLine = NoEvent

(* A line comes when the last command is done.                             *)
Invoke(l) ==
  LET told == [form |-> Form(l, version), outcome |-> Outcome(l, version)] IN
  /\ Call(told.form)
  /\ line' = l
  /\ outcome' = told.outcome
  /\ eventLine' = NoEvent
  /\ IF told.outcome.is = "called" THEN CallHandler(told.form, told.outcome.values)
     ELSE /\ phase' = "answering"
          /\ todo' = Refusal(told.outcome.is)
          /\ UNCHANGED <<version, eventHandler>>

Looked == line' = NoLine /\ outcome' = [is |-> outcome.is]

(* The response is written, is returned, is left to a procedure.           *)
Respond ==
  /\ Write \/ Return \/ Continue \/ Report \/ End
  /\ Looked
  /\ eventLine' = NoEvent
  /\ UNCHANGED <<version, eventHandler>>

(* The procedure is destroyed.                                             *)
Destroy ==
  /\ Release
  /\ Looked
  /\ eventLine' = NoEvent
  /\ eventHandler' = IF command = "readPhy" THEN afterReadPhy ELSE eventHandler
  /\ UNCHANGED version

(* The stack has an event while no handler runs.                           *)
PrintEvent ==
  /\ eventHandler = "events"
  /\ phase \in {"done", "waiting"} /\ todo = <<>>
  /\ eventLine' \in EventLines
  /\ Looked
  /\ UNCHANGED <<vars, version, eventHandler>>

InvocationNext == (\E l \in Answered : Invoke(l)) \/ Respond \/ Destroy \/ PrintEvent

InvocationSpec == InvocationInit /\ [][InvocationNext]_allVars

-----------------------------------------------------------------------------
(* What the theorems take from the tables: types are in the order of the arguments. *)
EntriesAreTyped ==
  \A v \in {1, 2} : \A suite \in DOMAIN commands[v] :
    \A name \in DOMAIN commands[v][suite] :
      LET types == commands[v][suite][name].types IN
      Len(types) \in Nat /\ DOMAIN types = 1 .. Len(types)

(* A command whose arguments are converted needs them all, and takes values of types
   that the conversions know; useVersion is the same in both versions.     *)
EntriesFit ==
  \A v \in {1, 2} : \A suite \in DOMAIN commands[v] :
    \A name \in DOMAIN commands[v][suite] :
      LET entry == commands[v][suite][name] IN
      /\ entry.least \in Nat /\ entry.most \in Nat
      /\ Len(entry.types) <= entry.least
      /\ \A i \in 1 .. Len(entry.types) : Fits(entry.types[i])
      /\ entry.form = "useVersion" => \A w \in {1, 2} : commands[w][suite][name] = entry

(* Every callback keeps the rules of a document of its own, and ends it.   *)
EventsKeepRules ==
  \A inserts \in EventHandler :
    /\ inserts \in Seq({[insert |-> i] : i \in StreamOps})
    /\ KeepsRules(NewDocument, inserts)
    /\ LET form == FormAfter(NewDocument, inserts) IN form.open = <<>> /\ ~form.awaits

(* The entry of the command in the table; useVersion is in both.           *)
Entry == commands[version][line.suite][line.name]

(* The handler is given what the host wrote: as many arguments as the command takes and
   for each a value that its text denotes, within the limits of its type, although
   they pass through strtol(), strtoul(), sscanf() and casts (Serializer.cpp,
   GapSerializer.cpp, Hex.cpp).                                            *)
HandlerGetsWhatWasWritten ==
  line # NoLine /\ outcome.is = "called" =>
    /\ Entry.least <= Len(line.words) /\ Len(line.words) <= Entry.most
    /\ \A i \in DOMAIN Entry.types :
         Denotes(line.words[i], outcome.values[i], Entry.types[i])

(* A refusal tells the first argument that does not convert, those before it being good
   (CommandHandlerGenerator.h:132), and a command that was refused is over with the
   code of its refusal.     *)
RefusalsAreExact ==
  /\ line # NoLine /\ outcome.is = "bad argument" =>
       /\ fromString(Entry.types[outcome.index], line.words[outcome.index]) = {}
       /\ \A j \in 1 .. outcome.index - 1 : fromString(Entry.types[j], line.words[j]) # {}
  /\ outcome.is \notin {"none", "called"} =>
       /\ phase \in {"answering", "done"}
       /\ phase = "done" =>
            returned = IF outcome.is = "invalid command" THEN "FAIL" ELSE "INVALID_PARAMETERS"

(* The handler that the stack calls back exists: a ReadPhyProcedure is registered
   no longer than it lives (GapCommands.cpp:416).                          *)
HandlerIsAlive ==
  eventHandler = "procedure" =>
    command = "readPhy" /\ phase \in {"starting", "waiting", "ending"}

(* Every line of an event is a JSON document, on each of the paths of its callback
   (GapV2Commands.cpp:50).                                                 *)
EventLinesAreDocuments ==
  eventLine # NoEvent => eventLine.ok /\ Reader!Complete(eventLine)
=============================================================================
