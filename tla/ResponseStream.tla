---------------------------- MODULE ResponseStream ----------------------------
(***************************************************************************)
(* The document a command answers with.  A CommandResponse owns a          *)
(* JSONOutputStream that is printed as it is written, so nothing can be    *)
(* taken back; the handler, doStart(), the callbacks of the BLE stack and  *)
(* the timeout of its procedure all write to it, each a few insertions at  *)
(* a time.  What they write is the constant Writes:                        *)
(*   answers  by a handler whose command is then done                      *)
(*   begins   by a handler whose procedure goes on                         *)
(*   reports  by a callback, before (TRUE) or after the first that reports *)
(*   ends     by a callback or timeout that ends the procedure, likewise   *)
(* each a set of sequences of the insertions in Ops.                       *)
(***************************************************************************)
EXTENDS Integers, Sequences

CONSTANTS
  Command,      \* the commands
  Writes,       \* what each of them writes
  None,         \* no command
  MaxReports    \* bound: the callbacks that report, in one command

StatusCode == {"SUCCESS", "FAIL", "INVALID_PARAMETERS", "COMMAND_NOT_IMPLEMENTED"}

Reader == INSTANCE JsonReader WITH Key <- {"status", "result", "error"}

StreamOps == {"startArray", "endArray", "startObject", "endObject", "key", "value", "format"}
StatusOps == [status : StatusCode, message : {"none", "scalar", "object"}]
Ops == {[insert |-> i] : i \in StreamOps \cup {"result"}} \cup StatusOps

ASSUME WritesAssumption ==
  Writes \in [Command -> [answers : SUBSET Seq(Ops), begins : SUBSET Seq(Ops),
                          reports : [BOOLEAN -> SUBSET Seq(Ops)],
                          ends : [BOOLEAN -> SUBSET Seq(Ops)]]]
ASSUME NoneAssumption == None \notin Command
ASSUME MaxReportsAssumption == MaxReports \in Nat

VARIABLES
  command,     \* the command that was called last
  phase,       \* what it is doing
  todo,        \* the insertions still to come before it waits or ends
  response,    \* its response
  reported,    \* the callbacks that reported so far
  returned     \* the code the command line was given

vars == <<command, phase, todo, response, reported, returned>>

-----------------------------------------------------------------------------
(* JSONOutputStream: what it printed and whether a comma is due.           *)

NewStream == [text |-> Reader!EmptyText, startNewValue |-> FALSE]

puts(os, token) == [os EXCEPT !.text = Reader!Read(@, token)]

handleNewValue_Early(os) ==  \* mutant: the comma is printed but stays due
  IF os.startNewValue THEN puts(os, ",") ELSE os
handleNewValue(os) ==
  IF os.startNewValue THEN [puts(os, ",") EXCEPT !.startNewValue = FALSE] ELSE os

write(os, token) == puts(handleNewValue(os), token)
commitValue(os) == [os EXCEPT !.startNewValue = TRUE]
value(os, token) == commitValue(write(os, token))
endContainer_Separated(os, bracket) == commitValue(write(os, bracket))  \* mutant: a comma before the end
endContainer(os, bracket) == commitValue(write([os EXCEPT !.startNewValue = FALSE], bracket))

Insert(os, i) ==
  CASE i = "startArray" -> write(os, "[")
    [] i = "endArray" -> endContainer(os, "]")
    [] i = "startObject" -> write(os, "{")
    [] i = "endObject" -> endContainer(os, "}")
    [] i = "key" -> write(os, "member")
    [] i = "value" -> value(os, "value")
    [] i = "format" -> write(os, "value")  \* a value that nobody commits

-----------------------------------------------------------------------------
(* CommandResponse                                                         *)

NewResponse_Uninitialised ==  \* mutant: statusCode is not initialised
  [out |-> Insert(NewStream, "startObject"), statusCode |-> "any",
   statusCodeSet |-> FALSE, resultStarted |-> FALSE]
NewResponse ==
  [out |-> Insert(NewStream, "startObject"), statusCode |-> "SUCCESS",
   statusCodeSet |-> FALSE, resultStarted |-> FALSE]

setStatusCode_Again(r, sc) ==  \* mutant: a second status is written, too
  [r EXCEPT !.statusCode = sc, !.statusCodeSet = TRUE,
            !.out = value(write(@, "status"), sc)]
setStatusCode(r, sc) ==
  IF r.statusCodeSet THEN r
  ELSE [r EXCEPT !.statusCode = sc, !.statusCodeSet = TRUE,
                 !.out = value(write(@, "status"), sc)]

(* statusCode < 0                                                          *)
Negative == StatusCode \ {"SUCCESS"}

getResultStream(r) ==
  IF r.resultStarted THEN r
  ELSE [r EXCEPT !.resultStarted = TRUE,
                 !.out = write(@, IF r.statusCode \in Negative THEN "error" ELSE "result")]

Written(r, i) == [r EXCEPT !.out = Insert(@, i)]

Message(r, message) ==
  IF message = "scalar" THEN Written(r, "value")
  ELSE Written(Written(Written(Written(r, "startObject"), "key"), "value"), "endObject")

setStatusCodeAndMessage_Late(r, sc, message) ==  \* mutant: the status is set after the body is begun
  IF r.statusCodeSet \/ message = "none" THEN setStatusCode(r, sc)
  ELSE setStatusCode(Message(getResultStream(r), message), sc)
setStatusCodeAndMessage(r, sc, message) ==
  IF r.statusCodeSet \/ message = "none" THEN setStatusCode(r, sc)
  ELSE Message(getResultStream(setStatusCode(r, sc)), message)

Apply(r, op) ==
  IF op \in StatusOps THEN setStatusCodeAndMessage(r, op.status, op.message)
  ELSE IF op.insert = "result" THEN getResultStream(r)
  ELSE Written(r, op.insert)

close(r) == Written(r, "endObject")

-----------------------------------------------------------------------------
(* commandHandler() and the main loop                                      *)

Init ==
  /\ command = None
  /\ phase = "done"
  /\ todo = <<>>
  /\ response = close(NewResponse)  \* there is none yet
  /\ reported = 0
  /\ returned = "none"

(* An unknown name, or not as many arguments as the command needs: the handler is
   not called.  Or one that does not convert: print_error().               *)
Refusals ==
  {<<[status |-> "FAIL", message |-> "scalar"]>>,
   <<[status |-> "INVALID_PARAMETERS", message |-> "scalar"]>>,
   <<[status |-> "INVALID_PARAMETERS", message |-> "none"], [insert |-> "result"],
     [insert |-> "startObject"], [insert |-> "key"], [insert |-> "value"], [insert |-> "endObject"]>>}

Call(c) ==
  /\ phase = "done"
  /\ command' = c
  /\ response' = NewResponse
  /\ reported' = 0
  /\ returned' = "none"
  /\ \/ phase' = "answering" /\ todo' \in Refusals \cup Writes[c].answers
     \/ phase' = "starting" /\ todo' \in Writes[c].begins

(* One insertion, by whoever writes.                                       *)
Write ==
  /\ todo # <<>>
  /\ response' = Apply(response, Head(todo))
  /\ todo' = Tail(todo)
  /\ UNCHANGED <<command, phase, reported, returned>>

(* The handler has returned and nobody else holds the response: its status is
   read, then the last reference goes.                                     *)
Return ==
  /\ phase = "answering" /\ todo = <<>>
  /\ returned' = response.statusCode
  /\ response' = close(response)
  /\ phase' = "done"
  /\ UNCHANGED <<command, todo, reported>>

(* The procedure holds the response, too.                                  *)
Continue ==
  /\ phase = "starting" /\ todo = <<>>
  /\ returned' = "EXCUTING_CONTINUE"
  /\ phase' = "waiting"
  /\ UNCHANGED <<command, todo, response, reported>>

(* The stack calls back with a piece of the result.                        *)
Report ==
  /\ phase = "waiting" /\ todo = <<>>
  /\ reported < MaxReports
  /\ todo' \in Writes[command].reports[reported = 0]
  /\ reported' = reported + 1
  /\ UNCHANGED <<command, phase, response, returned>>

(* It calls back for the last time, or the time is over.                   *)
End ==
  /\ phase = "waiting" /\ todo = <<>>
  /\ todo' \in Writes[command].ends[reported = 0]
  /\ phase' = "ending"
  /\ UNCHANGED <<command, response, reported, returned>>

(* The procedure releases the response, which closes and then calls
   whenAsyncCommandEnd() with its status.                                  *)
Release ==
  /\ phase = "ending" /\ todo = <<>>
  /\ response' = close(response)
  /\ returned' = response.statusCode
  /\ phase' = "done"
  /\ UNCHANGED <<command, todo, reported>>

Next == (\E c \in Command : Call(c)) \/ Write \/ Return \/ Continue \/ Report \/ End \/ Release

Spec == Init /\ [][Next]_vars

-----------------------------------------------------------------------------
Stream == [text : Reader!Text, startNewValue : BOOLEAN]
Response ==
  [out : Stream, statusCode : StatusCode, statusCodeSet : BOOLEAN, resultStarted : BOOLEAN]

(* The codes, flags and text of the response, and who is writing.          *)
TypeOK ==
  /\ command \in Command \cup {None}
  /\ phase \in {"answering", "starting", "waiting", "ending", "done"}
  /\ phase # "done" => command # None
  /\ phase \in {"waiting", "ending", "done"} \/ reported = 0
  /\ todo \in Seq(Ops)
  /\ phase = "done" => todo = <<>>
  /\ response \in Response
  /\ reported \in 0 .. MaxReports
  /\ returned \in StatusCode \cup {"none", "EXCUTING_CONTINUE"}

(* "It is expected that the user does not call setStatusCode, setArgument and
   setNameFunction until the result has been properly formed"
   (CommandResponse.h:84), and that he formats the body properly: whatever is
   printed begins a JSON document, and is one when the command is done.    *)
WellFormed ==
  /\ response.out.text.ok
  /\ phase = "done" => Reader!Complete(response.out.text)

(* A command that is done has told one status in its document, and that is the
   code the command line was given; before, it told none or the one it has. *)
StatusToldOnce ==
  LET told == response.out.text.told IN
  /\ phase = "done" /\ command # None => told = <<returned>>
  /\ told = IF response.statusCodeSet THEN <<response.statusCode>> ELSE <<>>

(* A document has one result at most, under "error" if and only if the command line
   is given an error.                                                      *)
BodyMatchesStatus ==
  LET members == response.out.text.members
      bodies == {i \in 1 .. Len(members) : members[i] \in {"result", "error"}} IN
  phase = "done" =>
    /\ \A i, j \in bodies : i = j
    /\ \A i \in bodies : members[i] = "error" <=> returned # "SUCCESS"

(* What the table of commands may promise.  Every command tells a status: its
   answers do, and where it goes on so do all beginnings or all ends.      *)
Tells(w) == \E n \in 1 .. Len(w) : w[n] \in StatusOps
EndsTell(c) == \A first \in BOOLEAN : \A w \in Writes[c].ends[first] : Tells(w)
EveryCommandTells ==
  \A c \in Command :
    /\ \A w \in Writes[c].answers : Tells(w)
    /\ EndsTell(c) \/ \A w \in Writes[c].begins : Tells(w)

(* Every value that is written is committed.                               *)
Commits(w) == \A n \in 1 .. Len(w) : w[n] # [insert |-> "format"]
EveryValueIsCommitted ==
  \A c \in Command :
    /\ \A w \in Writes[c].answers \cup Writes[c].begins : Commits(w)
    /\ \A first \in BOOLEAN : \A w \in Writes[c].reports[first] \cup Writes[c].ends[first] : Commits(w)

(* The stream knows when a comma is due: after a value and nowhere else.   *)
CommaIsDue ==
  response.out.text.ok =>
    (response.out.startNewValue <=> response.out.text.last = "value")
-----------------------------------------------------------------------------
(* The rules of those who write (CommandResponse.h:82-85).  What they have
   to know of a response is its form: the containers that are open, whether a key
   awaits its value, the status that is set and the body that has begun.   *)

NewForm == [open |-> <<"object">>, awaits |-> FALSE, code |-> "none", body |-> "none"]

(* A document of its own, like that of an event.                           *)
NewDocument == [open |-> <<>>, awaits |-> TRUE, code |-> "none", body |-> "none"]

BetweenMembers(form) == form.open = <<"object">> /\ ~form.awaits
TakesValue(form) == form.awaits \/ Reader!Innermost(form) = "array"
TakesKey(form) == ~form.awaits /\ Reader!Innermost(form) = "object"

BodyOf(code) == IF code \in Negative THEN "error" ELSE "result"

(* A status is set and a body begun between the members of the response, or are
   already, which changes nothing; a message is a body.  Every value that is written
   is committed, and has its place in an array or behind a key.            *)
Allowed(form, op) ==
  \/ /\ op \in StatusOps
     /\ form.code # "none" \/ (BetweenMembers(form) /\ (op.message = "none" \/ form.body = "none"))
  \/ op = [insert |-> "result"] /\ (form.body # "none" \/ BetweenMembers(form))
  \/ op \in {[insert |-> i] : i \in {"startArray", "startObject", "value"}} /\ TakesValue(form)
  \/ op = [insert |-> "key"] /\ TakesKey(form)
  \/ op = [insert |-> "endArray"] /\ Reader!Innermost(form) = "array"
  \/ op = [insert |-> "endObject"] /\ TakesKey(form)

StatusForm(form, op) ==
  IF form.code # "none" THEN form
  ELSE [form EXCEPT !.code = op.status, !.body = IF op.message = "none" THEN @ ELSE BodyOf(op.status)]

BodyForm(form) ==
  IF form.body # "none" THEN form ELSE [form EXCEPT !.awaits = TRUE, !.body = BodyOf(form.code)]

InsertForm(form, i) ==
  [form EXCEPT
     !.awaits = (i = "key"),
     !.open = IF i = "startArray" THEN Append(@, "array")
              ELSE IF i = "startObject" THEN Append(@, "object")
              ELSE IF i \in {"endArray", "endObject"} THEN SubSeq(@, 1, Len(@) - 1)
              ELSE @]

NextForm(form, op) ==
  IF op \in StatusOps THEN StatusForm(form, op)
  ELSE IF op.insert = "result" THEN BodyForm(form)
  ELSE InsertForm(form, op.insert)

(* The forms a response goes through while w is written to it.             *)
Forms(form, w) ==
  LET f[n \in 0 .. Len(w)] == IF n = 0 THEN form ELSE NextForm(f[n - 1], w[n]) IN f

KeepsRules(form, w) == \A n \in 1 .. Len(w) : Allowed(Forms(form, w)[n - 1], w[n])
FormAfter(form, w) == Forms(form, w)[Len(w)]

(* A command may be done, with a body that agrees with its status.         *)
Finished(form) ==
  BetweenMembers(form) /\ (form.body # "none" => form.body = BodyOf(form.code))

Begun(c) == {FormAfter(NewForm, w) : w \in Writes[c].begins}
FirstReported(c) == {FormAfter(form, w) : form \in Begun(c), w \in Writes[c].reports[TRUE]}
Waiting(c, first) == IF first THEN Begun(c) ELSE FirstReported(c)

(* Every command keeps the rules, whoever writes: answers and ends finish the
   document, and a callback that reports leaves the form of the first one. *)
EveryRuleIsKept ==
  \A c \in Command :
    /\ \A w \in Writes[c].answers : KeepsRules(NewForm, w) /\ Finished(FormAfter(NewForm, w))
    /\ \A w \in Writes[c].begins : KeepsRules(NewForm, w)
    /\ \A first \in BOOLEAN : \A form \in Waiting(c, first) :
         /\ \A w \in Writes[c].reports[first] :
              KeepsRules(form, w) /\ FormAfter(form, w) \in FirstReported(c)
         /\ \A w \in Writes[c].ends[first] :
              KeepsRules(form, w) /\ Finished(FormAfter(form, w))
=============================================================================
