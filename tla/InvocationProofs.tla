---------------------------- MODULE InvocationProofs ----------------------------
(***************************************************************************)
(* Theorems of ResponseStream, for every table of commands and writes.     *)
(* Then: the composition of the command line, the responses and the events *)
(* of gap writes its responses as ResponseStream does, so that they hold   *)
(* there, and leaves no handler behind that is destroyed.                  *)
(***************************************************************************)
EXTENDS Invocation, ListLemmas, FiniteSetTheorems

-----------------------------------------------------------------------------
(* What one insertion does to the stream and the response.                 *)

LEMMA FrontType ==
  ASSUME NEW S, NEW seq \in Seq(S)
  PROVE  SubSeq(seq, 1, Len(seq) - 1) \in Seq(S)
<1>1. Len(seq) \in Nat
  BY LenProperties
<1>2. \A i \in 1 .. Len(seq) - 1 : seq[i] \in S
  <2>1. TAKE i \in 1 .. Len(seq) - 1
  <2>2. i \in 1 .. Len(seq)
    BY <1>1
  <2> QED
    BY <2>2, ElementOfSeq
<1>3. 1 \in Int /\ Len(seq) - 1 \in Int
  BY <1>1
<1> QED
  BY <1>2, <1>3, SubSeqProperties

LEMMA ReadType ==
  ASSUME NEW text \in Reader!Text, NEW token \in Reader!Keys \cup Reader!Scalars \cup {"{", "}", "[", "]", ","}
  PROVE  Reader!Read(text, token) \in Reader!Text
<1> DEFINE kind == Reader!Kind(token)
<1>1. kind \in {"{", "}", "[", "]", ",", "key", "value"}
  BY DEF Reader!Kind
<1>2. Reader!Last(kind) \in {"start", "open", "comma", "key", "value"}
  BY DEF Reader!Last
<1>3. Reader!Opened(text, kind) \in Seq({"object", "array"})
  <2>1. text.open \in Seq({"object", "array"})
    BY DEF Reader!Text
  <2>2. CASE kind \in {"{", "["}
    <3>1. Reader!Container[kind] \in {"object", "array"}
      BY <2>2 DEF Reader!Container
    <3> QED
      BY <2>1, <2>2, <3>1, AppendProperties DEF Reader!Opened
  <2>3. CASE kind \notin {"{", "["} /\ kind \in {"}", "]"} /\ text.open # <<>>
    <3>1. SubSeq(text.open, 1, Len(text.open) - 1) \in Seq({"object", "array"})
      BY <2>1, FrontType
    <3> QED
      BY <2>3, <3>1 DEF Reader!Opened
  <2>4. CASE kind \notin {"{", "["} /\ ~(kind \in {"}", "]"} /\ text.open # <<>>)
    BY <2>1, <2>4 DEF Reader!Opened
  <2> QED
    BY <2>2, <2>3, <2>4
<1>4. Reader!Follows(text, kind) \in BOOLEAN
  BY DEF Reader!Follows, Reader!ExpectsValue
<1>5. (IF token \in {"status", "result", "error"} THEN Append(text.members, token) ELSE text.members)
         \in Seq({"status", "result", "error"})
  BY AppendProperties DEF Reader!Text
<1>6. (IF token \in StatusCode THEN Append(text.told, token) ELSE text.told) \in Seq(StatusCode)
  BY AppendProperties DEF Reader!Text
<1> QED
  BY <1>2, <1>3, <1>4, <1>5, <1>6 DEF Reader!Text, Reader!Read

Tokens == {"{", "}", "[", "]", ",", "member", "status", "result", "error", "value"} \cup StatusCode

LEMMA TokensAreRead == Tokens \subseteq Reader!Keys \cup Reader!Scalars \cup {"{", "}", "[", "]", ","}
BY DEF Tokens, Reader!Keys, Reader!Scalars

LEMMA PrintType ==
  ASSUME NEW os \in Stream, NEW token \in Tokens
  PROVE  /\ puts(os, token) \in Stream
         /\ puts(os, token).startNewValue = os.startNewValue
         /\ puts(os, token).text = Reader!Read(os.text, token)
BY ReadType, TokensAreRead DEF puts, Stream

LEMMA WriteType ==
  ASSUME NEW os \in Stream, NEW token \in Tokens
  PROVE  write(os, token) \in Stream /\ ~write(os, token).startNewValue
<1>1. CASE os.startNewValue
  <2>1. puts(os, ",") \in Stream
    BY PrintType DEF Tokens
  <2>2. handleNewValue(os) \in Stream /\ ~handleNewValue(os).startNewValue
    BY <1>1, <2>1 DEF handleNewValue, Stream
  <2> QED
    BY <2>2, PrintType DEF write
<1>2. CASE ~os.startNewValue
  BY <1>2, PrintType DEF handleNewValue, write
<1> QED
  BY <1>1, <1>2 DEF Stream

LEMMA ValueType ==
  ASSUME NEW os \in Stream, NEW token \in Tokens
  PROVE  value(os, token) \in Stream /\ value(os, token).text = write(os, token).text
BY WriteType DEF value, commitValue, Stream

LEMMA EndContainerType ==
  ASSUME NEW os \in Stream, NEW bracket \in {"}", "]"}
  PROVE  endContainer(os, bracket) \in Stream
<1>1. [os EXCEPT !.startNewValue = FALSE] \in Stream
  BY DEF Stream
<1>2. write([os EXCEPT !.startNewValue = FALSE], bracket) \in Stream
  BY <1>1, WriteType DEF Tokens
<1> QED
  BY <1>2 DEF endContainer, commitValue, Stream

LEMMA InsertType ==
  ASSUME NEW os \in Stream, NEW i \in StreamOps
  PROVE  Insert(os, i) \in Stream
<1>1. {"{", "[", "member", "value"} \subseteq Tokens
  BY DEF Tokens
<1>2. CASE i \in {"startArray", "startObject", "key", "format"}
  BY <1>1, <1>2, WriteType DEF Insert
<1>3. CASE i \in {"endArray", "endObject"}
  BY <1>3, EndContainerType DEF Insert
<1>4. CASE i = "value"
  BY <1>1, <1>4, ValueType DEF Insert
<1> QED
  BY <1>2, <1>3, <1>4 DEF StreamOps

LEMMA WrittenType ==
  ASSUME NEW r \in Response, NEW i \in StreamOps
  PROVE  Written(r, i) \in Response
BY InsertType DEF Written, Response

LEMMA setStatusCodeType ==
  ASSUME NEW r \in Response, NEW sc \in StatusCode
  PROVE  setStatusCode(r, sc) \in Response
<1>1. write(r.out, "status") \in Stream
  BY WriteType DEF Response, Tokens
<1>2. value(write(r.out, "status"), sc) \in Stream
  BY <1>1, ValueType DEF Tokens
<1> QED
  BY <1>2 DEF setStatusCode, Response

LEMMA getResultStreamType ==
  ASSUME NEW r \in Response
  PROVE  getResultStream(r) \in Response
<1>1. write(r.out, "error") \in Stream /\ write(r.out, "result") \in Stream
  BY WriteType DEF Response, Tokens
<1> QED
  BY <1>1 DEF getResultStream, Response

LEMMA MessageType ==
  ASSUME NEW r \in Response, NEW message
  PROVE  Message(r, message) \in Response
<1>1. {"value", "startObject", "key", "endObject"} \subseteq StreamOps
  BY DEF StreamOps
<1> DEFINE r1 == Written(r, "startObject")
           r2 == Written(r1, "key")
           r3 == Written(r2, "value")
<1>2. r1 \in Response
  BY <1>1, WrittenType
<1>3. r2 \in Response
  BY <1>1, <1>2, WrittenType
<1>4. r3 \in Response
  BY <1>1, <1>3, WrittenType
<1>5. Written(r3, "endObject") \in Response /\ Written(r, "value") \in Response
  BY <1>1, <1>4, WrittenType
<1> QED
  BY <1>5 DEF Message

LEMMA ApplyType ==
  ASSUME NEW r \in Response, NEW op \in Ops
  PROVE  Apply(r, op) \in Response
<1>1. CASE op \in StatusOps
  <2>1. op.status \in StatusCode
    BY <1>1 DEF StatusOps
  <2>2. setStatusCode(r, op.status) \in Response
    BY <2>1, setStatusCodeType
  <2>3. Message(getResultStream(setStatusCode(r, op.status)), op.message) \in Response
    BY <2>2, getResultStreamType, MessageType
  <2> QED
    BY <1>1, <2>2, <2>3 DEF Apply, setStatusCodeAndMessage
<1>2. CASE op \notin StatusOps
  <2>1. PICK i \in StreamOps \cup {"result"} : op = [insert |-> i]
    BY <1>2 DEF Ops
  <2>2. CASE i = "result"
    BY <1>2, <2>1, <2>2, getResultStreamType DEF Apply
  <2>3. CASE i # "result"
    BY <1>2, <2>1, <2>3, WrittenType DEF Apply
  <2> QED
    BY <2>2, <2>3
<1> QED
  BY <1>1, <1>2

LEMMA NewResponseType == NewResponse \in Response
<1>1. NewStream \in Stream
  BY EmptySeq DEF NewStream, Stream, Reader!EmptyText, Reader!Text
<1>2. Insert(NewStream, "startObject") \in Stream
  BY <1>1, InsertType DEF StreamOps
<1> QED
  BY <1>2 DEF NewResponse, Response, StatusCode

LEMMA CloseType ==
  ASSUME NEW r \in Response
  PROVE  close(r) \in Response
BY WrittenType DEF close, StreamOps

LEMMA RefusalsType == Refusals \subseteq Seq(Ops)
<1>1. \A sc \in StatusCode, m \in {"none", "scalar", "object"} : [status |-> sc, message |-> m] \in Ops
  BY DEF Ops, StatusOps
<1>2. \A i \in {"result", "startObject", "key", "value", "endObject"} : [insert |-> i] \in Ops
  BY DEF Ops, StreamOps
<1> QED
  BY <1>1, <1>2 DEF Refusals, StatusCode

-----------------------------------------------------------------------------
(* The response, the codes and flags of the machine keep their types, whatever the
   commands write (CommandResponse.cpp).                                   *)
THEOREM TypeCorrect == Spec => []TypeOK
<1>1. Init => TypeOK
  BY NewResponseType, CloseType, EmptySeq, MaxReportsAssumption DEF Init, TypeOK
<1>2. TypeOK /\ [Next]_vars => TypeOK'
  <2> SUFFICES ASSUME TypeOK, [Next]_vars
               PROVE  TypeOK'
    OBVIOUS
  <2> USE NoneAssumption, MaxReportsAssumption
  <2>1. ASSUME NEW c \in Command, Call(c)
        PROVE  TypeOK'
    <3>1. Writes[c].answers \subseteq Seq(Ops) /\ Writes[c].begins \subseteq Seq(Ops)
      BY WritesAssumption
    <3>2. todo' \in Seq(Ops)
      BY <2>1, <3>1, RefusalsType DEF Call
    <3> QED
      BY <2>1, <3>2, NewResponseType DEF Call, TypeOK
  <2>2. CASE Write
    <3>1. Head(todo) \in Ops /\ Tail(todo) \in Seq(Ops)
      BY <2>2, HeadTailProperties DEF Write, TypeOK
    <3>2. response' \in Response
      BY <2>2, <3>1, ApplyType DEF Write, TypeOK
    <3> QED
      BY <2>2, <3>1, <3>2 DEF Write, TypeOK
  <2>3. CASE Return
    BY <2>3, CloseType DEF Return, TypeOK, Response
  <2>4. CASE Continue
    BY <2>4 DEF Continue, TypeOK
  <2>5. CASE Report
    <3>1. command \in Command /\ (reported = 0) \in BOOLEAN
      BY <2>5 DEF Report, TypeOK
    <3>2. Writes[command].reports[reported = 0] \subseteq Seq(Ops)
      <4>1. Writes[command].reports \in [BOOLEAN -> SUBSET Seq(Ops)]
        BY <3>1, WritesAssumption
      <4> QED
        BY <3>1, <4>1
    <3>3. todo' \in Seq(Ops)
      BY <2>5, <3>2 DEF Report
    <3> QED
      BY <2>5, <3>3 DEF Report, TypeOK
  <2>6. CASE End
    <3>1. command \in Command /\ (reported = 0) \in BOOLEAN
      BY <2>6 DEF End, TypeOK
    <3>2. Writes[command].ends[reported = 0] \subseteq Seq(Ops)
      <4>1. Writes[command].ends \in [BOOLEAN -> SUBSET Seq(Ops)]
        BY <3>1, WritesAssumption
      <4> QED
        BY <3>1, <4>1
    <3>3. todo' \in Seq(Ops)
      BY <2>6, <3>2 DEF End
    <3> QED
      BY <2>6, <3>3 DEF End, TypeOK
  <2>7. CASE Release
    BY <2>7, CloseType DEF Release, TypeOK, Response
  <2>8. CASE UNCHANGED vars
    BY <2>8 DEF vars, TypeOK
  <2> QED
    BY <2>1, <2>2, <2>3, <2>4, <2>5, <2>6, <2>7, <2>8 DEF Next
<1> QED
  BY <1>1, <1>2, PTL DEF Spec

-----------------------------------------------------------------------------
(* What the document tells, and what is still to be told.                  *)

Told(r) == r.out.text.told = IF r.statusCodeSet THEN <<r.statusCode>> ELSE <<>>

(* r comes after q: what was set in q stays.                               *)
After(q, r) == q.statusCodeSet => r.statusCodeSet /\ r.statusCode = q.statusCode

LEMMA WriteTold ==
  ASSUME NEW os \in Stream, NEW token \in Tokens
  PROVE  /\ write(os, token).text.told =
              IF token \in StatusCode THEN Append(os.text.told, token) ELSE os.text.told
         /\ value(os, token).text.told = write(os, token).text.told
<1>1. "," \notin StatusCode
  BY DEF StatusCode
<1>2. ASSUME NEW s \in Stream, NEW t \in Tokens
      PROVE  puts(s, t).text.told = IF t \in StatusCode THEN Append(s.text.told, t) ELSE s.text.told
  <2>1. puts(s, t).text = Reader!Read(s.text, t)
    BY PrintType
  <2> QED
    BY <2>1 DEF Reader!Read
<1>3. handleNewValue(os) \in Stream /\ handleNewValue(os).text.told = os.text.told
  <2>1. CASE os.startNewValue
    <3>1. "," \in Tokens
      BY DEF Tokens
    <3>2. puts(os, ",") \in Stream /\ puts(os, ",").text.told = os.text.told
      BY <1>1, <1>2, <3>1, PrintType
    <3> QED
      BY <2>1, <3>2 DEF handleNewValue, Stream
  <2>2. CASE ~os.startNewValue
    BY <2>2 DEF handleNewValue
  <2> QED
    BY <2>1, <2>2
<1>4. write(os, token).text.told =
         IF token \in StatusCode THEN Append(os.text.told, token) ELSE os.text.told
  BY <1>2, <1>3 DEF write
<1> QED
  BY <1>4, ValueType

LEMMA InsertTold ==
  ASSUME NEW os \in Stream, NEW i \in StreamOps
  PROVE  Insert(os, i).text.told = os.text.told
<1>1. {"{", "[", "}", "]", "member", "value"} \subseteq Tokens
  BY DEF Tokens
<1>2. {"{", "[", "}", "]", "member", "value"} \cap StatusCode = {}
  BY DEF StatusCode
<1>3. CASE i \in {"startArray", "startObject", "key", "value", "format"}
  BY <1>1, <1>2, <1>3, WriteTold, ZenonT(60) DEF Insert
<1>4. ASSUME NEW bracket \in {"}", "]"}
      PROVE  endContainer(os, bracket).text.told = os.text.told
  <2> DEFINE undue == [os EXCEPT !.startNewValue = FALSE]
  <2>1. undue \in Stream /\ undue.text = os.text
    BY DEF Stream
  <2>2. write(undue, bracket).text.told = os.text.told
    BY <1>1, <1>2, <2>1, WriteTold, ZenonT(60)
  <2>3. write(undue, bracket) \in Stream
    BY <1>1, <2>1, WriteType
  <2> QED
    BY <2>2, <2>3 DEF endContainer, commitValue, Stream
<1>5. CASE i \in {"endArray", "endObject"}
  BY <1>4, <1>5 DEF Insert
<1> QED
  BY <1>3, <1>5 DEF StreamOps

LEMMA WrittenTold ==
  ASSUME NEW r \in Response, NEW i \in StreamOps, Told(r)
  PROVE  Told(Written(r, i)) /\ After(r, Written(r, i))
<1>1. r.out \in Stream
  BY DEF Response
<1>2. Insert(r.out, i).text.told = r.out.text.told
  BY <1>1, InsertTold
<1>3. /\ Written(r, i).out = Insert(r.out, i)
      /\ Written(r, i).statusCodeSet = r.statusCodeSet
      /\ Written(r, i).statusCode = r.statusCode
  BY DEF Written, Response
<1> QED
  BY <1>2, <1>3 DEF Told, After

LEMMA setStatusCodeTold ==
  ASSUME NEW r \in Response, NEW sc \in StatusCode, Told(r)
  PROVE  /\ Told(setStatusCode(r, sc)) /\ After(r, setStatusCode(r, sc))
         /\ setStatusCode(r, sc).statusCodeSet
<1>1. CASE r.statusCodeSet
  BY <1>1 DEF setStatusCode, After
<1>2. CASE ~r.statusCodeSet
  <2> DEFINE os == write(r.out, "status")
  <2>1. r.out \in Stream /\ "status" \in Tokens /\ sc \in Tokens /\ "status" \notin StatusCode
    BY DEF Response, Tokens, StatusCode
  <2>2. os \in Stream /\ os.text.told = <<>>
    BY <1>2, <2>1, WriteType, WriteTold DEF Told
  <2>3. value(os, sc).text.told = <<sc>>
    <3>1. value(os, sc).text.told = Append(<<>>, sc)
      BY <2>1, <2>2, WriteTold
    <3> QED
      BY <3>1
  <2>4. /\ setStatusCode(r, sc).out = value(os, sc)
        /\ setStatusCode(r, sc).statusCode = sc
        /\ setStatusCode(r, sc).statusCodeSet
    BY <1>2 DEF setStatusCode, Response
  <2> QED
    BY <1>2, <2>3, <2>4 DEF Told, After
<1> QED
  BY <1>1, <1>2 DEF Response

LEMMA getResultStreamTold ==
  ASSUME NEW r \in Response, Told(r)
  PROVE  Told(getResultStream(r)) /\ After(r, getResultStream(r))
<1>1. CASE r.resultStarted
  BY <1>1 DEF getResultStream, After
<1>2. CASE ~r.resultStarted
  <2>1. PICK k \in {"error", "result"} :
          getResultStream(r) = [r EXCEPT !.resultStarted = TRUE, !.out = write(@, k)]
    BY <1>2 DEF getResultStream
  <2>2. r.out \in Stream /\ k \in Tokens /\ k \notin StatusCode
    BY DEF Response, Tokens, StatusCode
  <2>3. write(r.out, k).text.told = r.out.text.told
    BY <2>2, WriteTold
  <2>4. /\ getResultStream(r).out = write(r.out, k)
        /\ getResultStream(r).statusCode = r.statusCode
        /\ getResultStream(r).statusCodeSet = r.statusCodeSet
    BY <2>1 DEF Response
  <2> QED
    BY <2>3, <2>4 DEF Told, After
<1> QED
  BY <1>1, <1>2 DEF Response

LEMMA MessageTold ==
  ASSUME NEW r \in Response, NEW message, Told(r)
  PROVE  Told(Message(r, message)) /\ After(r, Message(r, message))
<1>1. {"value", "startObject", "key", "endObject"} \subseteq StreamOps
  BY DEF StreamOps
<1> DEFINE r1 == Written(r, "startObject")
           r2 == Written(r1, "key")
           r3 == Written(r2, "value")
           r4 == Written(r3, "endObject")
<1>2. r1 \in Response /\ Told(r1) /\ After(r, r1)
  BY <1>1, WrittenType, WrittenTold
<1>3. r2 \in Response /\ Told(r2) /\ After(r1, r2)
  BY <1>1, <1>2, WrittenType, WrittenTold
<1>4. r3 \in Response /\ Told(r3) /\ After(r2, r3)
  BY <1>1, <1>3, WrittenType, WrittenTold
<1>5. Told(r4) /\ After(r3, r4)
  BY <1>1, <1>4, WrittenTold
<1>6. After(r, r4)
  BY <1>2, <1>3, <1>4, <1>5 DEF After
<1>7. Told(Written(r, "value")) /\ After(r, Written(r, "value"))
  BY <1>1, WrittenTold
<1> QED
  BY <1>5, <1>6, <1>7 DEF Message

LEMMA ApplyTold ==
  ASSUME NEW r \in Response, NEW op \in Ops, Told(r)
  PROVE  /\ Told(Apply(r, op)) /\ After(r, Apply(r, op))
         /\ op \in StatusOps => Apply(r, op).statusCodeSet
<1>1. CASE op \in StatusOps
  <2> DEFINE r1 == setStatusCode(r, op.status)
             r2 == getResultStream(r1)
             r3 == Message(r2, op.message)
  <2>1. op.status \in StatusCode
    BY <1>1 DEF StatusOps
  <2>2. r1 \in Response /\ Told(r1) /\ After(r, r1) /\ r1.statusCodeSet
    BY <2>1, setStatusCodeType, setStatusCodeTold
  <2>3. r2 \in Response /\ Told(r2) /\ After(r1, r2)
    BY <2>2, getResultStreamType, getResultStreamTold
  <2>4. Told(r3) /\ After(r2, r3)
    BY <2>3, MessageTold
  <2>5. After(r, r3) /\ r3.statusCodeSet
    BY <2>2, <2>3, <2>4 DEF After
  <2>6. Apply(r, op) = r1 \/ Apply(r, op) = r3
    BY <1>1 DEF Apply, setStatusCodeAndMessage
  <2> QED
    BY <2>2, <2>4, <2>5, <2>6
<1>2. CASE op \notin StatusOps
  <2>1. PICK i \in StreamOps \cup {"result"} : op = [insert |-> i]
    BY <1>2 DEF Ops
  <2>2. CASE i = "result"
    BY <1>2, <2>1, <2>2, getResultStreamTold DEF Apply
  <2>3. CASE i # "result"
    BY <1>2, <2>1, <2>3, WrittenTold DEF Apply
  <2> QED
    BY <1>2, <2>2, <2>3
<1> QED
  BY <1>1, <1>2

-----------------------------------------------------------------------------
(* Where the status of a command that is not done is: set, among the insertions
   still to come, or in whatever ends the command.                         *)
Promised ==
  \/ response.statusCodeSet
  \/ Tells(todo)
  \/ phase \in {"starting", "waiting"} /\ EndsTell(command)

StatusInv ==
  /\ TypeOK
  /\ Told(response)
  /\ phase # "done" => Promised
  /\ phase = "done" /\ command # None => response.statusCodeSet /\ returned = response.statusCode

LEMMA RefusalsTell == \A w \in Refusals : Tells(w)
<1>1. \A sc \in StatusCode, m \in {"none", "scalar", "object"} : [status |-> sc, message |-> m] \in StatusOps
  BY DEF StatusOps
<1>2. \A w \in Refusals : 1 \in 1 .. Len(w) /\ w[1] \in StatusOps
  BY <1>1 DEF Refusals, StatusCode
<1> QED
  BY <1>2 DEF Tells

LEMMA TellsTail ==
  ASSUME NEW w \in Seq(Ops), w # <<>>, Tells(w)
  PROVE  Head(w) \in StatusOps \/ Tells(Tail(w))
<1>1. PICK n \in 1 .. Len(w) : w[n] \in StatusOps
  BY DEF Tells
<1>2. CASE n = 1
  BY <1>1, <1>2
<1>3. CASE n # 1
  <2>1. Len(w) \in Nat /\ Len(Tail(w)) = Len(w) - 1
    BY LenProperties, HeadTailProperties
  <2>2. n - 1 \in 1 .. Len(Tail(w))
    BY <1>3, <2>1
  <2>3. Tail(w)[n - 1] = w[n]
    BY <2>1, <2>2, HeadTailProperties
  <2> QED
    BY <1>1, <2>2, <2>3 DEF Tells
<1> QED
  BY <1>2, <1>3

LEMMA NothingTells == ~Tells(<<>>)
BY DEF Tells

LEMMA NewResponseTold == Told(NewResponse) /\ Told(close(NewResponse))
<1>1. NewStream \in Stream
  BY EmptySeq DEF NewStream, Stream, Reader!EmptyText, Reader!Text
<1>2. Insert(NewStream, "startObject").text.told = <<>>
  BY <1>1, InsertTold DEF StreamOps, NewStream, Reader!EmptyText
<1>3. Told(NewResponse)
  BY <1>2 DEF NewResponse, Told
<1> QED
  BY <1>3, NewResponseType, WrittenTold DEF close, StreamOps

LEMMA CloseTold ==
  ASSUME NEW r \in Response, Told(r)
  PROVE  /\ Told(close(r)) /\ close(r).statusCodeSet = r.statusCodeSet
         /\ close(r).statusCode = r.statusCode
BY WrittenTold DEF close, StreamOps, Written, Response

(* If every command of the table tells a status then each that is done has told
   exactly one, the code the command line was given, whoever of the handler, the
   callbacks and the timeout came to write it first (CommandResponse.cpp:47). *)
THEOREM StatusIsToldOnce == ASSUME EveryCommandTells PROVE Spec => []StatusToldOnce
<1>1. Init => StatusInv
  BY NewResponseType, CloseType, EmptySeq, MaxReportsAssumption, NewResponseTold DEF Init, TypeOK, StatusInv
<1>2. StatusInv /\ TypeOK' /\ [Next]_vars => StatusInv'
  <2> SUFFICES ASSUME StatusInv, TypeOK', [Next]_vars
               PROVE  StatusInv'
    OBVIOUS
  <2> USE NoneAssumption DEF StatusInv
  <2>1. ASSUME NEW c \in Command, Call(c)
        PROVE  StatusInv'
    <3>1. Told(response)'
      BY <2>1, NewResponseTold DEF Call
    <3>2. phase' # "done" /\ command' = c
      BY <2>1 DEF Call
    <3>3. CASE phase' = "answering"
      <4>1. Tells(todo')
        BY <2>1, <3>3, RefusalsTell, EveryCommandTells DEF Call, EveryCommandTells
      <4> QED
        BY <3>1, <3>2, <4>1 DEF Promised
    <3>4. CASE phase' = "starting"
      <4>1. Tells(todo') \/ EndsTell(c)
        BY <2>1, <3>4, EveryCommandTells DEF Call, EveryCommandTells
      <4> QED
        BY <3>1, <3>2, <3>4, <4>1 DEF Promised
    <3> QED
      BY <2>1, <3>3, <3>4 DEF Call
  <2>2. CASE Write
    <3>1. todo # <<>> /\ Head(todo) \in Ops
      BY <2>2, HeadTailProperties DEF Write, TypeOK
    <3>2. response \in Response /\ todo \in Seq(Ops) /\ phase # "done"
      BY <3>1 DEF TypeOK
    <3>3. /\ Told(response') /\ After(response, response')
          /\ Head(todo) \in StatusOps => response'.statusCodeSet
      BY <2>2, <3>1, <3>2, ApplyTold DEF Write
    <3>4. Tells(todo) => Head(todo) \in StatusOps \/ Tells(todo')
      BY <2>2, <3>1, <3>2, TellsTail DEF Write
    <3>5. Promised'
      BY <2>2, <3>2, <3>3, <3>4 DEF Write, Promised, After
    <3> QED
      BY <2>2, <3>2, <3>3, <3>5 DEF Write
  <2>3. CASE Return
    <3>1. response \in Response /\ response.statusCodeSet
      BY <2>3, NothingTells DEF Return, Promised, TypeOK
    <3> QED
      BY <2>3, <3>1, CloseTold DEF Return
  <2>4. CASE Continue
    BY <2>4, NothingTells DEF Continue, Promised
  <2>5. CASE Report
    BY <2>5, NothingTells DEF Report, Promised
  <2>6. CASE End
    <3>1. (reported = 0) \in BOOLEAN
      OBVIOUS
    <3>2. response.statusCodeSet \/ EndsTell(command)
      BY <2>6, NothingTells DEF End, Promised
    <3>3. response.statusCodeSet \/ Tells(todo')
      BY <2>6, <3>1, <3>2 DEF End, EndsTell
    <3> QED
      BY <2>6, <3>3 DEF End, Promised
  <2>7. CASE Release
    <3>1. response \in Response /\ response.statusCodeSet
      BY <2>7, NothingTells DEF Release, Promised, TypeOK
    <3> QED
      BY <2>7, <3>1, CloseTold DEF Release
  <2>8. CASE UNCHANGED vars
    BY <2>8 DEF vars, Promised
  <2> QED
    BY <2>1, <2>2, <2>3, <2>4, <2>5, <2>6, <2>7, <2>8 DEF Next
<1>3. StatusInv => StatusToldOnce
  BY DEF StatusInv, Told, StatusToldOnce
<1> QED
  BY <1>1, <1>2, <1>3, TypeCorrect, PTL DEF Spec

-----------------------------------------------------------------------------
(* When a comma is due.                                                    *)

Due(os) == os.text.ok => (os.startNewValue <=> os.text.last = "value")

LEMMA WriteLast ==
  ASSUME NEW os \in Stream, NEW token \in Tokens
  PROVE  write(os, token).text.ok => write(os, token).text.last = Reader!Last(Reader!Kind(token))
<1> DEFINE text == handleNewValue(os).text
<1>1. handleNewValue(os) \in Stream
  <2>1. "," \in Tokens
    BY DEF Tokens
  <2>2. puts(os, ",") \in Stream
    BY <2>1, PrintType
  <2> QED
    BY <2>2 DEF handleNewValue, Stream
<1>2. write(os, token).text = Reader!Read(text, token)
  BY <1>1, PrintType DEF write
<1>3. /\ Reader!Read(text, token).ok <=> text.ok /\ Reader!Follows(text, Reader!Kind(token))
      /\ text.ok => Reader!Read(text, token).last = Reader!Last(Reader!Kind(token))
  BY DEF Reader!Read
<1> QED
  BY <1>2, <1>3

(* A key or a bracket that opens leaves none due, ...                      *)
LEMMA WriteDue ==
  ASSUME NEW os \in Stream, NEW token \in {"{", "[", "member", "status", "result", "error"}
  PROVE  Due(write(os, token))
<1>1. token \in Tokens
  BY DEF Tokens
<1>2. Reader!Last(Reader!Kind(token)) # "value"
  BY DEF Reader!Last, Reader!Kind, Reader!Keys, Reader!Scalars, StatusCode
<1> QED
  BY <1>1, <1>2, WriteLast, WriteType DEF Due

(* ... a value that is committed leaves one due, ...                       *)
LEMMA ValueDue ==
  ASSUME NEW os \in Stream, NEW token \in StatusCode \cup {"value"}
  PROVE  Due(value(os, token))
<1>1. token \in Tokens
  BY DEF Tokens
<1>2. Reader!Last(Reader!Kind(token)) = "value"
  BY DEF Reader!Last, Reader!Kind, Reader!Keys, Reader!Scalars, StatusCode
<1>3. value(os, token).text = write(os, token).text /\ value(os, token).startNewValue
  BY <1>1, WriteType DEF value, commitValue, Stream
<1> QED
  BY <1>1, <1>2, <1>3, WriteLast DEF Due

(* ... and so does the end of a container.                                 *)
LEMMA EndContainerDue ==
  ASSUME NEW os \in Stream, NEW bracket \in {"}", "]"}
  PROVE  Due(endContainer(os, bracket))
<1> DEFINE undue == [os EXCEPT !.startNewValue = FALSE]
<1>1. bracket \in Tokens /\ undue \in Stream
  BY DEF Tokens, Stream
<1>2. Reader!Last(Reader!Kind(bracket)) = "value"
  BY DEF Reader!Last, Reader!Kind, Reader!Keys, Reader!Scalars, StatusCode
<1>3. write(undue, bracket) \in Stream
  BY <1>1, WriteType
<1>4. endContainer(os, bracket).text = write(undue, bracket).text /\ endContainer(os, bracket).startNewValue
  BY <1>3 DEF endContainer, commitValue, Stream
<1> QED
  BY <1>1, <1>2, <1>4, WriteLast DEF Due

LEMMA WrittenDue ==
  ASSUME NEW r \in Response, NEW i \in StreamOps \ {"format"}
  PROVE  Due(Written(r, i).out)
<1>1. r.out \in Stream /\ Written(r, i).out = Insert(r.out, i)
  BY DEF Response, Written
<1>2. CASE i \in {"startArray", "startObject", "key"}
  BY <1>1, <1>2, WriteDue DEF Insert
<1>3. CASE i \in {"endArray", "endObject"}
  BY <1>1, <1>3, EndContainerDue DEF Insert
<1>4. CASE i = "value"
  BY <1>1, <1>4, ValueDue DEF Insert
<1> QED
  BY <1>2, <1>3, <1>4 DEF StreamOps

LEMMA setStatusCodeDue ==
  ASSUME NEW r \in Response, NEW sc \in StatusCode, Due(r.out)
  PROVE  Due(setStatusCode(r, sc).out)
<1>1. CASE r.statusCodeSet
  BY <1>1 DEF setStatusCode
<1>2. CASE ~r.statusCodeSet
  <2>1. write(r.out, "status") \in Stream
    BY WriteType DEF Response, Tokens
  <2>2. setStatusCode(r, sc).out = value(write(r.out, "status"), sc)
    BY <1>2 DEF setStatusCode, Response
  <2> QED
    BY <2>1, <2>2, ValueDue
<1> QED
  BY <1>1, <1>2

LEMMA getResultStreamDue ==
  ASSUME NEW r \in Response, Due(r.out)
  PROVE  Due(getResultStream(r).out)
<1>1. CASE r.resultStarted
  BY <1>1 DEF getResultStream
<1>2. CASE ~r.resultStarted
  <2>1. PICK k \in {"error", "result"} :
          getResultStream(r) = [r EXCEPT !.resultStarted = TRUE, !.out = write(@, k)]
    BY <1>2 DEF getResultStream
  <2>2. getResultStream(r).out = write(r.out, k) /\ r.out \in Stream
    BY <2>1 DEF Response
  <2> QED
    BY <2>2, WriteDue
<1> QED
  BY <1>1, <1>2

LEMMA MessageDue ==
  ASSUME NEW r \in Response, NEW message
  PROVE  Due(Message(r, message).out)
<1>1. {"value", "startObject", "key", "endObject"} \subseteq StreamOps \ {"format"}
  BY DEF StreamOps
<1> DEFINE r1 == Written(r, "startObject")
           r2 == Written(r1, "key")
           r3 == Written(r2, "value")
<1>2. r1 \in Response
  BY <1>1, WrittenType
<1>3. r2 \in Response
  BY <1>1, <1>2, WrittenType
<1>4. r3 \in Response
  BY <1>1, <1>3, WrittenType
<1>5. Due(Written(r3, "endObject").out) /\ Due(Written(r, "value").out)
  BY <1>1, <1>4, WrittenDue
<1> QED
  BY <1>5 DEF Message

LEMMA ApplyDue ==
  ASSUME NEW r \in Response, NEW op \in Ops, op # [insert |-> "format"], Due(r.out)
  PROVE  Due(Apply(r, op).out)
<1>1. CASE op \in StatusOps
  <2>1. op.status \in StatusCode
    BY <1>1 DEF StatusOps
  <2>2. setStatusCode(r, op.status) \in Response /\ Due(setStatusCode(r, op.status).out)
    BY <2>1, setStatusCodeType, setStatusCodeDue
  <2>3. Due(Message(getResultStream(setStatusCode(r, op.status)), op.message).out)
    BY <2>2, getResultStreamType, MessageDue
  <2> QED
    BY <1>1, <2>2, <2>3 DEF Apply, setStatusCodeAndMessage
<1>2. CASE op \notin StatusOps
  <2>1. PICK i \in StreamOps \cup {"result"} : op = [insert |-> i]
    BY <1>2 DEF Ops
  <2>2. CASE i = "result"
    BY <1>2, <2>1, <2>2, getResultStreamDue DEF Apply
  <2>3. CASE i # "result"
    BY <1>2, <2>1, <2>3, WrittenDue DEF Apply
  <2> QED
    BY <2>2, <2>3
<1> QED
  BY <1>1, <1>2

LEMMA RefusalsCommit == \A w \in Refusals : Commits(w)
<1>1. ASSUME NEW op \in StatusOps
      PROVE  op # [insert |-> "format"]
  <2>1. DOMAIN op = {"status", "message"} /\ DOMAIN [insert |-> "format"] = {"insert"}
    BY DEF StatusOps
  <2> QED
    BY <2>1
<1>2. \A sc \in StatusCode, m \in {"none", "scalar", "object"} : [status |-> sc, message |-> m] \in StatusOps
  BY DEF StatusOps
<1>3. ASSUME NEW w \in Refusals, NEW n \in 1 .. Len(w)
      PROVE  w[n] \in StatusOps \/ \E i \in {"result", "startObject", "key", "value", "endObject"} : w[n] = [insert |-> i]
  <2>1. CASE Len(w) = 1
    BY <1>2, <2>1 DEF Refusals, StatusCode
  <2>2. CASE Len(w) = 6
    <3>1. w = <<[status |-> "INVALID_PARAMETERS", message |-> "none"], [insert |-> "result"],
                [insert |-> "startObject"], [insert |-> "key"], [insert |-> "value"], [insert |-> "endObject"]>>
      BY <2>2 DEF Refusals
    <3>2. n \in {1, 2, 3, 4, 5, 6}
      BY <2>2
    <3>3. n = 1 => w[n] \in StatusOps
      BY <1>2, <3>1 DEF StatusCode
    <3>4. n # 1 => \E i \in {"result", "startObject", "key", "value", "endObject"} : w[n] = [insert |-> i]
      BY <3>1, <3>2
    <3> QED
      BY <3>3, <3>4
  <2>3. Len(w) \in {1, 6}
    BY DEF Refusals
  <2> QED
    BY <2>1, <2>2, <2>3
<1>4. \A i \in {"result", "startObject", "key", "value", "endObject"} : [insert |-> i] # [insert |-> "format"]
  <2>1. TAKE i \in {"result", "startObject", "key", "value", "endObject"}
  <2>2. [insert |-> i].insert # [insert |-> "format"].insert
    OBVIOUS
  <2> QED
    BY <2>2
<1> QED
  BY <1>1, <1>3, <1>4 DEF Commits

LEMMA CommitsTail ==
  ASSUME NEW w \in Seq(Ops), w # <<>>, Commits(w)
  PROVE  Head(w) # [insert |-> "format"] /\ Commits(Tail(w))
<1>1. Len(w) \in Nat \ {0} /\ Len(Tail(w)) = Len(w) - 1
  BY EmptySeq, HeadTailProperties
<1>2. \A n \in 1 .. Len(Tail(w)) : Tail(w)[n] = w[n + 1] /\ n + 1 \in 1 .. Len(w)
  BY <1>1, HeadTailProperties
<1>3. 1 \in 1 .. Len(w) /\ Head(w) = w[1]
  BY <1>1
<1> QED
  BY <1>2, <1>3 DEF Commits

CommaInv ==
  /\ TypeOK
  /\ Due(response.out)
  /\ Commits(todo)

(* If every value is committed then the stream knows when a comma is due, even in a
   document that is not well-formed otherwise (JSONOutputStream.cpp:165): it is where
   a value is not that startNewValue goes wrong.                           *)
THEOREM CommaIsKnown == ASSUME EveryValueIsCommitted PROVE Spec => []CommaIsDue
<1>1. Init => CommaInv
  BY NewResponseType, CloseType, EmptySeq, MaxReportsAssumption, WrittenDue
     DEF Init, TypeOK, CommaInv, Commits, close, StreamOps
<1>2. CommaInv /\ TypeOK' /\ [Next]_vars => CommaInv'
  <2> SUFFICES ASSUME CommaInv, TypeOK', [Next]_vars
               PROVE  CommaInv'
    OBVIOUS
  <2> USE NoneAssumption DEF CommaInv
  <2>1. ASSUME NEW c \in Command, Call(c)
        PROVE  CommaInv'
    <3>1. NewStream \in Stream
      BY EmptySeq DEF NewStream, Stream, Reader!EmptyText, Reader!Text
    <3>2. Due(response.out)'
      BY <2>1, <3>1, WriteDue DEF Call, NewResponse, Insert
    <3>3. Commits(todo')
      BY <2>1, RefusalsCommit, EveryValueIsCommitted DEF Call, EveryValueIsCommitted
    <3> QED
      BY <3>2, <3>3
  <2>2. CASE Write
    <3>1. todo # <<>> /\ Head(todo) \in Ops
      BY <2>2, HeadTailProperties DEF Write, TypeOK
    <3>2. Head(todo) # [insert |-> "format"] /\ Commits(todo')
      BY <2>2, <3>1, CommitsTail DEF Write, TypeOK
    <3>3. Due(response.out)'
      BY <2>2, <3>1, <3>2, ApplyDue DEF Write, TypeOK
    <3> QED
      BY <3>2, <3>3
  <2>3. CASE Return \/ Release
    <3>1. "endObject" \in StreamOps \ {"format"} /\ response \in Response
      BY DEF StreamOps, TypeOK
    <3>2. Due(response.out)'
      BY <2>3, <3>1, WrittenDue DEF Return, Release, close
    <3> QED
      BY <2>3, <3>2 DEF Return, Release
  <2>4. CASE Continue
    BY <2>4 DEF Continue
  <2>5. CASE Report
    <3>1. command \in Command /\ (reported = 0) \in BOOLEAN
      BY <2>5 DEF Report, TypeOK
    <3>2. Commits(todo')
      BY <2>5, <3>1, EveryValueIsCommitted DEF Report, EveryValueIsCommitted
    <3> QED
      BY <2>5, <3>2 DEF Report
  <2>6. CASE End
    <3>1. command \in Command /\ (reported = 0) \in BOOLEAN
      BY <2>6 DEF End, TypeOK
    <3>2. Commits(todo')
      BY <2>6, <3>1, EveryValueIsCommitted DEF End, EveryValueIsCommitted
    <3> QED
      BY <2>6, <3>2 DEF End
  <2>7. CASE UNCHANGED vars
    BY <2>7 DEF vars
  <2> QED
    BY <2>1, <2>2, <2>3, <2>4, <2>5, <2>6, <2>7 DEF Next
<1>3. CommaInv => CommaIsDue
  BY DEF CommaInv, Due, CommaIsDue
<1> QED
  BY <1>1, <1>2, <1>3, TypeCorrect, PTL DEF Spec
-----------------------------------------------------------------------------
(* The rules of those who write.  First: a recursive function is what its
   definition says, by induction over the numbers up to n.                 *)

(* f is what Forms defines, up to m.                                       *)
RunsTo(f, form, w, m) ==
  f = [n \in 0 .. m |-> IF n = 0 THEN form ELSE NextForm(f[n - 1], w[n])]

LEMMA RunExists ==
  ASSUME NEW form, NEW w, NEW k \in Nat
  PROVE  \E f : RunsTo(f, form, w, k)
<1> DEFINE bad == {m \in Nat : ~\E f : RunsTo(f, form, w, m)}
<1>1. CASE bad = {}
  BY <1>1
<1>2. CASE bad # {}
  <2>1. PICK m \in bad : \A j \in bad : ~(j < m)
    <3> HIDE DEF bad
    <3>1. bad \subseteq Nat
      BY DEF bad
    <3> QED
      BY <1>2, <3>1, LeastIndex
  <2>2. CASE m = 0
    <3>1. RunsTo([n \in 0 .. 0 |-> form], form, w, 0)
      BY DEF RunsTo
    <3> QED
      BY <2>2, <3>1
  <2>3. CASE m # 0
    <3>1. m \in Nat /\ m - 1 \in Nat /\ m - 1 < m
      BY <2>3
    <3>2. m - 1 \notin bad
      BY <2>1, <3>1
    <3>3. PICK f : RunsTo(f, form, w, m - 1)
      BY <3>1, <3>2
    <3> DEFINE g == [n \in 0 .. m |-> IF n < m THEN f[n] ELSE NextForm(f[m - 1], w[m])]
    <3>4. ASSUME NEW n \in 0 .. m
          PROVE  g[n] = IF n = 0 THEN form ELSE NextForm(g[n - 1], w[n])
      <4>1. n \in Nat /\ n <= m
        OBVIOUS
      <4>2. CASE n = 0
        <5>1. g[n] = f[0]
          BY <2>3, <4>2
        <5>2. f[0] = form
          BY <3>1, <3>3 DEF RunsTo
        <5> QED
          BY <4>2, <5>1, <5>2
      <4>3. CASE n # 0 /\ n < m
        <5>1. g[n] = f[n] /\ g[n - 1] = f[n - 1]
          BY <3>1, <4>1, <4>3
        <5>2. n \in 0 .. m - 1
          BY <3>1, <4>1, <4>3
        <5>3. f[n] = NextForm(f[n - 1], w[n])
          BY <3>3, <4>3, <5>2 DEF RunsTo
        <5> QED
          BY <4>3, <5>1, <5>3
      <4>4. CASE n = m
        <5>1. g[n] = NextForm(f[m - 1], w[m]) /\ g[m - 1] = f[m - 1]
          BY <3>1, <4>4
        <5> QED
          BY <2>3, <4>4, <5>1
      <4> QED
        BY <3>1, <4>1, <4>2, <4>3, <4>4
    <3>5. RunsTo(g, form, w, m)
      BY <3>4 DEF RunsTo
    <3> QED
      BY <3>5
  <2> QED
    BY <2>2, <2>3
<1> QED
  BY <1>1, <1>2

LEMMA FormsStep ==
  ASSUME NEW form, NEW w, Len(w) \in Nat
  PROVE  /\ Forms(form, w)[0] = form
         /\ \A n \in 1 .. Len(w) : Forms(form, w)[n] = NextForm(Forms(form, w)[n - 1], w[n])
<1>1. \E f : RunsTo(f, form, w, Len(w))
  BY RunExists
<1>2. Forms(form, w) = CHOOSE f : RunsTo(f, form, w, Len(w))
  BY DEF Forms, RunsTo
<1>3. RunsTo(Forms(form, w), form, w, Len(w))
  BY <1>1, <1>2
<1> QED
  BY <1>3 DEF RunsTo

(* What is left to write runs through the forms that are left.             *)
LEMMA FormsTail ==
  ASSUME NEW form, NEW w \in Seq(Ops), w # <<>>
  PROVE  \A n \in 0 .. Len(w) - 1 :
           Forms(NextForm(form, Head(w)), Tail(w))[n] = Forms(form, w)[n + 1]
<1> DEFINE f == Forms(form, w)
           g == Forms(NextForm(form, Head(w)), Tail(w))
           bad == {n \in 0 .. Len(w) - 1 : g[n] # f[n + 1]}
<1>1. /\ Len(w) \in Nat \ {0} /\ Len(Tail(w)) = Len(w) - 1
      /\ \A n \in 1 .. Len(w) - 1 : Tail(w)[n] = w[n + 1]
      /\ Head(w) = w[1]
  BY EmptySeq, HeadTailProperties
<1>2. /\ f[0] = form
      /\ \A n \in 1 .. Len(w) : f[n] = NextForm(f[n - 1], w[n])
      /\ g[0] = NextForm(form, Head(w))
      /\ \A n \in 1 .. Len(w) - 1 : g[n] = NextForm(g[n - 1], Tail(w)[n])
  <2>1. f[0] = form /\ \A n \in 1 .. Len(w) : f[n] = NextForm(f[n - 1], w[n])
    BY <1>1, FormsStep
  <2> DEFINE next == NextForm(form, Head(w))
             rest == Tail(w)
             h == Forms(next, rest)
  <2>2. Len(rest) \in Nat
    BY <1>1
  <2> HIDE DEF next, rest
  <2>3. h[0] = next /\ \A n \in 1 .. Len(rest) : h[n] = NextForm(h[n - 1], rest[n])
    BY <2>2, FormsStep
  <2>4. Len(rest) = Len(w) - 1
    BY <1>1 DEF rest
  <2> QED
    BY <2>1, <2>3, <2>4 DEF next, rest
<1> HIDE DEF f, g
<1>3. CASE bad # {}
  <2>1. PICK n \in bad : \A j \in bad : ~(j < n)
    <3>1. bad \subseteq Nat
      OBVIOUS
    <3> HIDE DEF bad
    <3> QED
      BY <1>3, <3>1, LeastIndex
  <2>2. n \in 0 .. Len(w) - 1 /\ g[n] # f[n + 1]
    OBVIOUS
  <2>3. CASE n = 0
    <3>1. f[1] = NextForm(f[0], w[1])
      BY <1>1, <1>2
    <3> QED
      BY <1>1, <1>2, <2>2, <2>3, <3>1
  <2>4. CASE n # 0
    <3>1. n - 1 \in 0 .. Len(w) - 1 /\ n - 1 < n /\ n \in 1 .. Len(w) - 1 /\ n + 1 \in 1 .. Len(w)
      BY <1>1, <2>2, <2>4
    <3>2. n - 1 \notin bad
      BY <2>1, <3>1
    <3>3. g[n - 1] = f[(n - 1) + 1] /\ (n - 1) + 1 = n /\ (n + 1) - 1 = n
      BY <3>1, <3>2
    <3>4. g[n] = NextForm(f[n], w[n + 1])
      BY <1>1, <1>2, <3>1, <3>3
    <3>5. f[n + 1] = NextForm(f[n], w[n + 1])
      BY <1>2, <3>1, <3>3
    <3> QED
      BY <2>2, <3>4, <3>5
  <2> QED
    BY <2>3, <2>4
<1>4. CASE bad = {}
  BY <1>4 DEF f, g
<1> QED
  BY <1>3, <1>4

(* Whoever has kept the rules so far keeps them with what is left.         *)
LEMMA RulesTail ==
  ASSUME NEW form, NEW w \in Seq(Ops), w # <<>>, KeepsRules(form, w)
  PROVE  /\ Allowed(form, Head(w))
         /\ KeepsRules(NextForm(form, Head(w)), Tail(w))
         /\ FormAfter(NextForm(form, Head(w)), Tail(w)) = FormAfter(form, w)
<1> DEFINE f == Forms(form, w)
           g == Forms(NextForm(form, Head(w)), Tail(w))
<1>1. /\ Len(w) \in Nat \ {0} /\ Len(Tail(w)) = Len(w) - 1
      /\ \A n \in 1 .. Len(w) - 1 : Tail(w)[n] = w[n + 1]
      /\ Head(w) = w[1]
  BY EmptySeq, HeadTailProperties
<1>2. f[0] = form /\ \A n \in 0 .. Len(w) - 1 : g[n] = f[n + 1]
  BY <1>1, FormsStep, FormsTail
<1>3. \A n \in 1 .. Len(w) : Allowed(f[n - 1], w[n])
  BY DEF KeepsRules
<1> HIDE DEF f, g
<1>4. Allowed(form, Head(w))
  <2>1. 1 \in 1 .. Len(w) /\ 1 - 1 = 0
    BY <1>1
  <2> QED
    BY <1>1, <1>2, <1>3, <2>1
<1>5. ASSUME NEW n \in 1 .. Len(Tail(w))
      PROVE  Allowed(g[n - 1], Tail(w)[n])
  <2>1. n - 1 \in 0 .. Len(w) - 1 /\ n + 1 \in 1 .. Len(w) /\ (n - 1) + 1 = n /\ (n + 1) - 1 = n
    BY <1>1
  <2>2. Allowed(f[n], w[n + 1])
    BY <1>3, <2>1
  <2> QED
    BY <1>1, <1>2, <2>1, <2>2
<1>6. g[Len(Tail(w))] = f[Len(w)]
  BY <1>1, <1>2
<1> QED
  BY <1>4, <1>5, <1>6 DEF KeepsRules, FormAfter, f, g

LEMMA RulesEnd == \A form : KeepsRules(form, <<>>) /\ FormAfter(form, <<>>) = form
<1> SUFFICES ASSUME NEW form PROVE KeepsRules(form, <<>>) /\ FormAfter(form, <<>>) = form
  OBVIOUS
<1>1. Len(<<>>) = 0
  BY EmptySeq
<1>2. Forms(form, <<>>)[0] = form
  BY <1>1, FormsStep
<1> QED
  BY <1>1, <1>2 DEF KeepsRules, FormAfter
-----------------------------------------------------------------------------
(* What is printed by those who keep the rules is the beginning of a document. *)

DocumentForm ==
  [open : Seq({"object", "array"}), awaits : BOOLEAN,
   code : StatusCode \cup {"none"}, body : {"none", "result", "error"}]

(* Nothing is printed after a comma before what the comma is for.          *)
Sound(os) ==
  /\ os.text.ok
  /\ os.text.last # "comma"
  /\ os.startNewValue <=> os.text.last = "value"
  /\ os.text.last = "start" => os.text.open = <<>>
  /\ os.text.last = "open" => os.text.open # <<>>
  /\ os.text.last = "key" => Reader!Innermost(os.text) = "object"

IsForm(os, form) ==
  /\ Sound(os)
  /\ form.open = os.text.open
  /\ form.awaits <=> os.text.last \in {"start", "key"}

LEMMA ReadFields ==
  ASSUME NEW text, NEW token, text.ok
  PROVE  /\ Reader!Read(text, token).open = Reader!Opened(text, Reader!Kind(token))
         /\ Reader!Read(text, token).last = Reader!Last(Reader!Kind(token))
         /\ Reader!Read(text, token).ok <=> Reader!Follows(text, Reader!Kind(token))
         /\ Reader!Read(text, token).members =
              IF token \in {"status", "result", "error"} THEN Append(text.members, token) ELSE text.members
  BY DEF Reader!Read

LEMMA Separated ==
  ASSUME NEW os \in Stream, Sound(os)
  PROVE  /\ handleNewValue(os) \in Stream
         /\ handleNewValue(os).text.open = os.text.open
         /\ handleNewValue(os).text.members = os.text.members
         /\ os.text.last # "value" => handleNewValue(os) = os
         /\ os.text.last = "value" /\ os.text.open # <<>> =>
              handleNewValue(os).text.ok /\ handleNewValue(os).text.last = "comma"
<1>1. CASE ~os.startNewValue
  BY <1>1 DEF handleNewValue, Sound
<1>2. CASE os.startNewValue
  <2> DEFINE s == puts(os, ",")
  <2>1. "," \in Tokens /\ os.text.last = "value" /\ os.text.ok
    BY <1>2 DEF Tokens, Sound
  <2>2. s \in Stream /\ s.text = Reader!Read(os.text, ",")
    BY <2>1, PrintType
  <2> HIDE DEF s
  <2>3. Reader!Kind(",") = ","
    BY DEF Reader!Kind, Reader!Keys, Reader!Scalars, StatusCode
  <2>4. /\ s.text.open = os.text.open /\ s.text.members = os.text.members
        /\ s.text.last = "comma"
    <3>1. Reader!Opened(os.text, ",") = os.text.open /\ Reader!Last(",") = "comma"
      BY DEF Reader!Opened, Reader!Last
    <3>2. /\ Reader!Read(os.text, ",").open = Reader!Opened(os.text, Reader!Kind(","))
          /\ Reader!Read(os.text, ",").last = Reader!Last(Reader!Kind(","))
          /\ Reader!Read(os.text, ",").members =
               IF "," \in {"status", "result", "error"} THEN Append(os.text.members, ",") ELSE os.text.members
      BY <2>1, ReadFields, Zenon
    <3> QED
      BY <2>2, <2>3, <3>1, <3>2
  <2>5. os.text.open # <<>> => s.text.ok
    <3>1. os.text.open # <<>> => Reader!Innermost(os.text) # "document"
      <4> SUFFICES ASSUME os.text.open # <<>> PROVE Reader!Innermost(os.text) \in {"object", "array"}
        OBVIOUS
      <4>1. os.text.open \in Seq({"object", "array"})
        BY DEF Stream, Reader!Text
      <4>2. Len(os.text.open) \in 1 .. Len(os.text.open)
        BY <4>1, EmptySeq
      <4> QED
        BY <4>1, <4>2, ElementOfSeq DEF Reader!Innermost
    <3> QED
      <4>1. Reader!Follows(os.text, ",") <=> Reader!Innermost(os.text) # "document"
        BY <2>1 DEF Reader!Follows
      <4>2. Reader!Read(os.text, ",").ok <=> Reader!Follows(os.text, Reader!Kind(","))
        BY <2>1, ReadFields, Zenon
      <4> QED
        BY <2>2, <2>3, <3>1, <4>1, <4>2
  <2>6. handleNewValue(os) = [s EXCEPT !.startNewValue = FALSE]
    BY <1>2 DEF handleNewValue, s
  <2>7. handleNewValue(os) \in Stream /\ handleNewValue(os).text = s.text
    BY <2>2, <2>6 DEF Stream
  <2> QED
    BY <2>1, <2>4, <2>5, <2>7
<1> QED
  BY <1>1, <1>2 DEF Stream

(* A value where one is expected, and a key where none awaits its value, go on
   with the document.                                                      *)
MayGoOn(text, kind) ==
  \/ /\ kind \in {"{", "[", "value"}
     /\ text.last \in {"start", "key"} \/ Reader!Innermost(text) = "array"
  \/ /\ kind = "key"
     /\ text.last \notin {"start", "key"} /\ Reader!Innermost(text) = "object"

GoesOn(text, next, token) ==
  /\ next.ok
  /\ next.last = Reader!Last(Reader!Kind(token))
  /\ next.open = Reader!Opened(text, Reader!Kind(token))
  /\ next.members = IF token \in {"status", "result", "error"}
                    THEN Append(text.members, token) ELSE text.members

LEMMA WriteSound ==
  ASSUME NEW os \in Stream, Sound(os), NEW token \in Tokens, MayGoOn(os.text, Reader!Kind(token))
  PROVE  GoesOn(os.text, write(os, token).text, token)
<1> USE DEF MayGoOn
<1> DEFINE s == handleNewValue(os)
           kind == Reader!Kind(token)
<1>1. /\ s \in Stream /\ s.text.open = os.text.open /\ s.text.members = os.text.members
      /\ os.text.last # "value" => s = os
      /\ os.text.last = "value" /\ os.text.open # <<>> => s.text.ok /\ s.text.last = "comma"
  BY Separated
<1>2. os.text.last \in {"start", "open", "key", "value"} /\ os.text.ok
  BY DEF Sound, Stream, Reader!Text
<1>3. Reader!Innermost(s.text) = Reader!Innermost(os.text)
  BY <1>1 DEF Reader!Innermost
<1>4. Reader!Innermost(os.text) \in {"array", "object"} => os.text.open # <<>>
  BY DEF Reader!Innermost
<1> HIDE DEF s, kind
<1>5. s.text.ok
  BY <1>1, <1>2, <1>4
<1>6. Reader!Follows(s.text, kind)
  <2>1. CASE os.text.last = "value"
    BY <1>1, <1>3, <1>4, <2>1 DEF kind, Reader!Follows, Reader!ExpectsValue
  <2>2. CASE os.text.last = "start"
    <3>1. Reader!Innermost(os.text) = "document"
      BY <2>2 DEF Sound, Reader!Innermost
    <3> QED
      BY <1>1, <2>2, <3>1 DEF kind, Reader!Follows, Reader!ExpectsValue
  <2>3. CASE os.text.last = "key"
    BY <1>1, <2>3 DEF Sound, kind, Reader!Follows, Reader!ExpectsValue
  <2>4. CASE os.text.last = "open"
    BY <1>1, <2>4 DEF kind, Reader!Follows, Reader!ExpectsValue
  <2> QED
    BY <1>2, <2>1, <2>2, <2>3, <2>4
<1>7. write(os, token).text = Reader!Read(s.text, token)
  BY <1>1, PrintType DEF write, s
<1>8. Reader!Opened(s.text, kind) = Reader!Opened(os.text, kind)
  BY <1>1 DEF Reader!Opened
<1> QED
  <2> DEFINE t == s.text
             text == write(os, token).text
  <2>1. text = Reader!Read(t, token) /\ t.ok
    BY <1>5, <1>7
  <2>2. /\ Reader!Read(t, token).open = Reader!Opened(t, Reader!Kind(token))
        /\ Reader!Read(t, token).last = Reader!Last(Reader!Kind(token))
        /\ Reader!Read(t, token).ok <=> Reader!Follows(t, Reader!Kind(token))
        /\ Reader!Read(t, token).members =
             IF token \in {"status", "result", "error"} THEN Append(t.members, token) ELSE t.members
    <3> HIDE DEF t
    <3> QED
      BY <2>1, ReadFields, Zenon
  <2>3. Reader!Follows(t, Reader!Kind(token)) /\ t.members = os.text.members
        /\ Reader!Opened(t, Reader!Kind(token)) = Reader!Opened(os.text, Reader!Kind(token))
    BY <1>1, <1>6, <1>8 DEF kind
  <2> HIDE DEF t, text
  <2>4. /\ text.ok
        /\ text.last = Reader!Last(Reader!Kind(token))
        /\ text.open = Reader!Opened(os.text, Reader!Kind(token))
        /\ text.members = IF token \in {"status", "result", "error"}
                          THEN Append(os.text.members, token) ELSE os.text.members
    BY <2>1, <2>2, <2>3
  <2> QED
    BY <2>4 DEF text, GoesOn

(* The end of the innermost container.                                     *)
MayEnd(text, bracket) ==
  /\ text.last \notin {"start", "key"}
  /\ Reader!Innermost(text) = IF bracket = "}" THEN "object" ELSE "array"

Ended(text, os) ==
  /\ Sound(os)
  /\ os.text.last = "value"
  /\ os.text.open = SubSeq(text.open, 1, Len(text.open) - 1)
  /\ os.text.members = text.members

LEMMA EndSound ==
  ASSUME NEW os \in Stream, Sound(os), NEW bracket \in {"}", "]"}, MayEnd(os.text, bracket)
  PROVE  Ended(os.text, endContainer(os, bracket))
<1> USE DEF MayEnd
<1> DEFINE undue == [os EXCEPT !.startNewValue = FALSE]
           x == write(undue, bracket)
<1>1. undue \in Stream /\ undue.text = os.text /\ ~undue.startNewValue /\ bracket \in Tokens
  BY DEF Stream, Tokens
<1>2. x \in Stream /\ x.text = Reader!Read(os.text, bracket)
  BY <1>1, WriteType, PrintType DEF write, handleNewValue
<1>3. Reader!Kind(bracket) = bracket
  BY DEF Reader!Kind, Reader!Keys, Reader!Scalars, StatusCode
<1>4. os.text.ok /\ os.text.last \in {"open", "value"}
  BY DEF Sound, Stream, Reader!Text
<1>5. os.text.open # <<>>
  BY DEF Reader!Innermost
<1>6. Reader!Follows(os.text, bracket)
  BY <1>4 DEF Reader!Follows
<1> HIDE DEF undue, x
<1>7. /\ Reader!Read(os.text, bracket).open = Reader!Opened(os.text, Reader!Kind(bracket))
      /\ Reader!Read(os.text, bracket).last = Reader!Last(Reader!Kind(bracket))
      /\ Reader!Read(os.text, bracket).ok <=> Reader!Follows(os.text, Reader!Kind(bracket))
      /\ Reader!Read(os.text, bracket).members =
           IF bracket \in {"status", "result", "error"}
           THEN Append(os.text.members, bracket) ELSE os.text.members
  BY <1>4, ReadFields, Zenon
<1>8. /\ x.text.ok /\ x.text.last = "value"
      /\ x.text.open = SubSeq(os.text.open, 1, Len(os.text.open) - 1)
      /\ x.text.members = os.text.members
  <2>1. /\ Reader!Opened(os.text, bracket) = SubSeq(os.text.open, 1, Len(os.text.open) - 1)
        /\ Reader!Last(bracket) = "value"
    BY <1>5 DEF Reader!Last, Reader!Opened
  <2> QED
    BY <1>2, <1>3, <1>6, <1>7, <2>1
<1>9. endContainer(os, bracket).text = x.text /\ endContainer(os, bracket).startNewValue
  BY <1>2 DEF endContainer, commitValue, Stream, x, undue
<1> QED
  BY <1>8, <1>9 DEF Sound, Ended

LEMMA KindsOfTokens ==
  /\ \A token \in {"{", "["} : Reader!Kind(token) = token /\ Reader!Last(token) = "open"
  /\ \A token \in {"member", "status", "result", "error"} : Reader!Kind(token) = "key"
  /\ \A token \in StatusCode \cup {"value"} : Reader!Kind(token) = "value"
  /\ Reader!Last("key") = "key" /\ Reader!Last("value") = "value"
  BY DEF Reader!Kind, Reader!Keys, Reader!Scalars, StatusCode, Reader!Last

LEMMA FormFields ==
  ASSUME NEW form \in DocumentForm, NEW i \in StreamOps
  PROVE  LET f == InsertForm(form, i) IN
         /\ f \in DocumentForm
         /\ f.code = form.code /\ f.body = form.body
         /\ f.awaits <=> i = "key"
         /\ i = "startArray" => f.open = Append(form.open, "array")
         /\ i = "startObject" => f.open = Append(form.open, "object")
         /\ i \in {"endArray", "endObject"} => f.open = SubSeq(form.open, 1, Len(form.open) - 1)
         /\ i \in {"key", "value"} => f.open = form.open
<1> DEFINE open == IF i = "startArray" THEN Append(form.open, "array")
                   ELSE IF i = "startObject" THEN Append(form.open, "object")
                   ELSE IF i \in {"endArray", "endObject"} THEN SubSeq(form.open, 1, Len(form.open) - 1)
                   ELSE form.open
<1>1. form.open \in Seq({"object", "array"})
  BY DEF DocumentForm
<1>2. /\ Append(form.open, "array") \in Seq({"object", "array"})
      /\ Append(form.open, "object") \in Seq({"object", "array"})
      /\ SubSeq(form.open, 1, Len(form.open) - 1) \in Seq({"object", "array"})
  BY <1>1, AppendProperties, FrontType
<1>3. open \in Seq({"object", "array"})
  BY <1>1, <1>2
<1>4. InsertForm(form, i) = [form EXCEPT !.awaits = (i = "key"), !.open = open]
  BY DEF InsertForm
<1>5. /\ i = "startArray" => open = Append(form.open, "array")
      /\ i = "startObject" => open = Append(form.open, "object")
      /\ i \in {"endArray", "endObject"} => open = SubSeq(form.open, 1, Len(form.open) - 1)
      /\ i \in {"key", "value"} => open = form.open
  OBVIOUS
<1> HIDE DEF open
<1>6. /\ InsertForm(form, i) \in DocumentForm
      /\ InsertForm(form, i).code = form.code /\ InsertForm(form, i).body = form.body
      /\ InsertForm(form, i).awaits <=> i = "key"
      /\ InsertForm(form, i).open = open
  BY <1>3, <1>4 DEF DocumentForm
<1> QED
  BY <1>5, <1>6

LEMMA AllowedInsert ==
  ASSUME NEW form, NEW i \in StreamOps, Allowed(form, [insert |-> i])
  PROVE  \/ i \in {"startArray", "startObject", "value"} /\ TakesValue(form)
         \/ i = "key" /\ TakesKey(form)
         \/ i = "endArray" /\ Reader!Innermost(form) = "array"
         \/ i = "endObject" /\ TakesKey(form)
<1>1. [insert |-> i] \notin StatusOps
  <2>1. ASSUME NEW op \in StatusOps PROVE op # [insert |-> i]
    <3>1. DOMAIN op = {"status", "message"} /\ DOMAIN [insert |-> i] = {"insert"}
      BY DEF StatusOps
    <3> QED
      BY <3>1
  <2> QED
    BY <2>1
<1>2. ASSUME NEW j, [insert |-> i] = [insert |-> j] PROVE i = j
  <2>1. [insert |-> i].insert = i /\ [insert |-> j].insert = j
    OBVIOUS
  <2> QED
    BY <1>2, <2>1
<1>3. i # "result"
  BY DEF StreamOps
<1>4. CASE [insert |-> i] \in {[insert |-> j] : j \in {"startArray", "startObject", "value"}} /\ TakesValue(form)
  BY <1>2, <1>4
<1>5. CASE [insert |-> i] = [insert |-> "key"] /\ TakesKey(form)
  BY <1>2, <1>5
<1>6. CASE [insert |-> i] = [insert |-> "endArray"] /\ Reader!Innermost(form) = "array"
  BY <1>2, <1>6
<1>7. CASE [insert |-> i] = [insert |-> "endObject"] /\ TakesKey(form)
  BY <1>2, <1>7
<1>8. [insert |-> i] # [insert |-> "result"]
  BY <1>2, <1>3
<1> QED
  BY <1>1, <1>4, <1>5, <1>6, <1>7, <1>8 DEF Allowed

(* An insertion that keeps the rules goes on with the document, and has the form
   that the rules say.                                                     *)
LEMMA InsertSound ==
  ASSUME NEW os \in Stream, NEW form \in DocumentForm, IsForm(os, form),
         NEW i \in StreamOps, Allowed(form, [insert |-> i])
  PROVE  /\ InsertForm(form, i) \in DocumentForm
         /\ IsForm(Insert(os, i), InsertForm(form, i))
         /\ Insert(os, i).text.members = os.text.members
<1> DEFINE f == InsertForm(form, i)
           x == Insert(os, i)
<1>1. /\ f \in DocumentForm
      /\ f.awaits <=> i = "key"
      /\ i = "startArray" => f.open = Append(form.open, "array")
      /\ i = "startObject" => f.open = Append(form.open, "object")
      /\ i \in {"endArray", "endObject"} => f.open = SubSeq(form.open, 1, Len(form.open) - 1)
      /\ i \in {"key", "value"} => f.open = form.open
  BY FormFields
<1>2. \/ i \in {"startArray", "startObject", "value"} /\ TakesValue(form)
      \/ i = "key" /\ TakesKey(form)
      \/ i = "endArray" /\ Reader!Innermost(form) = "array"
      \/ i = "endObject" /\ TakesKey(form)
  BY AllowedInsert
<1>3. /\ Sound(os) /\ form.open = os.text.open
      /\ form.awaits <=> os.text.last \in {"start", "key"}
  BY DEF IsForm
<1>4. Reader!Innermost(form) = Reader!Innermost(os.text)
  BY <1>3 DEF Reader!Innermost
<1>5. /\ TakesValue(form) => os.text.last \in {"start", "key"} \/ Reader!Innermost(os.text) = "array"
      /\ TakesKey(form) => os.text.last \notin {"start", "key"} /\ Reader!Innermost(os.text) = "object"
  BY <1>3, <1>4 DEF TakesValue, TakesKey
<1>6. os.text.open \in Seq({"object", "array"})
  BY DEF Stream, Reader!Text
<1>7. {"{", "[", "member", "value"} \subseteq Tokens
      /\ {"{", "[", "member", "value"} \cap {"status", "result", "error"} = {}
  BY DEF Tokens
<1> HIDE DEF f
<1>8. ASSUME NEW token \in {"{", "["}, x = write(os, token), TakesValue(form),
             f.open = Append(os.text.open, Reader!Container[token]), ~f.awaits
      PROVE  IsForm(x, f) /\ x.text.members = os.text.members
  <2>1. token \in Tokens /\ Reader!Kind(token) = token /\ Reader!Last(token) = "open"
        /\ token \notin {"status", "result", "error"}
    BY <1>7, KindsOfTokens
  <2>2. /\ x.text.ok /\ x.text.last = "open" /\ x.text.open = Reader!Opened(os.text, token)
        /\ x.text.members = os.text.members
    <3>1. MayGoOn(os.text, Reader!Kind(token))
      BY <1>5, <1>8, <2>1 DEF MayGoOn
    <3>2. GoesOn(os.text, x.text, token)
      BY <1>3, <1>8, <2>1, <3>1, WriteSound
    <3> HIDE DEF x
    <3> QED
      BY <2>1, <3>2 DEF GoesOn
  <2>3. ~x.startNewValue
    BY <1>8, <2>1, WriteType
  <2>4. Reader!Opened(os.text, token) = f.open
    BY <1>8 DEF Reader!Opened
  <2>5. f.open # <<>>
    <3>1. Reader!Container[token] \in {"object", "array"}
      BY <1>8 DEF Reader!Container
    <3> QED
      <4> DEFINE c == Reader!Container[token]
      <4>1. c \in {"object", "array"} /\ f.open = Append(os.text.open, c)
        BY <1>8, <3>1
      <4> DEFINE s == os.text.open
      <4> HIDE DEF c, s
      <4>2. s \in Seq({"object", "array"})
        BY <1>6 DEF s
      <4>3. Append(s, c) # <<>>
        BY <4>1, <4>2, AppendProperties
      <4> QED
        BY <4>1, <4>3 DEF s
  <2> HIDE DEF x
  <2> QED
    BY <1>8, <2>2, <2>3, <2>4, <2>5 DEF IsForm, Sound
<1>9. CASE i = "startArray"
  <2>1. x = write(os, "[") /\ Reader!Container["["] = "array"
    BY <1>9 DEF Insert, Reader!Container
  <2> QED
    BY <1>1, <1>2, <1>3, <1>8, <1>9, <2>1 DEF f
<1>10. CASE i = "startObject"
  <2>1. x = write(os, "{") /\ Reader!Container["{"] = "object"
    BY <1>10 DEF Insert, Reader!Container
  <2> QED
    BY <1>1, <1>2, <1>3, <1>8, <1>10, <2>1 DEF f
<1>11. CASE i = "key"
  <2>1. x = write(os, "member")
    BY <1>11 DEF Insert
  <2>2. "member" \in Tokens /\ Reader!Kind("member") = "key" /\ Reader!Last("key") = "key"
    BY <1>7, KindsOfTokens
  <2>3. /\ x.text.ok /\ x.text.last = "key" /\ x.text.open = Reader!Opened(os.text, "key")
        /\ x.text.members = os.text.members
    <3>1. MayGoOn(os.text, Reader!Kind("member"))
      BY <1>2, <1>5, <1>11, <2>2 DEF MayGoOn
    <3>2. GoesOn(os.text, x.text, "member")
      BY <1>3, <2>1, <2>2, <3>1, WriteSound
    <3> HIDE DEF x
    <3> QED
      BY <1>7, <2>2, <3>2 DEF GoesOn
  <2>4. ~x.startNewValue
    BY <2>1, <2>2, WriteType
  <2>5. Reader!Opened(os.text, "key") = os.text.open
    BY DEF Reader!Opened
  <2>6. Reader!Innermost(x.text) = "object"
    BY <1>2, <1>5, <1>11, <2>3, <2>5 DEF Reader!Innermost
  <2> HIDE DEF x
  <2>7. IsForm(x, f)
    BY <1>1, <1>3, <1>11, <2>3, <2>4, <2>5, <2>6 DEF IsForm, Sound
  <2> QED
    BY <1>1, <2>3, <2>7 DEF f, x
<1>12. CASE i = "value"
  <2>1. x = value(os, "value")
    BY <1>12 DEF Insert
  <2>2. "value" \in Tokens /\ Reader!Kind("value") = "value" /\ Reader!Last("value") = "value"
    BY <1>7, KindsOfTokens
  <2>3. x.text = write(os, "value").text /\ x.startNewValue
    BY <2>1, <2>2, WriteType, ValueType DEF value, commitValue, Stream
  <2>4. /\ x.text.ok /\ x.text.last = "value" /\ x.text.open = Reader!Opened(os.text, "value")
        /\ x.text.members = os.text.members
    <3>1. MayGoOn(os.text, Reader!Kind("value"))
      BY <1>2, <1>5, <1>12, <2>2 DEF MayGoOn
    <3>2. GoesOn(os.text, x.text, "value")
      BY <1>3, <2>2, <2>3, <3>1, WriteSound
    <3> HIDE DEF x
    <3> QED
      BY <1>7, <2>2, <3>2 DEF GoesOn
  <2>5. Reader!Opened(os.text, "value") = os.text.open
    BY DEF Reader!Opened
  <2> HIDE DEF x
  <2>6. IsForm(x, f)
    BY <1>1, <1>3, <1>12, <2>3, <2>4, <2>5 DEF IsForm, Sound
  <2> QED
    BY <1>1, <2>4, <2>6 DEF f, x
<1>13. ASSUME NEW bracket \in {"}", "]"}, x = endContainer(os, bracket), os.text.last \notin {"start", "key"},
              Reader!Innermost(os.text) = IF bracket = "}" THEN "object" ELSE "array",
              f.open = SubSeq(os.text.open, 1, Len(os.text.open) - 1), ~f.awaits
       PROVE  IsForm(x, f) /\ x.text.members = os.text.members
  <2>1. /\ Sound(x) /\ x.text.last = "value"
        /\ x.text.open = SubSeq(os.text.open, 1, Len(os.text.open) - 1)
        /\ x.text.members = os.text.members
    <3>1. MayEnd(os.text, bracket)
      BY <1>13 DEF MayEnd
    <3>2. Ended(os.text, x)
      BY <1>3, <1>13, <3>1, EndSound
    <3> HIDE DEF x
    <3> QED
      BY <3>2 DEF Ended
  <2> HIDE DEF x
  <2> QED
    BY <1>13, <2>1 DEF IsForm
<1>14. CASE i = "endArray"
  <2>1. x = endContainer(os, "]")
    BY <1>14 DEF Insert
  <2>2. Reader!Innermost(os.text) = "array"
    BY <1>2, <1>4, <1>14
  <2>3. os.text.last \notin {"start", "key"}
    BY <1>3, <2>2 DEF Sound, Reader!Innermost
  <2> QED
    BY <1>1, <1>3, <1>13, <1>14, <2>1, <2>2, <2>3 DEF f
<1>15. CASE i = "endObject"
  <2>1. x = endContainer(os, "}")
    BY <1>15 DEF Insert
  <2> QED
    BY <1>1, <1>2, <1>3, <1>5, <1>13, <1>15, <2>1 DEF f
<1> QED
  BY <1>2, <1>9, <1>10, <1>11, <1>12, <1>14, <1>15

(* A member of the response begins, ...                                    *)
LEMMA KeyForm ==
  ASSUME NEW os \in Stream, NEW form \in DocumentForm, IsForm(os, form), BetweenMembers(form),
         NEW key \in {"status", "result", "error"}
  PROVE  /\ write(os, key) \in Stream
         /\ IsForm(write(os, key), [form EXCEPT !.awaits = TRUE])
         /\ write(os, key).text.members = Append(os.text.members, key)
<1> DEFINE x == write(os, key)
           f == [form EXCEPT !.awaits = TRUE]
<1>1. key \in Tokens /\ Reader!Kind(key) = "key" /\ Reader!Last("key") = "key"
  BY KindsOfTokens DEF Tokens
<1>2. Sound(os) /\ form.open = os.text.open /\ os.text.last \notin {"start", "key"} /\ form.open = <<"object">>
  BY DEF IsForm, BetweenMembers
<1>3. \A text : text.open = <<"object">> => Reader!Innermost(text) = "object"
  BY DEF Reader!Innermost
<1>4. MayGoOn(os.text, Reader!Kind(key))
  BY <1>1, <1>2, <1>3 DEF MayGoOn
<1>5. x \in Stream /\ ~x.startNewValue
  BY <1>1, WriteType
<1>6. GoesOn(os.text, x.text, key)
  BY <1>1, <1>2, <1>4, WriteSound
<1>7. Reader!Opened(os.text, "key") = os.text.open
  BY DEF Reader!Opened
<1>8. f.open = form.open /\ f.awaits
  BY DEF DocumentForm
<1> HIDE DEF x, f
<1>9. x.text.ok /\ x.text.last = "key" /\ x.text.open = form.open /\ x.text.members = Append(os.text.members, key)
  BY <1>1, <1>2, <1>6, <1>7 DEF GoesOn
<1>10. IsForm(x, f)
  BY <1>2, <1>3, <1>5, <1>8, <1>9 DEF IsForm, Sound
<1> QED
  BY <1>5, <1>9, <1>10 DEF x, f

(* ... and has a scalar value.                                             *)
LEMMA ScalarForm ==
  ASSUME NEW os \in Stream, NEW form \in DocumentForm, IsForm(os, form), form.awaits,
         NEW token \in StatusCode
  PROVE  /\ value(os, token) \in Stream
         /\ IsForm(value(os, token), [form EXCEPT !.awaits = FALSE])
         /\ value(os, token).text.members = os.text.members
<1> DEFINE x == value(os, token)
           f == [form EXCEPT !.awaits = FALSE]
<1>1. token \in Tokens /\ Reader!Kind(token) = "value" /\ Reader!Last("value") = "value"
      /\ token \notin {"status", "result", "error"}
  BY KindsOfTokens DEF Tokens, StatusCode
<1>2. Sound(os) /\ form.open = os.text.open /\ os.text.last \in {"start", "key"}
  BY DEF IsForm
<1>3. MayGoOn(os.text, Reader!Kind(token))
  BY <1>1, <1>2 DEF MayGoOn
<1>4. x \in Stream /\ x.startNewValue /\ x.text = write(os, token).text
  BY <1>1, WriteType, ValueType DEF value, commitValue, Stream
<1>5. GoesOn(os.text, x.text, token)
  BY <1>1, <1>2, <1>3, <1>4, WriteSound
<1>6. Reader!Opened(os.text, "value") = os.text.open
  BY DEF Reader!Opened
<1>7. f.open = form.open /\ ~f.awaits
  BY DEF DocumentForm
<1> HIDE DEF x, f
<1>8. x.text.ok /\ x.text.last = "value" /\ x.text.open = form.open /\ x.text.members = os.text.members
  BY <1>1, <1>2, <1>5, <1>6 DEF GoesOn
<1>9. IsForm(x, f)
  BY <1>4, <1>7, <1>8 DEF IsForm, Sound
<1> QED
  BY <1>4, <1>8, <1>9 DEF x, f

(* The response has one body at most, under that key.                      *)
BodyIs(ms, body) ==
  IF body = "none" THEN \A i \in 1 .. Len(ms) : ms[i] = "status"
  ELSE \E i \in 1 .. Len(ms) :
         ms[i] = body /\ \A j \in 1 .. Len(ms) : j # i => ms[j] = "status"

LEMMA BodyStays ==
  ASSUME NEW ms \in Seq({"status", "result", "error"}), NEW body, BodyIs(ms, body)
  PROVE  BodyIs(Append(ms, "status"), body)
<1>1. /\ Len(ms) \in Nat /\ Len(Append(ms, "status")) = Len(ms) + 1
      /\ \A i \in 1 .. Len(ms) : Append(ms, "status")[i] = ms[i]
      /\ Append(ms, "status")[Len(ms) + 1] = "status"
  BY AppendProperties, LenProperties
<1> QED
  BY <1>1 DEF BodyIs

LEMMA BodyBegins ==
  ASSUME NEW ms \in Seq({"status", "result", "error"}), NEW body \in {"result", "error"},
         BodyIs(ms, "none")
  PROVE  BodyIs(Append(ms, body), body)
<1>1. /\ Len(ms) \in Nat /\ Len(Append(ms, body)) = Len(ms) + 1
      /\ \A i \in 1 .. Len(ms) : Append(ms, body)[i] = ms[i]
      /\ Append(ms, body)[Len(ms) + 1] = body
  BY AppendProperties, LenProperties
<1>2. \A i \in 1 .. Len(ms) : ms[i] = "status"
  BY DEF BodyIs
<1>3. Len(ms) + 1 \in 1 .. Len(Append(ms, body)) /\ body # "none"
  BY <1>1
<1>4. ASSUME NEW j \in 1 .. Len(Append(ms, body)), j # Len(ms) + 1
      PROVE  Append(ms, body)[j] = "status"
  BY <1>1, <1>2, <1>4
<1> QED
  BY <1>1, <1>3, <1>4 DEF BodyIs

IsResponseForm(r, form) ==
  /\ IsForm(r.out, form)
  /\ form.code = IF r.statusCodeSet THEN r.statusCode ELSE "none"
  /\ r.statusCodeSet \/ r.statusCode = "SUCCESS"
  /\ r.resultStarted <=> form.body # "none"
  /\ BodyIs(r.out.text.members, form.body)

LEMMA WrittenForm ==
  ASSUME NEW r \in Response, NEW form \in DocumentForm, IsResponseForm(r, form),
         NEW i \in StreamOps, Allowed(form, [insert |-> i])
  PROVE  /\ InsertForm(form, i) \in DocumentForm
         /\ IsResponseForm(Written(r, i), InsertForm(form, i))
<1>1. r.out \in Stream /\ IsForm(r.out, form)
  BY DEF Response, IsResponseForm
<1>2. /\ InsertForm(form, i) \in DocumentForm
      /\ IsForm(Insert(r.out, i), InsertForm(form, i))
      /\ Insert(r.out, i).text.members = r.out.text.members
  BY <1>1, InsertSound
<1>3. InsertForm(form, i).code = form.code /\ InsertForm(form, i).body = form.body
  BY FormFields
<1>4. /\ Written(r, i).out = Insert(r.out, i)
      /\ Written(r, i).statusCodeSet = r.statusCodeSet
      /\ Written(r, i).statusCode = r.statusCode
      /\ Written(r, i).resultStarted = r.resultStarted
  BY DEF Written, Response
<1> QED
  BY <1>2, <1>3, <1>4 DEF IsResponseForm

LEMMA CodeForm ==
  ASSUME NEW r \in Response, NEW form \in DocumentForm, IsResponseForm(r, form),
         NEW sc \in StatusCode, form.code = "none", BetweenMembers(form)
  PROVE  /\ [form EXCEPT !.code = sc] \in DocumentForm
         /\ IsResponseForm(setStatusCode(r, sc), [form EXCEPT !.code = sc])
<1> DEFINE f == [form EXCEPT !.code = sc]
           g == [form EXCEPT !.awaits = TRUE]
           x == write(r.out, "status")
           y == value(x, sc)
           q == setStatusCode(r, sc)
<1>1. r.out \in Stream /\ IsForm(r.out, form)
  BY DEF Response, IsResponseForm
<1>2. ~r.statusCodeSet
  <2>1. "none" \notin StatusCode
    BY DEF StatusCode
  <2> QED
    BY <2>1 DEF IsResponseForm, Response
<1>3. x \in Stream /\ IsForm(x, g) /\ x.text.members = Append(r.out.text.members, "status")
  BY <1>1, KeyForm
<1>4. g \in DocumentForm /\ g.awaits /\ g.open = form.open
  BY DEF DocumentForm
<1>5. y \in Stream /\ IsForm(y, [g EXCEPT !.awaits = FALSE]) /\ y.text.members = x.text.members
  <2> HIDE DEF g, x
  <2> QED
    BY <1>3, <1>4, ScalarForm
<1>6. [g EXCEPT !.awaits = FALSE].open = f.open /\ (f.awaits <=> [g EXCEPT !.awaits = FALSE].awaits)
  BY DEF DocumentForm, BetweenMembers
<1>7. /\ f \in DocumentForm /\ f.code = sc /\ f.body = form.body
  BY DEF DocumentForm
<1>8. /\ q.out = y /\ q.statusCodeSet = TRUE /\ q.statusCode = sc
      /\ q.resultStarted = r.resultStarted
  <2> HIDE DEF y
  <2>1. q = [r EXCEPT !.statusCode = sc, !.statusCodeSet = TRUE, !.out = y]
    BY <1>2 DEF setStatusCode, y
  <2> QED
    BY <2>1 DEF Response
<1>9. r.out.text.members \in Seq({"status", "result", "error"})
  BY <1>1 DEF Stream, Reader!Text
<1>10. BodyIs(y.text.members, form.body)
  BY <1>3, <1>5, <1>9, BodyStays DEF IsResponseForm
<1> HIDE DEF f, g, x, y, q
<1>11. IsForm(y, f)
  BY <1>5, <1>6 DEF IsForm
<1>12. IsResponseForm(q, f)
  BY <1>7, <1>8, <1>10, <1>11 DEF IsResponseForm
<1> QED
  BY <1>7, <1>12 DEF f, q

LEMMA ResultForm ==
  ASSUME NEW r \in Response, NEW form \in DocumentForm, IsResponseForm(r, form),
         form.body # "none" \/ BetweenMembers(form)
  PROVE  BodyForm(form) \in DocumentForm /\ IsResponseForm(getResultStream(r), BodyForm(form))
<1>1. CASE form.body # "none"
  <2>1. r.resultStarted
    BY <1>1 DEF IsResponseForm
  <2> QED
    BY <1>1, <2>1 DEF BodyForm, getResultStream
<1>2. CASE form.body = "none"
  <2> DEFINE key == BodyOf(form.code)
             f == BodyForm(form)
             x == write(r.out, key)
             q == getResultStream(r)
  <2>1. r.out \in Stream /\ IsForm(r.out, form) /\ BetweenMembers(form) /\ ~r.resultStarted
    BY <1>2 DEF Response, IsResponseForm
  <2>2. key \in {"result", "error"}
    BY DEF BodyOf
  <2>3. key = IF r.statusCode \in Negative THEN "error" ELSE "result"
    BY DEF BodyOf, IsResponseForm, Negative, StatusCode
  <2>4. f = [form EXCEPT !.awaits = TRUE, !.body = key]
    BY <1>2 DEF BodyForm
  <2>5. q = [r EXCEPT !.resultStarted = TRUE, !.out = x]
    BY <2>1, <2>3 DEF getResultStream
  <2> HIDE DEF key, f, q
  <2>6. /\ x \in Stream /\ IsForm(x, [form EXCEPT !.awaits = TRUE])
        /\ x.text.members = Append(r.out.text.members, key)
    BY <2>1, <2>2, KeyForm
  <2> HIDE DEF x
  <2>7. /\ f \in DocumentForm /\ f.code = form.code /\ f.body = key
        /\ f.open = [form EXCEPT !.awaits = TRUE].open
        /\ f.awaits <=> [form EXCEPT !.awaits = TRUE].awaits
    BY <2>2, <2>4 DEF DocumentForm
  <2>8. /\ q.out = x /\ q.statusCodeSet = r.statusCodeSet /\ q.statusCode = r.statusCode
        /\ q.resultStarted = TRUE
    BY <2>5 DEF Response
  <2>9. r.out.text.members \in Seq({"status", "result", "error"}) /\ BodyIs(r.out.text.members, "none")
    BY <1>2, <2>1 DEF Stream, Reader!Text, IsResponseForm
  <2>10. BodyIs(x.text.members, key)
    BY <2>2, <2>6, <2>9, BodyBegins
  <2>11. IsForm(x, f)
    BY <2>6, <2>7 DEF IsForm
  <2>12. IsResponseForm(q, f)
    BY <2>2, <2>7, <2>8, <2>10, <2>11 DEF IsResponseForm
  <2> QED
    BY <2>7, <2>12 DEF f, q
<1> QED
  BY <1>1, <1>2

(* A message, scalar or an object, is the value of its key.                *)
LEMMA MessageForm ==
  ASSUME NEW r \in Response, NEW form \in DocumentForm, IsResponseForm(r, form),
         form.open = <<"object">>, form.awaits, NEW message
  PROVE  IsResponseForm(Message(r, message), [form EXCEPT !.awaits = FALSE])
<1> DEFINE f == [form EXCEPT !.awaits = FALSE]
<1>1. {"value", "startObject", "key", "endObject"} \subseteq StreamOps
  BY DEF StreamOps
<1>2. ASSUME NEW g \in DocumentForm, g.awaits
      PROVE  Allowed(g, [insert |-> "value"]) /\ Allowed(g, [insert |-> "startObject"])
  BY <1>2 DEF Allowed, TakesValue
<1>3. ASSUME NEW g \in DocumentForm, ~g.awaits, g.open = <<"object", "object">>
      PROVE  Allowed(g, [insert |-> "key"]) /\ Allowed(g, [insert |-> "endObject"])
  <2>1. Reader!Innermost(g) = "object"
    BY <1>3 DEF Reader!Innermost
  <2> QED
    BY <1>3, <2>1 DEF Allowed, TakesKey
<1>4. ASSUME NEW g \in DocumentForm, g.open = form.open, g.code = form.code, g.body = form.body, ~g.awaits
      PROVE  g = f
  BY <1>4 DEF DocumentForm
<1>5. ASSUME NEW g \in DocumentForm, NEW i \in {"value", "startObject", "key", "endObject"}
      PROVE  /\ InsertForm(g, i).code = g.code /\ InsertForm(g, i).body = g.body
             /\ InsertForm(g, i).awaits <=> i = "key"
             /\ i = "startObject" => InsertForm(g, i).open = Append(g.open, "object")
             /\ i = "endObject" => InsertForm(g, i).open = SubSeq(g.open, 1, Len(g.open) - 1)
             /\ i \in {"key", "value"} => InsertForm(g, i).open = g.open
  <2>1. i \in StreamOps
    BY <1>1
  <2> QED
    BY <2>1, FormFields
<1>6. CASE message = "scalar"
  <2> DEFINE g == InsertForm(form, "value")
  <2>1. g \in DocumentForm /\ IsResponseForm(Written(r, "value"), g)
    BY <1>1, <1>2, WrittenForm
  <2>2. ~g.awaits /\ g.open = form.open /\ g.code = form.code /\ g.body = form.body
    BY <1>5
  <2> HIDE DEF g, f
  <2>3. g = f
    BY <1>4, <2>1, <2>2
  <2> QED
    BY <1>6, <2>1, <2>3 DEF Message, f
<1>7. CASE message # "scalar"
  <2> DEFINE g1 == InsertForm(form, "startObject")
             g2 == InsertForm(g1, "key")
             g3 == InsertForm(g2, "value")
             g4 == InsertForm(g3, "endObject")
             r1 == Written(r, "startObject")
             r2 == Written(r1, "key")
             r3 == Written(r2, "value")
             r4 == Written(r3, "endObject")
  <2>1. g1 \in DocumentForm /\ r1 \in Response /\ IsResponseForm(r1, g1)
    BY <1>1, <1>2, WrittenForm, WrittenType
  <2>2. ~g1.awaits /\ g1.open = Append(form.open, "object") /\ g1.code = form.code /\ g1.body = form.body
    BY <1>5
  <2>3. g1.open = <<"object", "object">>
    BY <2>2
  <2> HIDE DEF g1, r1, f
  <2>4. g2 \in DocumentForm /\ r2 \in Response /\ IsResponseForm(r2, g2)
    BY <1>1, <1>3, <2>1, <2>2, <2>3, WrittenForm, WrittenType
  <2>5. g2.awaits /\ g2.open = g1.open /\ g2.code = g1.code /\ g2.body = g1.body
    BY <1>5, <2>1
  <2> HIDE DEF g2, r2
  <2>6. g3 \in DocumentForm /\ r3 \in Response /\ IsResponseForm(r3, g3)
    BY <1>1, <1>2, <2>4, <2>5, WrittenForm, WrittenType
  <2>7. ~g3.awaits /\ g3.open = g2.open /\ g3.code = g2.code /\ g3.body = g2.body
    BY <1>5, <2>4
  <2> HIDE DEF g3, r3
  <2>8. g4 \in DocumentForm /\ IsResponseForm(r4, g4)
    BY <1>1, <1>3, <2>3, <2>5, <2>6, <2>7, WrittenForm
  <2>9. ~g4.awaits /\ g4.open = SubSeq(g3.open, 1, Len(g3.open) - 1) /\ g4.code = g3.code /\ g4.body = g3.body
    BY <1>5, <2>6
  <2>10. g4.open = <<"object">>
    <3>1. g3.open = <<"object", "object">>
      BY <2>3, <2>5, <2>7
    <3> QED
      BY <2>9, <3>1
  <2> HIDE DEF g4
  <2>11. g4 = f
    BY <1>4, <2>2, <2>5, <2>7, <2>8, <2>9, <2>10
  <2> QED
    BY <1>7, <2>8, <2>11 DEF Message, f, r1, r2, r3
<1> QED
  BY <1>6, <1>7

LEMMA AllowedStatus ==
  ASSUME NEW form, NEW op \in StatusOps, Allowed(form, op)
  PROVE  form.code # "none" \/ (BetweenMembers(form) /\ (op.message = "none" \/ form.body = "none"))
<1>1. ASSUME NEW i PROVE op # [insert |-> i]
  <2>1. DOMAIN op = {"status", "message"} /\ DOMAIN [insert |-> i] = {"insert"}
    BY DEF StatusOps
  <2> QED
    BY <2>1
<1> QED
  BY <1>1 DEF Allowed

LEMMA AllowedResult ==
  ASSUME NEW form, Allowed(form, [insert |-> "result"])
  PROVE  form.body # "none" \/ BetweenMembers(form)
<1>1. ASSUME NEW i, [insert |-> "result"] = [insert |-> i] PROVE i = "result"
  <2>1. [insert |-> i].insert = i /\ [insert |-> "result"].insert = "result"
    OBVIOUS
  <2> QED
    BY <1>1, <2>1
<1>2. [insert |-> "result"] \notin StatusOps
  <2>1. ASSUME NEW op \in StatusOps PROVE op # [insert |-> "result"]
    <3>1. DOMAIN op = {"status", "message"} /\ DOMAIN [insert |-> "result"] = {"insert"}
      BY DEF StatusOps
    <3> QED
      BY <3>1
  <2> QED
    BY <2>1
<1> QED
  BY <1>1, <1>2 DEF Allowed

LEMMA StatusFormIs ==
  ASSUME NEW r \in Response, NEW form \in DocumentForm, IsResponseForm(r, form),
         NEW op \in StatusOps, Allowed(form, op)
  PROVE  /\ StatusForm(form, op) \in DocumentForm
         /\ IsResponseForm(setStatusCodeAndMessage(r, op.status, op.message), StatusForm(form, op))
<1>1. /\ op.status \in StatusCode /\ op.message \in {"none", "scalar", "object"}
      /\ form.code # "none" \/ (BetweenMembers(form) /\ (op.message = "none" \/ form.body = "none"))
  BY AllowedStatus DEF StatusOps
<1>2. CASE form.code # "none"
  <2>1. r.statusCodeSet
    BY <1>2 DEF IsResponseForm
  <2>2. setStatusCodeAndMessage(r, op.status, op.message) = r
    BY <2>1 DEF setStatusCodeAndMessage, setStatusCode
  <2> QED
    BY <1>2, <2>2 DEF StatusForm
<1>3. CASE form.code = "none"
  <2> DEFINE f == [form EXCEPT !.code = op.status]
             q == setStatusCode(r, op.status)
  <2>1. f \in DocumentForm /\ IsResponseForm(q, f) /\ q \in Response
    BY <1>1, <1>3, CodeForm, setStatusCodeType
  <2>2. f.open = form.open /\ f.awaits = form.awaits /\ f.code = op.status /\ f.body = form.body
    BY DEF DocumentForm
  <2>3. ~r.statusCodeSet
    <3>1. "none" \notin StatusCode
      BY DEF StatusCode
    <3> QED
      BY <1>3, <3>1 DEF IsResponseForm, Response
  <2>4. CASE op.message = "none"
    <3>1. StatusForm(form, op) = f
      BY <1>3, <2>4 DEF StatusForm, DocumentForm
    <3>2. setStatusCodeAndMessage(r, op.status, op.message) = q
      BY <2>4 DEF setStatusCodeAndMessage
    <3> QED
      BY <2>1, <3>1, <3>2
  <2>5. CASE op.message # "none"
    <3> DEFINE g == BodyForm(f)
               p == getResultStream(q)
               h == [g EXCEPT !.awaits = FALSE]
    <3>1. BetweenMembers(f) /\ f.body = "none"
      BY <1>1, <1>3, <2>2, <2>5 DEF BetweenMembers
    <3>2. g = [f EXCEPT !.awaits = TRUE, !.body = BodyOf(op.status)]
      BY <2>2, <3>1 DEF BodyForm
    <3>3. setStatusCodeAndMessage(r, op.status, op.message) = Message(p, op.message)
      BY <2>3, <2>5 DEF setStatusCodeAndMessage
    <3> HIDE DEF q
    <3>4. g \in DocumentForm /\ IsResponseForm(p, g) /\ p \in Response
      <4> HIDE DEF f
      <4> QED
        BY <2>1, <3>1, ResultForm, getResultStreamType
    <3>5. g.open = <<"object">> /\ g.awaits
      BY <2>2, <3>1, <3>2 DEF BetweenMembers, DocumentForm
    <3>6. StatusForm(form, op) = h /\ h \in DocumentForm
      <4>1. StatusForm(form, op) = [form EXCEPT !.code = op.status, !.body = BodyOf(op.status)]
        BY <1>3, <2>5 DEF StatusForm
      <4>2. ~form.awaits
        BY <1>1, <1>3 DEF BetweenMembers
      <4>3. BodyOf(op.status) \in {"result", "error"}
        BY DEF BodyOf
      <4>4. h = [form EXCEPT !.code = op.status, !.body = BodyOf(op.status)]
        BY <3>2, <4>2 DEF DocumentForm
      <4> QED
        BY <1>1, <4>1, <4>3, <4>4 DEF DocumentForm
    <3> HIDE DEF g, p
    <3>7. IsResponseForm(Message(p, op.message), [g EXCEPT !.awaits = FALSE])
      BY <3>4, <3>5, MessageForm
    <3> QED
      BY <3>3, <3>6, <3>7
  <2> QED
    BY <2>4, <2>5
<1> QED
  BY <1>2, <1>3

LEMMA ApplyForm ==
  ASSUME NEW r \in Response, NEW form \in DocumentForm, IsResponseForm(r, form),
         NEW op \in Ops, Allowed(form, op)
  PROVE  NextForm(form, op) \in DocumentForm /\ IsResponseForm(Apply(r, op), NextForm(form, op))
<1>1. CASE op \in StatusOps
  BY <1>1, StatusFormIs DEF Apply, NextForm
<1>2. CASE op \notin StatusOps
  <2>1. PICK i \in StreamOps \cup {"result"} : op = [insert |-> i]
    BY <1>2 DEF Ops
  <2>2. CASE i = "result"
    <3>1. Apply(r, op) = getResultStream(r) /\ NextForm(form, op) = BodyForm(form)
      BY <1>2, <2>1, <2>2 DEF Apply, NextForm
    <3>2. form.body # "none" \/ BetweenMembers(form)
      BY <2>1, <2>2, AllowedResult
    <3> QED
      BY <3>1, <3>2, ResultForm
  <2>3. CASE i # "result"
    <3>1. i \in StreamOps /\ Apply(r, op) = Written(r, i) /\ NextForm(form, op) = InsertForm(form, i)
      BY <1>2, <2>1, <2>3 DEF Apply, NextForm
    <3> QED
      BY <2>1, <3>1, WrittenForm
  <2> QED
    BY <2>2, <2>3
<1> QED
  BY <1>1, <1>2

(* A new stream is the beginning of a document and a new response that of its
   object; the refusals keep the rules.                                    *)
LEMMA NewStreamForm ==
  NewStream \in Stream /\ NewDocument \in DocumentForm /\ IsForm(NewStream, NewDocument)
<1>1. NewStream \in Stream /\ NewDocument \in DocumentForm
  BY EmptySeq DEF NewStream, Stream, Reader!EmptyText, Reader!Text, NewDocument, DocumentForm
<1>2. IsForm(NewStream, NewDocument)
  BY DEF NewStream, NewDocument, Reader!EmptyText, IsForm, Sound
<1> QED
  BY <1>1, <1>2

LEMMA NewFormType == NewForm \in DocumentForm
<1>1. <<"object">> \in Seq({"object", "array"})
  OBVIOUS
<1> QED
  BY <1>1 DEF NewForm, DocumentForm

LEMMA NewResponseForm == IsResponseForm(NewResponse, NewForm)
<1> DEFINE f == InsertForm(NewDocument, "startObject")
           x == Insert(NewStream, "startObject")
<1>1. "startObject" \in StreamOps /\ NewDocument.awaits
  BY DEF StreamOps, NewDocument
<1>2. Allowed(NewDocument, [insert |-> "startObject"])
  BY <1>1 DEF Allowed, TakesValue
<1>3. IsForm(x, f) /\ x.text.members = NewStream.text.members
  BY <1>1, <1>2, NewStreamForm, InsertSound
<1>4. f.open = Append(NewDocument.open, "object") /\ ~f.awaits
  BY <1>1, NewStreamForm, FormFields
<1>5. f.open = <<"object">>
  BY <1>4 DEF NewDocument
<1> HIDE DEF f, x
<1>6. IsForm(x, NewForm)
  BY <1>3, <1>4, <1>5 DEF IsForm, NewForm
<1>7. x.text.members = <<>>
  BY <1>3 DEF NewStream, Reader!EmptyText
<1>8. BodyIs(x.text.members, "none")
  BY <1>7 DEF BodyIs
<1>9. /\ NewResponse.out = x /\ NewResponse.statusCode = "SUCCESS"
      /\ NewResponse.statusCodeSet = FALSE /\ NewResponse.resultStarted = FALSE
  BY DEF NewResponse, x
<1>10. NewForm.code = "none" /\ NewForm.body = "none"
  BY DEF NewForm
<1> QED
  BY <1>6, <1>8, <1>9, <1>10 DEF IsResponseForm

LEMMA StatusKeeps ==
  ASSUME NEW sc \in StatusCode, NEW message \in {"none", "scalar", "object"}
  PROVE  LET op == [status |-> sc, message |-> message] IN
         /\ Allowed(NewForm, op)
         /\ NextForm(NewForm, op) =
              [open |-> <<"object">>, awaits |-> FALSE, code |-> sc,
               body |-> IF message = "none" THEN "none" ELSE BodyOf(sc)]
<1> DEFINE op == [status |-> sc, message |-> message]
<1>1. op \in StatusOps /\ op.status = sc /\ op.message = message
  BY DEF StatusOps
<1>2. BetweenMembers(NewForm) /\ NewForm.code = "none" /\ NewForm.body = "none"
  BY DEF BetweenMembers, NewForm
<1> HIDE DEF op
<1>3. Allowed(NewForm, op)
  BY <1>1, <1>2 DEF Allowed
<1>4. NextForm(NewForm, op) = StatusForm(NewForm, op)
  BY <1>1 DEF NextForm
<1>5. StatusForm(NewForm, op) =
        [open |-> <<"object">>, awaits |-> FALSE, code |-> sc,
         body |-> IF message = "none" THEN "none" ELSE BodyOf(sc)]
  BY <1>1 DEF StatusForm, NewForm
<1> QED
  BY <1>3, <1>4, <1>5 DEF op

LEMMA OneOpKeeps ==
  ASSUME NEW op, Allowed(NewForm, op)
  PROVE  KeepsRules(NewForm, <<op>>) /\ FormAfter(NewForm, <<op>>) = NextForm(NewForm, op)
<1> DEFINE w == <<op>>
<1>1. Len(w) = 1 /\ w[1] = op
  OBVIOUS
<1> HIDE DEF w
<1>2. Forms(NewForm, w)[0] = NewForm /\ Forms(NewForm, w)[1] = NextForm(Forms(NewForm, w)[1 - 1], w[1])
  BY <1>1, FormsStep
<1>3. KeepsRules(NewForm, w) /\ FormAfter(NewForm, w) = NextForm(NewForm, op)
  BY <1>1, <1>2 DEF KeepsRules, FormAfter
<1> QED
  BY <1>3 DEF w

(* An object is opened in an object, and is closed again.                  *)
LEMMA Nested ==
  /\ Append(<<"object">>, "object") = <<"object", "object">>
  /\ SubSeq(<<"object", "object">>, 1, 1) = <<"object">>
<1> DEFINE S == {"object"}
           one == <<"object">>
           two == <<"object", "object">>
<1>1. /\ one \in Seq(S) /\ Len(one) = 1 /\ one[1] = "object"
      /\ two \in Seq(S) /\ Len(two) = 2 /\ two[1] = "object" /\ two[2] = "object"
  OBVIOUS
<1>2. Append(one, "object") = two
  <2> HIDE DEF one, two
  <2> DEFINE t == Append(one, "object")
  <2>1. "object" \in S
    OBVIOUS
  <2>2. /\ t \in Seq(S) /\ Len(t) = Len(one) + 1
        /\ t[Len(one) + 1] = "object" /\ \A i \in 1 .. Len(one) : t[i] = one[i]
    BY <1>1, <2>1, AppendProperties, ZenonT(60)
  <2> HIDE DEF S, t
  <2>3. Len(t) = 2 /\ t[1] = "object" /\ t[2] = "object"
    BY <1>1, <2>2
  <2>4. \A i \in 1 .. Len(t) : t[i] = two[i]
    BY <1>1, <2>3
  <2>5. t = two
    BY <1>1, <2>2, <2>3, <2>4, SeqEqual
  <2> QED
    BY <2>5 DEF t
<1>3. SubSeq(two, 1, 1) = one
  <2> HIDE DEF one, two
  <2> DEFINE t == SubSeq(two, 1, 1)
  <2>1. \A i \in 1 .. 1 : two[i] \in S
    BY <1>1
  <2>2. t \in Seq(S) /\ Len(t) = 1 /\ t[1] = "object"
    BY <1>1, <2>1, SubSeqProperties
  <2> HIDE DEF S, t
  <2>3. \A i \in 1 .. Len(t) : t[i] = one[i]
    BY <1>1, <2>2
  <2>4. t = one
    BY <1>1, <2>2, <2>3, SeqEqual
  <2> QED
    BY <2>4 DEF t
<1> QED
  BY <1>2, <1>3

LEMMA RefusalsKeep ==
  \A w \in Refusals : KeepsRules(NewForm, w) /\ Finished(FormAfter(NewForm, w))
<1>1. ASSUME NEW sc \in {"FAIL", "INVALID_PARAMETERS"}
      PROVE  LET w == <<[status |-> sc, message |-> "scalar"]>> IN
             KeepsRules(NewForm, w) /\ Finished(FormAfter(NewForm, w))
  <2> DEFINE op == [status |-> sc, message |-> "scalar"]
             f == [open |-> <<"object">>, awaits |-> FALSE, code |-> sc, body |-> BodyOf(sc)]
  <2>1. sc \in StatusCode
    BY DEF StatusCode
  <2>2. Allowed(NewForm, op) /\ NextForm(NewForm, op) = f
    BY <2>1, StatusKeeps
  <2>3. Finished(f)
    BY DEF Finished, BetweenMembers
  <2> HIDE DEF op, f
  <2>4. KeepsRules(NewForm, <<op>>) /\ FormAfter(NewForm, <<op>>) = f
    BY <2>2, OneOpKeeps
  <2>5. KeepsRules(NewForm, <<op>>) /\ Finished(FormAfter(NewForm, <<op>>))
    BY <2>3, <2>4
  <2> QED
    BY <2>5 DEF op
<1> DEFINE w == <<[status |-> "INVALID_PARAMETERS", message |-> "none"], [insert |-> "result"],
                  [insert |-> "startObject"], [insert |-> "key"], [insert |-> "value"], [insert |-> "endObject"]>>
           form(open, awaits, body) ==
             [open |-> open, awaits |-> awaits, code |-> "INVALID_PARAMETERS", body |-> body]
           f1 == form(<<"object">>, FALSE, "none")
           f2 == form(<<"object">>, TRUE, "error")
           f3 == InsertForm(f2, "startObject")
           f4 == InsertForm(f3, "key")
           f5 == InsertForm(f4, "value")
           f6 == InsertForm(f5, "endObject")
<1>2. Allowed(NewForm, w[1]) /\ NextForm(NewForm, w[1]) = f1
  <2>1. w[1] = [status |-> "INVALID_PARAMETERS", message |-> "none"]
    OBVIOUS
  <2>2. "INVALID_PARAMETERS" \in StatusCode
    BY DEF StatusCode
  <2> HIDE DEF w
  <2> QED
    BY <2>1, <2>2, StatusKeeps
<1>3. ASSUME NEW i \in StreamOps, NEW g
      PROVE  NextForm(g, [insert |-> i]) = InsertForm(g, i)
  <2>1. [insert |-> i] \notin StatusOps /\ i # "result"
    <3>1. ASSUME NEW op \in StatusOps PROVE op # [insert |-> i]
      <4>1. DOMAIN op = {"status", "message"} /\ DOMAIN [insert |-> i] = {"insert"}
        BY DEF StatusOps
      <4> QED
        BY <4>1
    <3> QED
      BY <3>1 DEF StreamOps
  <2> QED
    BY <2>1 DEF NextForm
<1>4. NextForm(f1, [insert |-> "result"]) = f2 /\ Allowed(f1, [insert |-> "result"])
  <2>1. [insert |-> "result"] \notin StatusOps
    <3>1. ASSUME NEW op \in StatusOps PROVE op # [insert |-> "result"]
      <4>1. DOMAIN op = {"status", "message"} /\ DOMAIN [insert |-> "result"] = {"insert"}
        BY DEF StatusOps
      <4> QED
        BY <4>1
    <3> QED
      BY <3>1
  <2>2. BodyOf("INVALID_PARAMETERS") = "error"
    BY DEF BodyOf, Negative, StatusCode
  <2>3. BetweenMembers(f1)
    BY DEF BetweenMembers
  <2>4. NextForm(f1, [insert |-> "result"]) = BodyForm(f1)
    BY <2>1 DEF NextForm
  <2>5. BodyForm(f1) = f2
    BY <2>2 DEF BodyForm
  <2> QED
    BY <2>3, <2>4, <2>5 DEF Allowed
<1>5. f2 \in DocumentForm /\ f2.open = <<"object">> /\ f2.awaits /\ f2.code = "INVALID_PARAMETERS" /\ f2.body = "error"
  BY DEF DocumentForm, StatusCode
<1>6. ASSUME NEW g \in DocumentForm, NEW i \in {"value", "startObject", "key", "endObject"}
      PROVE  /\ i \in StreamOps /\ InsertForm(g, i) \in DocumentForm
             /\ InsertForm(g, i).code = g.code /\ InsertForm(g, i).body = g.body
             /\ InsertForm(g, i).awaits <=> i = "key"
             /\ i = "startObject" => InsertForm(g, i).open = Append(g.open, "object")
             /\ i = "endObject" => InsertForm(g, i).open = SubSeq(g.open, 1, Len(g.open) - 1)
             /\ i \in {"key", "value"} => InsertForm(g, i).open = g.open
  <2>1. i \in StreamOps
    BY DEF StreamOps
  <2> QED
    BY <2>1, FormFields
<1>7. /\ f3 \in DocumentForm /\ f3.open = <<"object", "object">> /\ ~f3.awaits
      /\ f3.code = "INVALID_PARAMETERS" /\ f3.body = "error"
  <2> HIDE DEF f2
  <2>1. f3 \in DocumentForm /\ f3.open = Append(f2.open, "object") /\ ~f3.awaits /\ f3.code = f2.code /\ f3.body = f2.body
    BY <1>5, <1>6
  <2> HIDE DEF f3
  <2>2. f3.open = <<"object", "object">>
    BY <1>5, <2>1, Nested, Zenon
  <2> QED
    BY <1>5, <2>1, <2>2
<1>8. /\ f4 \in DocumentForm /\ f4.open = <<"object", "object">> /\ f4.awaits
      /\ f4.code = "INVALID_PARAMETERS" /\ f4.body = "error"
  <2> HIDE DEF f3
  <2> QED
    BY <1>6, <1>7
<1>9. /\ f5 \in DocumentForm /\ f5.open = <<"object", "object">> /\ ~f5.awaits
      /\ f5.code = "INVALID_PARAMETERS" /\ f5.body = "error"
  <2> HIDE DEF f4
  <2> QED
    BY <1>6, <1>8
<1>10. Finished(f6)
  <2> HIDE DEF f5
  <2>1. f6.open = SubSeq(f5.open, 1, Len(f5.open) - 1) /\ ~f6.awaits /\ f6.code = f5.code /\ f6.body = f5.body
    BY <1>6, <1>9
  <2> HIDE DEF f6
  <2>2. f6.open = <<"object">>
    <3>1. Len(<<"object", "object">>) = 2 /\ 2 - 1 = 1
      OBVIOUS
    <3> QED
      BY <1>9, <2>1, <3>1, Nested, Zenon
  <2> QED
    BY <1>9, <2>1, <2>2 DEF Finished, BetweenMembers, BodyOf, Negative, StatusCode
<1>11. /\ NextForm(f2, [insert |-> "startObject"]) = f3 /\ Allowed(f2, [insert |-> "startObject"])
       /\ NextForm(f4, [insert |-> "value"]) = f5 /\ Allowed(f4, [insert |-> "value"])
  <2>1. TakesValue(f2) /\ TakesValue(f4)
    BY <1>5, <1>8 DEF TakesValue
  <2>2. "startObject" \in StreamOps /\ "value" \in StreamOps
    BY DEF StreamOps
  <2>3. NextForm(f2, [insert |-> "startObject"]) = f3 /\ NextForm(f4, [insert |-> "value"]) = f5
    BY <1>3, <2>2
  <2> HIDE DEF f2, f4, f3, f5
  <2> QED
    BY <2>1, <2>3 DEF Allowed
<1>12. /\ NextForm(f3, [insert |-> "key"]) = f4 /\ Allowed(f3, [insert |-> "key"])
       /\ NextForm(f5, [insert |-> "endObject"]) = f6 /\ Allowed(f5, [insert |-> "endObject"])
  <2>1. TakesKey(f3) /\ TakesKey(f5)
    <3> HIDE DEF f3, f5
    <3>1. Reader!Innermost(f3) = "object" /\ Reader!Innermost(f5) = "object"
      BY <1>7, <1>9 DEF Reader!Innermost
    <3> QED
      BY <1>7, <1>9, <3>1 DEF TakesKey
  <2>2. "key" \in StreamOps /\ "endObject" \in StreamOps
    BY DEF StreamOps
  <2>3. NextForm(f3, [insert |-> "key"]) = f4 /\ NextForm(f5, [insert |-> "endObject"]) = f6
    BY <1>3, <2>2
  <2> HIDE DEF f3, f4, f5, f6
  <2> QED
    BY <2>1, <2>3 DEF Allowed
<1>13. /\ Len(w) = 6 /\ w[2] = [insert |-> "result"] /\ w[3] = [insert |-> "startObject"]
       /\ w[4] = [insert |-> "key"] /\ w[5] = [insert |-> "value"] /\ w[6] = [insert |-> "endObject"]
  OBVIOUS
<1>14. KeepsRules(NewForm, w) /\ FormAfter(NewForm, w) = f6
  <2> HIDE DEF w, f1, f2, f3, f4, f5, f6
  <2>1. Forms(NewForm, w)[0] = NewForm /\ \A n \in 1 .. 6 : Forms(NewForm, w)[n] = NextForm(Forms(NewForm, w)[n - 1], w[n])
    BY <1>13, FormsStep
  <2> DEFINE s == Forms(NewForm, w)
  <2> HIDE DEF s
  <2>2. \A n \in 1 .. 6 : s[n] = NextForm(s[n - 1], w[n])
    BY <2>1 DEF s
  <2>3. s[0] = NewForm
    BY <2>1 DEF s
  <2>4. s[1] = NextForm(s[0], w[1]) /\ s[2] = NextForm(s[1], w[2]) /\ s[3] = NextForm(s[2], w[3])
    BY <2>2
  <2>5. s[4] = NextForm(s[3], w[4]) /\ s[5] = NextForm(s[4], w[5]) /\ s[6] = NextForm(s[5], w[6])
    BY <2>2
  <2>6. s[1] = f1 /\ s[2] = f2 /\ s[3] = f3
    BY <1>2, <1>4, <1>13, <1>11, <2>3, <2>4
  <2>7. s[4] = f4 /\ s[5] = f5 /\ s[6] = f6
    BY <1>13, <1>11, <1>12, <2>5, <2>6
  <2>8. \A n \in 1 .. 6 : Allowed(s[n - 1], w[n])
    <3>1. Allowed(s[0], w[1]) /\ Allowed(s[1], w[2]) /\ Allowed(s[2], w[3])
      BY <1>2, <1>4, <1>13, <1>11, <2>3, <2>6
    <3>2. Allowed(s[3], w[4]) /\ Allowed(s[4], w[5]) /\ Allowed(s[5], w[6])
      BY <1>13, <1>11, <1>12, <2>6, <2>7
    <3>3. TAKE n \in 1 .. 6
    <3>4. n = 1 \/ n = 2 \/ n = 3 \/ n = 4 \/ n = 5 \/ n = 6
      OBVIOUS
    <3>5. n = 1 => Allowed(s[n - 1], w[n])
      BY <3>1
    <3>6. n = 2 => Allowed(s[n - 1], w[n])
      BY <3>1
    <3>7. n = 3 => Allowed(s[n - 1], w[n])
      BY <3>1
    <3>8. n = 4 => Allowed(s[n - 1], w[n])
      BY <3>2
    <3>9. n = 5 => Allowed(s[n - 1], w[n])
      BY <3>2
    <3>10. n = 6 => Allowed(s[n - 1], w[n])
      BY <3>2
    <3> QED
      BY <3>4, <3>5, <3>6, <3>7, <3>8, <3>9, <3>10
  <2> QED
    BY <1>13, <2>7, <2>8 DEF KeepsRules, FormAfter, s
<1>15. KeepsRules(NewForm, w) /\ Finished(FormAfter(NewForm, w))
  <2> HIDE DEF w, f6
  <2> QED
    BY <1>10, <1>14
<1> QED
  BY <1>1, <1>15 DEF Refusals

(* The end of the response makes a document of it, with the same body.     *)
LEMMA CloseComplete ==
  ASSUME NEW r \in Response, NEW form \in DocumentForm, IsResponseForm(r, form), BetweenMembers(form)
  PROVE  /\ Reader!Complete(close(r).out.text)
         /\ BodyIs(close(r).out.text.members, form.body)
         /\ close(r).statusCode = r.statusCode
<1> DEFINE f == InsertForm(form, "endObject")
           q == Written(r, "endObject")
<1>1. "endObject" \in StreamOps
  BY DEF StreamOps
<1>2. form.open = <<"object">> /\ ~form.awaits
  BY DEF BetweenMembers
<1>3. Allowed(form, [insert |-> "endObject"])
  <2>1. Reader!Innermost(form) = "object"
    BY <1>2 DEF Reader!Innermost
  <2> QED
    BY <1>2, <2>1 DEF Allowed, TakesKey
<1>4. f \in DocumentForm /\ IsResponseForm(q, f)
  BY <1>1, <1>3, WrittenForm
<1>5. f.open = SubSeq(form.open, 1, Len(form.open) - 1) /\ ~f.awaits /\ f.body = form.body
  BY <1>1, FormFields
<1>6. q.statusCode = r.statusCode
  BY DEF Written, Response
<1> HIDE DEF f, q
<1>7. f.open = <<>>
  BY <1>2, <1>5
<1>8. /\ q.out.text.ok /\ q.out.text.open = <<>>
      /\ q.out.text.last \notin {"comma", "start", "key", "open"}
      /\ BodyIs(q.out.text.members, f.body)
  BY <1>4, <1>5, <1>7 DEF IsResponseForm, IsForm, Sound
<1>9. q \in Response
  BY <1>1, WrittenType DEF q
<1>10. q.out.text.last = "value"
  BY <1>8, <1>9 DEF Response, Stream, Reader!Text
<1> QED
  BY <1>5, <1>6, <1>8, <1>10 DEF close, q, Reader!Complete

-----------------------------------------------------------------------------
(* The response always has a form from which whoever writes keeps the rules, and
   which the command can be done with, or wait with, when he is through.   *)
LeadsOn(form) ==
  /\ form \in DocumentForm
  /\ IsResponseForm(response, form)
  /\ KeepsRules(form, todo)
  /\ phase \in {"answering", "ending"} => Finished(FormAfter(form, todo))
  /\ phase \in {"starting", "waiting"} => FormAfter(form, todo) \in Waiting(command, reported = 0)

DocumentInv ==
  /\ phase # "done" => \E form : LeadsOn(form)
  /\ response.out.text.ok
  /\ phase = "done" => Reader!Complete(response.out.text) /\ BodyMatchesStatus

(* An agreed form has at most one body, under the right key.               *)
LEMMA BodyAgrees ==
  ASSUME NEW r \in Response, NEW form \in DocumentForm, IsResponseForm(r, form), Finished(form),
         NEW ms, BodyIs(ms, form.body)
  PROVE  LET bodies == {i \in 1 .. Len(ms) : ms[i] \in {"result", "error"}} IN
         /\ \A i, j \in bodies : i = j
         /\ \A i \in bodies : ms[i] = "error" <=> r.statusCode # "SUCCESS"
<1> DEFINE bodies == {i \in 1 .. Len(ms) : ms[i] \in {"result", "error"}}
<1>1. CASE form.body = "none"
  <2>1. bodies = {}
    BY <1>1 DEF BodyIs
  <2> QED
    BY <2>1
<1>2. CASE form.body # "none"
  <2>1. PICK i \in 1 .. Len(ms) :
          ms[i] = form.body /\ \A j \in 1 .. Len(ms) : j # i => ms[j] = "status"
    BY <1>2 DEF BodyIs
  <2>2. bodies \subseteq {i}
    BY <2>1
  <2>3. form.body = BodyOf(form.code)
    BY <1>2 DEF Finished
  <2>4. form.body = "error" <=> r.statusCode # "SUCCESS"
    <3>1. r.statusCode \in StatusCode
      BY DEF Response
    <3>2. CASE r.statusCodeSet
      BY <2>3, <3>1, <3>2 DEF BodyOf, Negative, IsResponseForm
    <3>3. CASE ~r.statusCodeSet
      BY <2>3, <3>3 DEF BodyOf, Negative, IsResponseForm, StatusCode
    <3> QED
      BY <3>2, <3>3
  <2> HIDE DEF bodies
  <2> QED
    BY <2>1, <2>2, <2>4
<1> QED
  BY <1>1, <1>2

LEMMA DocumentStarts == Init => DocumentInv
<1> SUFFICES ASSUME Init PROVE DocumentInv
  OBVIOUS
<1> DEFINE text == close(NewResponse).out.text
<1>1. BetweenMembers(NewForm) /\ NewForm.body = "none"
  BY DEF BetweenMembers, NewForm
<1>2. Reader!Complete(text) /\ BodyIs(text.members, "none")
  BY <1>1, NewFormType, NewResponseType, NewResponseForm, CloseComplete
<1>3. response.out.text = text /\ phase = "done"
  BY DEF Init
<1> HIDE DEF text
<1>4. {i \in 1 .. Len(text.members) : text.members[i] \in {"result", "error"}} = {}
  BY <1>2 DEF BodyIs
<1>5. BodyMatchesStatus
  BY <1>3, <1>4 DEF BodyMatchesStatus
<1>6. response.out.text.ok
  BY <1>2, <1>3 DEF Reader!Complete
<1> QED
  BY <1>2, <1>3, <1>5, <1>6 DEF DocumentInv

(* Whoever closes the response has finished it.                            *)
LEMMA DocumentEnds ==
  ASSUME TypeOK, DocumentInv, phase \in {"answering", "ending"}, todo = <<>>,
         phase' = "done", returned' = response.statusCode, response' = close(response)
  PROVE  DocumentInv'
<1>1. PICK form : LeadsOn(form)
  BY DEF DocumentInv
<1>2. form \in DocumentForm /\ IsResponseForm(response, form) /\ Finished(form) /\ response \in Response
  BY <1>1, RulesEnd DEF LeadsOn, TypeOK
<1>3. BetweenMembers(form)
  BY <1>2 DEF Finished
<1>4. Reader!Complete(response'.out.text) /\ BodyIs(response'.out.text.members, form.body)
  BY <1>2, <1>3, CloseComplete
<1> DEFINE ms == response'.out.text.members
<1> HIDE DEF ms
<1>5. /\ \A i, j \in {n \in 1 .. Len(ms) : ms[n] \in {"result", "error"}} : i = j
      /\ \A i \in {n \in 1 .. Len(ms) : ms[n] \in {"result", "error"}} :
           ms[i] = "error" <=> returned' # "SUCCESS"
  <2>1. BodyIs(ms, form.body)
    BY <1>4 DEF ms
  <2> QED
    BY <1>2, <2>1, BodyAgrees
<1>6. BodyMatchesStatus'
  BY <1>5 DEF BodyMatchesStatus, ms
<1>7. response'.out.text.ok
  BY <1>4 DEF Reader!Complete
<1> QED
  BY <1>4, <1>6, <1>7 DEF DocumentInv

LEMMA DocumentGoesOn ==
  ASSUME TypeOK, EveryRuleIsKept, DocumentInv, [Next]_vars
  PROVE  DocumentInv'
<1>1. ASSUME NEW c \in Command, Call(c)
      PROVE  DocumentInv'
  <2>1. response' = NewResponse /\ command' = c /\ reported' = 0 /\ phase' \in {"answering", "starting"}
    BY <1>1 DEF Call
  <2>2. KeepsRules(NewForm, todo')
    BY <1>1, RefusalsKeep DEF Call, EveryRuleIsKept
  <2>3. phase' = "answering" => Finished(FormAfter(NewForm, todo'))
    BY <1>1, RefusalsKeep DEF Call, EveryRuleIsKept
  <2>4. phase' = "starting" => FormAfter(NewForm, todo') \in Waiting(c, TRUE)
    BY <1>1 DEF Call, Waiting, Begun
  <2>5. LeadsOn(NewForm)'
    BY <2>1, <2>2, <2>3, <2>4, NewFormType, NewResponseForm DEF LeadsOn
  <2>6. response'.out.text.ok
    BY <2>1, NewResponseForm DEF IsResponseForm, IsForm, Sound
  <2> QED
    BY <2>1, <2>5, <2>6 DEF DocumentInv
<1>2. CASE Write
  <2>1. phase # "done"
    BY <1>2 DEF Write, TypeOK
  <2>2. PICK form : LeadsOn(form)
    BY <2>1 DEF DocumentInv
  <2>3. /\ todo \in Seq(Ops) /\ todo # <<>> /\ Head(todo) \in Ops /\ response \in Response
        /\ response' = Apply(response, Head(todo)) /\ todo' = Tail(todo)
        /\ phase' = phase /\ command' = command /\ reported' = reported
    BY <1>2, HeadTailProperties DEF Write, TypeOK
  <2>4. /\ Allowed(form, Head(todo))
        /\ KeepsRules(NextForm(form, Head(todo)), todo')
        /\ FormAfter(NextForm(form, Head(todo)), todo') = FormAfter(form, todo)
    BY <2>2, <2>3, RulesTail DEF LeadsOn
  <2> PICK next : next = NextForm(form, Head(todo))
    OBVIOUS
  <2>5. next \in DocumentForm /\ IsResponseForm(response', next)
    BY <2>2, <2>3, <2>4, ApplyForm DEF LeadsOn
  <2>6. LeadsOn(next)'
    BY <2>2, <2>3, <2>4, <2>5 DEF LeadsOn
  <2>7. response'.out.text.ok
    BY <2>5 DEF IsResponseForm, IsForm, Sound
  <2> QED
    BY <2>1, <2>3, <2>6, <2>7 DEF DocumentInv
<1>3. CASE Return
  BY <1>3, DocumentEnds DEF Return
<1>4. CASE Release
  BY <1>4, DocumentEnds DEF Release
<1>5. CASE Continue
  <2>1. PICK form : LeadsOn(form)
    BY <1>5 DEF DocumentInv, Continue
  <2>2. LeadsOn(form)'
    BY <1>5, <2>1 DEF LeadsOn, Continue
  <2> QED
    BY <1>5, <2>2 DEF DocumentInv, Continue
<1>6. CASE Report
  <2>1. PICK form : LeadsOn(form)
    BY <1>6 DEF DocumentInv, Report
  <2> DEFINE first == reported = 0
  <2>2. /\ form \in Waiting(command, first) /\ first \in BOOLEAN /\ command \in Command
        /\ todo' \in Writes[command].reports[first]
    BY <1>6, <2>1, RulesEnd DEF LeadsOn, Report, TypeOK
  <2>3. (reported = 0)' = FALSE /\ phase' = "waiting" /\ response' = response /\ command' = command
    BY <1>6 DEF Report, TypeOK
  <2> HIDE DEF first
  <2>4. KeepsRules(form, todo') /\ FormAfter(form, todo') \in FirstReported(command)
    BY <2>2 DEF EveryRuleIsKept
  <2>5. FormAfter(form, todo') \in Waiting(command', (reported = 0)')
    BY <2>3, <2>4 DEF Waiting
  <2>6. LeadsOn(form)'
    BY <2>1, <2>3, <2>4, <2>5 DEF LeadsOn
  <2> QED
    BY <2>3, <2>6 DEF DocumentInv
<1>7. CASE End
  <2>1. PICK form : LeadsOn(form)
    BY <1>7 DEF DocumentInv, End
  <2> DEFINE first == reported = 0
  <2>2. /\ form \in Waiting(command, first) /\ first \in BOOLEAN /\ command \in Command
        /\ todo' \in Writes[command].ends[first]
    BY <1>7, <2>1, RulesEnd DEF LeadsOn, End, TypeOK
  <2>3. phase' = "ending" /\ response' = response
    BY <1>7 DEF End
  <2> HIDE DEF first
  <2>4. KeepsRules(form, todo') /\ Finished(FormAfter(form, todo'))
    BY <2>2 DEF EveryRuleIsKept
  <2>5. LeadsOn(form)'
    BY <2>1, <2>3, <2>4 DEF LeadsOn
  <2> QED
    BY <2>3, <2>5 DEF DocumentInv
<1>8. CASE UNCHANGED vars
  BY <1>8 DEF vars, DocumentInv, LeadsOn, BodyMatchesStatus
<1> QED
  BY <1>1, <1>2, <1>3, <1>4, <1>5, <1>6, <1>7, <1>8 DEF Next

LEMMA DocumentStays == ASSUME EveryRuleIsKept PROVE Spec => []DocumentInv
<1>1. TypeOK /\ DocumentInv /\ [Next]_vars => DocumentInv'
  BY DocumentGoesOn
<1> QED
  BY <1>1, DocumentStarts, TypeCorrect, PTL DEF Spec

(* If those who write keep the rules, whatever is printed is the beginning of a
   document and a command that is done has printed a whole one: the braces, keys,
   values and commas that a handler, any number of callbacks and the end or the
   timeout wrote in turn fit together (CommandResponse.h:84).              *)
THEOREM DocumentIsWellFormed == ASSUME EveryRuleIsKept PROVE Spec => []WellFormed
<1>1. DocumentInv => WellFormed
  BY DEF DocumentInv, WellFormed
<1> QED
  BY <1>1, DocumentStays, PTL

(* Such a document has one result or error, and has an error if and only if the
   command line is given one, whenever the body was begun and whoever set the
   status first (CommandResponse.cpp:63).                                  *)
THEOREM BodyAgreesWithStatus == ASSUME EveryRuleIsKept PROVE Spec => []BodyMatchesStatus
<1>1. DocumentInv => BodyMatchesStatus
  BY DEF DocumentInv, BodyMatchesStatus
<1> QED
  BY <1>1, DocumentStays, PTL

-----------------------------------------------------------------------------
(* The steps of the composition are steps of ResponseStream                *)

LEMMA InvokeCalls ==
  ASSUME NEW l \in Answered, Invoke(l)
  PROVE  /\ phase = "done"
         /\ Form(l, version) \in Command => Call(Form(l, version))
  BY DEF Invoke, Call

(* What the lines of Answered ask for, Writes has.                         *)
LEMMA AnsweredForms ==
  ASSUME NEW l \in Answered, version \in {1, 2}
  PROVE  Form(l, version) \in Command
  BY DEF Answered

VersionOK == version \in {1, 2}

LEMMA VersionStep == VersionOK /\ [InvocationNext]_allVars => VersionOK'
<1> SUFFICES ASSUME VersionOK, [InvocationNext]_allVars PROVE VersionOK'
  OBVIOUS
<1>1. CASE \E l \in Answered : Invoke(l)
  BY <1>1 DEF Invoke, CallHandler, UseVersion, use_version, VersionOK
<1>2. CASE Respond \/ Destroy \/ PrintEvent
  BY <1>2 DEF Respond, Destroy, PrintEvent, VersionOK
<1>3. CASE UNCHANGED allVars
  BY <1>3 DEF allVars, invocationVars, VersionOK
<1> QED BY <1>1, <1>2, <1>3 DEF InvocationNext

(* The version of the gap commands is one of the two that use_version() knows
   (GapCommands.cpp:556).                                                  *)
THEOREM VersionCorrect == InvocationSpec => []VersionOK
<1>1. InvocationInit => VersionOK
  BY DEF InvocationInit, VersionOK
<1> QED BY <1>1, VersionStep, PTL DEF InvocationSpec

LEMMA StepsAreResponses == VersionOK /\ [InvocationNext]_allVars => [Next]_vars
<1> SUFFICES ASSUME VersionOK, [InvocationNext]_allVars PROVE [Next]_vars
  OBVIOUS
<1>1. CASE \E l \in Answered : Invoke(l)
  BY <1>1, InvokeCalls, AnsweredForms DEF VersionOK, Next
<1>2. CASE Respond
  BY <1>2 DEF Respond, Next
<1>3. CASE Destroy
  BY <1>3 DEF Destroy, Next
<1>4. CASE PrintEvent
  BY <1>4 DEF PrintEvent
<1>5. CASE UNCHANGED allVars
  BY <1>5 DEF allVars
<1> QED BY <1>1, <1>2, <1>3, <1>4, <1>5 DEF InvocationNext

(* The composition implements ResponseStream: the lines of the host, the versions of gap
   and its events do nothing to a response that commandHandler() and the procedures
   do not.                                                                 *)
THEOREM ImplementsResponseStream == InvocationSpec => Spec
<1>1. InvocationInit => Init
  BY DEF InvocationInit
<1> QED BY <1>1, StepsAreResponses, VersionCorrect, PTL DEF InvocationSpec, Spec

(* What is proved of ResponseStream holds of the composition: the fields of the response
   and of the call have their types;                                       *)
THEOREM InvocationTypeCorrect == InvocationSpec => []TypeOK
BY ImplementsResponseStream, TypeCorrect, PTL

(* a command that is done has told one status, the one that is returned to the command
   line, if each entry of the table tells one (CommandResponse.cpp:47);    *)
THEOREM InvocationTellsOnce == ASSUME EveryCommandTells PROVE InvocationSpec => []StatusToldOnce
BY ImplementsResponseStream, StatusIsToldOnce, PTL

(* and the stream knows when a comma is due, if each value is committed
   (JSONOutputStream.cpp:165).                                             *)
THEOREM InvocationKnowsComma == ASSUME EveryValueIsCommitted PROVE InvocationSpec => []CommaIsDue
BY ImplementsResponseStream, CommaIsKnown, PTL

(* Where every entry of the table keeps the rules of those who write, what is printed is
   a document (CommandResponse.h:84)                                       *)
THEOREM InvocationWritesDocument == ASSUME EveryRuleIsKept PROVE InvocationSpec => []WellFormed
BY ImplementsResponseStream, DocumentIsWellFormed, PTL

(* with one result or error, that agrees with the code the command line is given
   (CommandResponse.cpp:63).                                               *)
THEOREM InvocationBodyAgrees == ASSUME EveryRuleIsKept PROVE InvocationSpec => []BodyMatchesStatus
BY ImplementsResponseStream, BodyAgreesWithStatus, PTL

-----------------------------------------------------------------------------
(* The handler of the stack                                                *)

LEMMA HandlerAliveInvoke ==
  ASSUME HandlerIsAlive, NEW l \in Answered, Invoke(l)
  PROVE  HandlerIsAlive'
<1>1. eventHandler # "procedure"
  BY InvokeCalls DEF HandlerIsAlive
<1>2. command' = Form(l, version)
  BY DEF Invoke, Call
<1> DEFINE told == Outcome(l, version)
<1>3. CASE told.is # "called"
  BY <1>1, <1>3 DEF Invoke, HandlerIsAlive
<1>4. CASE told.is = "called"
  <2>1. CallHandler(Form(l, version), told.values)
    BY <1>4 DEF Invoke
  <2>2. CASE Form(l, version) = "useVersion"
    BY <1>1, <2>1, <2>2 DEF CallHandler, UseVersion, HandlerIsAlive
  <2>3. CASE Form(l, version) # "useVersion"
    BY <1>1, <1>2, <2>1, <2>3 DEF CallHandler, HandlerIsAlive, afterReadPhy
  <2> QED BY <2>2, <2>3
<1> QED BY <1>3, <1>4

LEMMA HandlerAliveStep == HandlerIsAlive /\ [InvocationNext]_allVars => HandlerIsAlive'
<1> SUFFICES ASSUME HandlerIsAlive, [InvocationNext]_allVars PROVE HandlerIsAlive'
  OBVIOUS
<1>1. CASE \E l \in Answered : Invoke(l)
  BY <1>1, HandlerAliveInvoke
<1>2. CASE Respond
  BY <1>2 DEF Respond, Write, Return, Continue, Report, End, HandlerIsAlive
<1>3. CASE Destroy
  BY <1>3 DEF Destroy, Release, HandlerIsAlive, afterReadPhy
<1>4. CASE PrintEvent
  BY <1>4 DEF PrintEvent, vars, HandlerIsAlive
<1>5. CASE UNCHANGED allVars
  BY <1>5 DEF allVars, vars, invocationVars, HandlerIsAlive
<1> QED BY <1>1, <1>2, <1>3, <1>4, <1>5 DEF InvocationNext

(* A procedure that the stack calls back has not been destroyed: ~ReadPhyProcedure()
   unregisters it (GapCommands.cpp:416).                                   *)
THEOREM HandlerAlive == InvocationSpec => []HandlerIsAlive
<1>1. InvocationInit => HandlerIsAlive
  BY DEF InvocationInit, HandlerIsAlive
<1> QED BY <1>1, HandlerAliveStep, PTL DEF InvocationSpec

-----------------------------------------------------------------------------
(* Refusals                                                                *)

(* The first of the arguments that do not convert.                         *)
LEMMA FirstFailureIsFirst ==
  ASSUME NEW converted, NEW n \in Nat, DOMAIN converted = 1 .. n,
         NEW k \in DOMAIN converted, Fails(converted, k)
  PROVE  /\ FirstFailure(converted) \in DOMAIN converted
         /\ Fails(converted, FirstFailure(converted))
         /\ \A j \in 1 .. FirstFailure(converted) - 1 : ~Fails(converted, j)
<1> DEFINE failures == {i \in DOMAIN converted : Fails(converted, i)}
<1>1. failures \subseteq Nat /\ failures # {}
  OBVIOUS
<1>2. PICK i \in failures : \A j \in failures : ~(j < i)
  <2> HIDE DEF failures
  <2> QED BY <1>1, LeastIndex
<1>3. \A j \in 1 .. i - 1 : ~Fails(converted, j)
  BY <1>2
<1> QED BY <1>2, <1>3 DEF FirstFailure

LEMMA EarlierIndices ==
  ASSUME NEW n \in Nat, NEW i \in 1 .. n, NEW j \in 1 .. i - 1
  PROVE  j \in 1 .. n
OBVIOUS

(* A line of Answered that is refused for an argument is refused for the first. *)
LEMMA RefusedArgument ==
  ASSUME EntriesAreTyped, NEW v \in {1, 2}, NEW l \in Answered, Outcome(l, v).is = "bad argument"
  PROVE  LET types == commands[v][l.suite][l.name].types
             index == Outcome(l, v).index IN
         /\ fromString(types[index], l.words[index]) = {}
         /\ \A j \in 1 .. index - 1 : fromString(types[j], l.words[j]) # {}
<1> DEFINE types == commands[v][l.suite][l.name].types
           converted == [i \in DOMAIN types |-> fromString(types[i], l.words[i])]
<1>1. l.suite \in DOMAIN commands[v]
  BY LinesAssumption DEF Answered
<1>2. l.name \in DOMAIN commands[v][l.suite] /\ Outcome(l, v) = generated_handler(types, l.words)
  BY DEF Outcome
<1> DEFINE n == Len(types)
<1>3. n \in Nat /\ DOMAIN types = 1 .. n
  <2>1. \A name \in DOMAIN commands[v][l.suite] :
          /\ Len(commands[v][l.suite][name].types) \in Nat
          /\ DOMAIN commands[v][l.suite][name].types = 1 .. Len(commands[v][l.suite][name].types)
    BY <1>1, Zenon DEF EntriesAreTyped
  <2> QED BY <1>2, <2>1, Zenon
<1> DEFINE fails == \E i \in DOMAIN types : Fails(converted, i)
           called == Called([i \in DOMAIN types |-> CHOOSE c \in converted[i] : TRUE])
<1>4. generated_handler(types, l.words) = IF fails THEN BadArgument(FirstFailure(converted)) ELSE called
  BY DEF generated_handler
<1>5. called.is = "called"
  BY DEF Called
<1>6. fails /\ Outcome(l, v) = BadArgument(FirstFailure(converted))
  <2> HIDE DEF fails, called, converted, types
  <2> QED BY <1>2, <1>4, <1>5
<1>7. Outcome(l, v).index = FirstFailure(converted)
  <2>1. \A i : BadArgument(i).index = i
    BY DEF BadArgument
  <2> HIDE DEF fails, called, converted, types
  <2> QED BY <1>6, <2>1
<1>8. PICK k \in DOMAIN types : Fails(converted, k)
  BY <1>6
<1> DEFINE index == FirstFailure(converted)
<1>9. /\ index \in DOMAIN converted /\ Fails(converted, index)
      /\ \A j \in 1 .. index - 1 : ~Fails(converted, j)
  <2> HIDE DEF types
  <2>1. DOMAIN converted = 1 .. n /\ k \in DOMAIN converted
    BY <1>3, <1>8
  <2> HIDE DEF converted, n
  <2> QED BY <2>1, <1>3, <1>8, FirstFailureIsFirst
<1>10. \A j \in 1 .. index - 1 : j \in DOMAIN types
  <2> HIDE DEF types, n, index
  <2>1. DOMAIN converted = 1 .. n
    BY <1>3
  <2> HIDE DEF converted
  <2>2. index \in 1 .. n
    BY <1>9, <2>1
  <2>3. n \in Nat /\ DOMAIN types = 1 .. n
    BY <1>3
  <2> QED BY <2>2, <2>3, EarlierIndices
<1>11. converted[index] = fromString(types[index], l.words[index])
  <2> HIDE DEF index, types
  <2> QED BY <1>9
<1>12. \A j \in 1 .. index - 1 : converted[j] = fromString(types[j], l.words[j])
  <2> HIDE DEF index, types
  <2> QED BY <1>10
<1> HIDE DEF types, converted, index
<1>13. /\ fromString(types[index], l.words[index]) = {}
       /\ \A j \in 1 .. index - 1 : fromString(types[j], l.words[j]) # {}
  BY <1>9, <1>11, <1>12 DEF Fails
<1> QED BY <1>7, <1>13 DEF types, index

(* The status of a message that is written where none is set.              *)
LEMMA ApplyFirstStatus ==
  ASSUME NEW r \in Response, Told(r), ~r.statusCodeSet, NEW op \in StatusOps
  PROVE  Apply(r, op).statusCodeSet /\ Apply(r, op).statusCode = op.status
<1> DEFINE r1 == setStatusCode(r, op.status)
           r2 == getResultStream(r1)
           r3 == Message(r2, op.message)
<1>1. op.status \in StatusCode
  BY DEF StatusOps
<1>2. r1 \in Response /\ Told(r1) /\ r1.statusCodeSet
  BY <1>1, setStatusCodeType, setStatusCodeTold
<1>3. r1.statusCode = op.status
  BY DEF setStatusCode, Response
<1>4. r2 \in Response /\ Told(r2) /\ After(r1, r2)
  BY <1>2, getResultStreamType, getResultStreamTold
<1>5. After(r2, r3)
  BY <1>4, MessageTold
<1>6. r3.statusCodeSet /\ r3.statusCode = op.status
  BY <1>2, <1>3, <1>4, <1>5 DEF After
<1>7. Apply(r, op) = r1 \/ Apply(r, op) = r3
  BY DEF Apply, setStatusCodeAndMessage
<1> QED BY <1>2, <1>3, <1>6, <1>7

-----------------------------------------------------------------------------
Refused == outcome.is \notin {"none", "called"}
Code == IF outcome.is = "invalid command" THEN "FAIL" ELSE "INVALID_PARAMETERS"

(* A refusal is still to be told, is told, or is over.                     *)
Refusing ==
  \/ /\ phase = "answering" /\ ~response.statusCodeSet
     /\ todo # <<>> /\ Head(todo) \in StatusOps /\ Head(todo).status = Code
  \/ phase = "answering" /\ response.statusCodeSet /\ response.statusCode = Code
  \/ phase = "done" /\ returned = Code

(* The arguments of the line that is looked at.                            *)
FirstIsTold ==
  line # NoLine /\ outcome.is = "bad argument" =>
    /\ fromString(Entry.types[outcome.index], line.words[outcome.index]) = {}
    /\ \A j \in 1 .. outcome.index - 1 : fromString(Entry.types[j], line.words[j]) # {}

RefusalInv ==
  /\ VersionOK
  /\ Told(response)
  /\ Refused => Refusing
  /\ FirstIsTold

Kinds == {"invalid command", "not enough arguments", "too many arguments", "bad argument", "called"}

LEMMA OutcomeKinds == \A l, v : Outcome(l, v).is \in Kinds
BY DEF Outcome, generated_handler, Called, BadArgument, Kinds

LEMMA RefusalBegins ==
  ASSUME NEW what \in Kinds \ {"called"}
  PROVE  /\ Refusal(what) # <<>> /\ Head(Refusal(what)) \in StatusOps
         /\ Head(Refusal(what)).status =
              IF what = "invalid command" THEN "FAIL" ELSE "INVALID_PARAMETERS"
<1> DEFINE code == IF what = "invalid command" THEN "FAIL" ELSE "INVALID_PARAMETERS"
<1>1. \A m \in {"none", "scalar"} : [status |-> code, message |-> m] \in StatusOps
  BY DEF StatusOps, StatusCode
<1>2. \A m : [status |-> code, message |-> m].status = code
  OBVIOUS
<1>3. CASE what = "bad argument"
  <2>1. Refusal(what) = print_error /\ code = "INVALID_PARAMETERS"
    BY <1>3 DEF Refusal
  <2>2. print_error # <<>> /\ Head(print_error) = [status |-> "INVALID_PARAMETERS", message |-> "none"]
    BY DEF print_error
  <2>3. [status |-> "INVALID_PARAMETERS", message |-> "none"] \in StatusOps
    BY <1>1, <2>1
  <2>4. [status |-> "INVALID_PARAMETERS", message |-> "none"].status = code
    BY <2>1
  <2> HIDE DEF code
  <2>5. Refusal(what) # <<>> /\ Head(Refusal(what)) \in StatusOps /\ Head(Refusal(what)).status = code
    BY <2>1, <2>2, <2>3, <2>4
  <2> QED BY <2>5 DEF code
<1>4. CASE what # "bad argument"
  <2>1. Refusal(what) = <<[status |-> code, message |-> "scalar"]>>
    BY <1>4 DEF Refusal, Kinds
  <2>2. Head(Refusal(what)) = [status |-> code, message |-> "scalar"] /\ Refusal(what) # <<>>
    <3> HIDE DEF code
    <3> QED BY <2>1
  <2> QED BY <1>1, <1>2, <2>2
<1> QED BY <1>3, <1>4

LEMMA RefusalInvoke ==
  ASSUME EntriesAreTyped, RefusalInv, NEW l \in Answered, Invoke(l)
  PROVE  RefusalInv'
<1> DEFINE told == Outcome(l, version)
<1>1. line' = l /\ outcome' = told /\ response' = NewResponse
  BY DEF Invoke, Call
<1>2. VersionOK'
  BY VersionStep DEF RefusalInv, InvocationNext
<1>3. Told(response)'
  BY <1>1, NewResponseTold
<1>4. ASSUME told.is # "called"
      PROVE  (Refused => Refusing)' /\ FirstIsTold'
  <2>1. /\ phase' = "answering" /\ todo' = Refusal(told.is) /\ version' = version
    BY <1>4 DEF Invoke
  <2>2. told.is \in Kinds \ {"called"}
    BY <1>4, OutcomeKinds
  <2>3. Refusing'
    <3>1. ~response'.statusCodeSet
      BY <1>1 DEF NewResponse
    <3> QED BY <1>1, <2>1, <2>2, <3>1, RefusalBegins DEF Refusing, Code
  <2>4. ASSUME told.is = "bad argument" PROVE FirstIsTold'
    <3>1. Entry' = commands[version][l.suite][l.name]
      BY <1>1, <2>1 DEF Entry
    <3>2. version \in {1, 2}
      BY DEF RefusalInv, VersionOK
    <3> DEFINE entry == commands[version][l.suite][l.name]
    <3>3. /\ fromString(entry.types[told.index], l.words[told.index]) = {}
          /\ \A j \in 1 .. told.index - 1 : fromString(entry.types[j], l.words[j]) # {}
      BY <2>4, <3>2, RefusedArgument
    <3> HIDE DEF entry, told
    <3> QED BY <1>1, <3>1, <3>3 DEF FirstIsTold, entry
  <2>5. FirstIsTold'
    BY <1>1, <2>4 DEF FirstIsTold
  <2> QED BY <2>3, <2>5
<1>5. CASE told.is = "called"
  BY <1>1, <1>2, <1>3, <1>5 DEF RefusalInv, Refused, FirstIsTold
<1> QED BY <1>2, <1>3, <1>4, <1>5 DEF RefusalInv

(* What a handler or a procedure does keeps what was told.                 *)
LEMMA RefusalWrite ==
  ASSUME TypeOK, Told(response), Write
  PROVE  Told(response)' /\ (Refused /\ outcome'.is = outcome.is /\ Refusing => Refusing')
<1>1. /\ todo # <<>> /\ Head(todo) \in Ops /\ response \in Response
      /\ response' = Apply(response, Head(todo)) /\ phase' = phase /\ returned' = returned
  BY HeadTailProperties DEF Write, TypeOK
<1>2. Told(response') /\ After(response, response')
  BY <1>1, ApplyTold
<1>3. ASSUME ~response.statusCodeSet, Head(todo) \in StatusOps
      PROVE  response'.statusCodeSet /\ response'.statusCode = Head(todo).status
  BY <1>1, <1>3, ApplyFirstStatus
<1>4. phase # "done"
  BY <1>1 DEF TypeOK
<1>5. ASSUME outcome'.is = outcome.is PROVE Code' = Code
  BY <1>5 DEF Code
<1> QED BY <1>1, <1>2, <1>3, <1>4, <1>5 DEF Refusing, After

LEMMA RefusalStep ==
  EntriesAreTyped /\ TypeOK /\ RefusalInv /\ [InvocationNext]_allVars => RefusalInv'
<1> SUFFICES ASSUME EntriesAreTyped, TypeOK, RefusalInv, [InvocationNext]_allVars
             PROVE  RefusalInv'
  OBVIOUS
<1>1. VersionOK'
  BY VersionStep DEF RefusalInv
<1>2. CASE \E l \in Answered : Invoke(l)
  BY <1>2, RefusalInvoke
<1>3. ASSUME Looked PROVE FirstIsTold' /\ outcome'.is = outcome.is /\ Code' = Code /\ (Refused' <=> Refused)
  BY <1>3 DEF Looked, FirstIsTold, Code, Refused
<1>4. CASE Respond /\ Write
  <2>1. Looked
    BY <1>4 DEF Respond
  <2> QED BY <1>1, <1>3, <1>4, <2>1, RefusalWrite DEF RefusalInv
<1>5. response \in Response /\ (phase \in {"answering", "starting", "waiting", "ending", "done"})
  BY DEF TypeOK
<1>6. CASE Respond /\ Return
  <2>1. Looked
    BY <1>6 DEF Respond
  <2>2. Told(response)'
    BY <1>5, <1>6, CloseTold DEF Return, RefusalInv
  <2>3. ASSUME Refusing PROVE Refusing'
    BY <1>3, <1>6, <2>1, <2>3 DEF Return, Refusing
  <2> QED BY <1>1, <1>3, <2>1, <2>2, <2>3 DEF RefusalInv
<1>7. CASE Respond /\ (Continue \/ Report \/ End)
  <2>1. Looked /\ phase \in {"starting", "waiting"} /\ response' = response
    BY <1>7 DEF Respond, Continue, Report, End
  <2>2. ~Refused
    BY <2>1 DEF RefusalInv, Refusing
  <2> QED BY <1>1, <1>3, <2>1, <2>2 DEF RefusalInv
<1>8. CASE Destroy
  <2>1. Looked /\ phase = "ending" /\ response' = close(response)
    BY <1>8 DEF Destroy, Release
  <2>2. ~Refused
    BY <2>1 DEF RefusalInv, Refusing
  <2> QED BY <1>1, <1>3, <1>5, <2>1, <2>2, CloseTold DEF RefusalInv
<1>9. CASE PrintEvent
  <2>1. Looked /\ UNCHANGED vars
    BY <1>9 DEF PrintEvent
  <2>2. Refusing => Refusing'
    BY <1>3, <2>1 DEF vars, Refusing
  <2>3. Told(response)'
    BY <2>1 DEF vars, RefusalInv
  <2> QED BY <1>1, <1>3, <2>1, <2>2, <2>3 DEF RefusalInv
<1>10. CASE UNCHANGED allVars
  BY <1>10 DEF allVars, vars, invocationVars, RefusalInv, Refused, Refusing, Code, FirstIsTold, Entry, VersionOK
<1> QED BY <1>2, <1>4, <1>6, <1>7, <1>8, <1>9, <1>10 DEF InvocationNext, Respond

(* If the tables give a type for each argument then a refusal names the first argument that
   does not convert (CommandHandlerGenerator.h:132), and a command that is refused is
   over, or will be, with the code of its refusal (CommandSuiteImplementation.cpp:48). *)
THEOREM RefusedExactly == ASSUME EntriesAreTyped PROVE InvocationSpec => []RefusalsAreExact
<1>1. InvocationInit => RefusalInv
  BY NewResponseTold DEF InvocationInit, Init, NoOutcome, RefusalInv, Refused, VersionOK, FirstIsTold
<1>2. RefusalInv => RefusalsAreExact
  BY DEF RefusalInv, Refused, Refusing, Code, FirstIsTold, RefusalsAreExact
<1>3. TypeOK /\ RefusalInv /\ [InvocationNext]_allVars => RefusalInv'
  BY EntriesAreTyped, RefusalStep
<1> QED BY <1>1, <1>2, <1>3, InvocationTypeCorrect, PTL DEF InvocationSpec

-----------------------------------------------------------------------------
(* The events of gap                                                       *)

(* f is what Printed defines, up to m.                                     *)
PrintsTo(f, inserts, m) ==
  f = [n \in 0 .. m |-> IF n = 0 THEN NewStream ELSE Insert(f[n - 1], inserts[n].insert)]

LEMMA PrintExists ==
  ASSUME NEW inserts, NEW k \in Nat
  PROVE  \E f : PrintsTo(f, inserts, k)
<1> DEFINE bad == {m \in Nat : ~\E f : PrintsTo(f, inserts, m)}
<1>1. CASE bad = {}
  BY <1>1
<1>2. CASE bad # {}
  <2>1. PICK m \in bad : \A j \in bad : ~(j < m)
    <3> HIDE DEF bad
    <3>1. bad \subseteq Nat
      BY DEF bad
    <3> QED
      BY <1>2, <3>1, LeastIndex
  <2>2. CASE m = 0
    <3>1. PrintsTo([n \in 0 .. 0 |-> NewStream], inserts, 0)
      BY DEF PrintsTo
    <3> QED
      BY <2>2, <3>1
  <2>3. CASE m # 0
    <3>1. m \in Nat /\ m - 1 \in Nat /\ m - 1 < m
      BY <2>3
    <3>2. m - 1 \notin bad
      BY <2>1, <3>1
    <3>3. PICK f : PrintsTo(f, inserts, m - 1)
      BY <3>1, <3>2
    <3> DEFINE g == [n \in 0 .. m |-> IF n < m THEN f[n] ELSE Insert(f[m - 1], inserts[m].insert)]
    <3>4. ASSUME NEW n \in 0 .. m
          PROVE  g[n] = IF n = 0 THEN NewStream ELSE Insert(g[n - 1], inserts[n].insert)
      <4>1. n \in Nat /\ n <= m
        OBVIOUS
      <4>2. CASE n = 0
        <5>1. g[n] = f[0]
          BY <2>3, <4>2
        <5>2. f[0] = NewStream
          BY <3>1, <3>3 DEF PrintsTo
        <5> QED
          BY <4>2, <5>1, <5>2
      <4>3. CASE n # 0 /\ n < m
        <5>1. g[n] = f[n] /\ g[n - 1] = f[n - 1]
          BY <3>1, <4>1, <4>3
        <5>2. n \in 0 .. m - 1
          BY <3>1, <4>1, <4>3
        <5>3. f[n] = Insert(f[n - 1], inserts[n].insert)
          BY <3>3, <4>3, <5>2 DEF PrintsTo
        <5> QED
          BY <4>3, <5>1, <5>3
      <4>4. CASE n = m
        <5>1. g[n] = Insert(f[m - 1], inserts[m].insert) /\ g[m - 1] = f[m - 1]
          BY <3>1, <4>4
        <5> QED
          BY <2>3, <4>4, <5>1
      <4> QED
        BY <3>1, <4>1, <4>2, <4>3, <4>4
    <3>5. PrintsTo(g, inserts, m)
      BY <3>4 DEF PrintsTo
    <3> QED
      BY <3>5
  <2> QED
    BY <2>2, <2>3
<1> QED
  BY <1>1, <1>2

LEMMA PrintedIs ==
  ASSUME NEW inserts, Len(inserts) \in Nat
  PROVE  \E f : PrintsTo(f, inserts, Len(inserts)) /\ Printed(inserts) = f[Len(inserts)].text
<1> DEFINE os == CHOOSE f : PrintsTo(f, inserts, Len(inserts))
<1>1. PrintsTo(os, inserts, Len(inserts))
  BY PrintExists
<1>2. Printed(inserts) = os[Len(inserts)].text
  BY DEF Printed, PrintsTo
<1> QED
  BY <1>1, <1>2

(* Insertion by insertion, the stream has the form that the rules say.     *)
LEMMA PrintedForm ==
  ASSUME NEW inserts \in Seq({[insert |-> i] : i \in StreamOps}), KeepsRules(NewDocument, inserts),
         NEW f, PrintsTo(f, inserts, Len(inserts)), NEW n \in 0 .. Len(inserts)
  PROVE  /\ f[n] \in Stream
         /\ Forms(NewDocument, inserts)[n] \in DocumentForm
         /\ IsForm(f[n], Forms(NewDocument, inserts)[n])
<1> DEFINE forms == Forms(NewDocument, inserts)
           last == Len(inserts)
           Holds(k) == f[k] \in Stream /\ forms[k] \in DocumentForm /\ IsForm(f[k], forms[k])
           bad == {k \in 0 .. last : ~Holds(k)}
<1>1. last \in Nat
  BY LenProperties
<1>2. forms[0] = NewDocument /\ \A k \in 1 .. last : forms[k] = NextForm(forms[k - 1], inserts[k])
  BY <1>1, FormsStep
<1> HIDE DEF forms
<1>3. f[0] = NewStream /\ \A k \in 1 .. last : f[k] = Insert(f[k - 1], inserts[k].insert)
  BY <1>1 DEF PrintsTo
<1>4. Holds(0)
  BY <1>2, <1>3, NewStreamForm
<1>5. ASSUME NEW k \in 1 .. last, Holds(k - 1) PROVE Holds(k)
  <2>1. PICK i \in StreamOps : inserts[k] = [insert |-> i]
    <3>1. inserts[k] \in {[insert |-> i] : i \in StreamOps}
      BY ElementOfSeq
    <3> QED
      BY <3>1
  <2>2. Allowed(forms[k - 1], [insert |-> i])
    BY <2>1 DEF KeepsRules, forms
  <2>3. f[k] = Insert(f[k - 1], i)
    BY <1>3, <2>1
  <2>4. NextForm(forms[k - 1], [insert |-> i]) = InsertForm(forms[k - 1], i)
    <3>1. i # "result" /\ [insert |-> i] \notin StatusOps
      <4>1. ASSUME NEW op \in StatusOps PROVE op # [insert |-> i]
        <5>1. DOMAIN op = {"status", "message"} /\ DOMAIN [insert |-> i] = {"insert"}
          BY DEF StatusOps
        <5> QED
          BY <5>1
      <4> QED
        BY <4>1 DEF StreamOps
    <3> QED
      BY <3>1 DEF NextForm
  <2>5. forms[k] = InsertForm(forms[k - 1], i)
    BY <1>2, <2>1, <2>4
  <2> QED
    BY <1>5, <2>2, <2>3, <2>5, InsertSound, InsertType
<1> HIDE DEF Holds, last
<1>6. bad = {}
  <2>1. SUFFICES ASSUME bad # {} PROVE FALSE
    OBVIOUS
  <2>2. PICK k \in bad : \A j \in bad : ~(j < k)
    <3>1. bad \subseteq Nat
      BY <1>1
    <3> HIDE DEF bad
    <3> QED
      BY <2>1, <3>1, LeastIndex
  <2>3. k # 0
    BY <1>4
  <2>4. k \in 1 .. last /\ k - 1 \in 0 .. last /\ k - 1 < k
    BY <1>1, <2>3
  <2>5. Holds(k - 1)
    BY <2>2, <2>4
  <2> QED
    BY <1>5, <2>4, <2>5
<1>7. Holds(n)
  BY <1>6 DEF last
<1> QED
  BY <1>7 DEF Holds, forms

LEMMA EventsAreDocuments ==
  ASSUME EventsKeepRules, NEW text \in EventLines
  PROVE  Reader!Complete(text)
<1>1. PICK inserts \in EventHandler : text = Printed(inserts)
  BY DEF EventLines
<1> DEFINE form == FormAfter(NewDocument, inserts)
           n == Len(inserts)
<1>2. /\ inserts \in Seq({[insert |-> i] : i \in StreamOps})
      /\ KeepsRules(NewDocument, inserts)
      /\ form.open = <<>> /\ ~form.awaits
  BY DEF EventsKeepRules
<1>3. n \in Nat
  BY <1>2, LenProperties
<1>4. PICK f : PrintsTo(f, inserts, n) /\ text = f[n].text
  BY <1>1, <1>3, PrintedIs
<1>5. f[n] \in Stream /\ IsForm(f[n], form)
  <2>1. n \in 0 .. n
    BY <1>3
  <2> QED
    BY <1>2, <1>4, <2>1, PrintedForm DEF FormAfter
<1> HIDE DEF form, n
<1>6. text.ok /\ text.open = <<>> /\ text.last \notin {"comma", "start", "key", "open"}
  BY <1>2, <1>4, <1>5 DEF IsForm, Sound
<1>7. text.last \in {"start", "open", "comma", "key", "value"}
  BY <1>4, <1>5 DEF Stream, Reader!Text
<1> QED
  BY <1>6, <1>7 DEF Reader!Complete

PrintedEvents == eventLine = NoEvent \/ eventLine \in EventLines

(* If every callback keeps the rules of a document, each line of an event is one: it ends
   what it began, also where the connection failed (GapV2Commands.cpp:50). *)
THEOREM EventsWriteDocuments == ASSUME EventsKeepRules PROVE InvocationSpec => []EventLinesAreDocuments
<1>1. InvocationInit => PrintedEvents
  BY DEF InvocationInit, PrintedEvents
<1>2. PrintedEvents /\ [InvocationNext]_allVars => PrintedEvents'
  BY DEF InvocationNext, Invoke, Respond, Destroy, PrintEvent, allVars, invocationVars, PrintedEvents
<1>3. PrintedEvents => EventLinesAreDocuments
  BY EventsAreDocuments DEF PrintedEvents, EventLinesAreDocuments, Reader!Complete
<1> QED
  BY <1>1, <1>2, <1>3, PTL DEF InvocationSpec

-----------------------------------------------------------------------------
(* Numbers and what is kept of them                                        *)

LEMMA Divides ==
  ASSUME NEW n \in Int, NEW d \in Nat, d > 0
  PROVE  n = (d * (n \div d)) + (n % d) /\ (n \div d) \in Int
OBVIOUS

LEMMA Multiple ==
  ASSUME NEW q \in Int, NEW d \in Nat, d > 0
  PROVE  (d * q) % d = 0
OBVIOUS

(* The low bits of a number differ from it by a multiple.                  *)
LEMMA LowBits ==
  ASSUME NEW n \in Int, NEW d \in Nat, d > 0
  PROVE  n % d \in 0 .. d - 1 /\ ((n % d) - n) % d = 0
<1> DEFINE q == n \div d
<1>1. q \in Int /\ n = (d * q) + (n % d)
  BY Divides
<1>2. (n % d) - n = d * (0 - q)
  BY <1>1
<1>3. n % d \in 0 .. d - 1
  OBVIOUS
<1> QED
  BY <1>1, <1>2, <1>3, Multiple

LEMMA SumOfMultiples ==
  ASSUME NEW x \in Int, NEW y \in Int, NEW d \in Nat, d > 0, x % d = 0, y % d = 0
  PROVE  (x + y) % d = 0
<1> DEFINE q == x \div d
           r == y \div d
<1>1. q \in Int /\ r \in Int /\ x = d * q /\ y = d * r
  BY Divides
<1> HIDE DEF q, r
<1>2. x + y = d * (q + r)
  BY <1>1
<1> QED
  BY <1>1, <1>2, Multiple

LEMMA MultipleOfMultiple ==
  ASSUME NEW y \in Int, NEW s \in Nat, s > 0, NEW l \in Nat, l > 0, l % s = 0, y % l = 0
  PROVE  y % s = 0
<1> DEFINE q == y \div l
           r == l \div s
<1>1. q \in Int /\ r \in Int /\ y = l * q /\ l = s * r
  BY Divides
<1> HIDE DEF q, r
<1>2. y = s * (r * q) /\ r * q \in Int
  BY <1>1
<1> QED
  BY <1>1, <1>2, Multiple

(* A long is cast to a short or a byte: the same bits are kept.            *)
LEMMA LowBitsOfLowBits ==
  ASSUME NEW n \in Int, NEW s \in Nat, s > 0, NEW l \in Nat, l > 0, l % s = 0
  PROVE  (n % l) % s \in 0 .. s - 1 /\ (((n % l) % s) - n) % s = 0
<1> DEFINE m == n % l
           x == (m % s) - m
           y == m - n
<1>1. m \in Int /\ x \in Int /\ y \in Int /\ (m % s) - n = x + y
  OBVIOUS
<1>2. y % l = 0
  BY LowBits
<1> HIDE DEF m
<1>3. x % s = 0 /\ m % s \in 0 .. s - 1
  BY <1>1, LowBits
<1> HIDE DEF x, y
<1>4. y % s = 0
  BY <1>1, <1>2, MultipleOfMultiple
<1>5. (x + y) % s = 0
  BY <1>1, <1>3, <1>4, SumOfMultiples
<1> QED
  BY <1>1, <1>3, <1>5 DEF m

LEMMA TwiceAtLeast ==
  ASSUME NEW a \in Nat, NEW b \in Nat, 0 < a, a < b, b % a = 0
  PROVE  2 * a <= b
<1>1. PICK q \in Int : b = a * q
  BY Divides
<1>2. q >= 2
  BY <1>1
<1> QED
  BY <1>1, <1>2

LEMMA Widths ==
  /\ Byte \in Nat /\ Short \in Nat /\ Long \in Nat
  /\ 1 < Byte /\ 2 * Byte <= Short /\ 2 * Short <= Long
  /\ Long % Byte = 0 /\ Long % Short = 0
<1>1. 2 * Byte <= Short /\ 2 * Short <= Long
  BY WidthAssumption, TwiceAtLeast
<1>2. Long % Byte = 0
  BY WidthAssumption, MultipleOfMultiple
<1> QED
  BY <1>1, <1>2, WidthAssumption

(* The types of Arguments fit, however wide a byte, a short and a long are. *)
LEMMA TypesFit ==
  /\ \A type \in {int8_t, uint8_t, uint16_t, uint32_t} :
       Fits(type) /\ \A min, max \in Int : type.reads = "strtoul" => Fits(Duration(type, min, max))
  /\ Fits(MacAddress_t) /\ Fits(ConnectionParams_t)
  /\ Fits(RawData_t) /\ Fits(UUID) /\ Fits(SecurityManagerPasskey_t)
<1>1. ASSUME NEW how \in {"strtol", "strtoul"}, NEW min \in Int, NEW max \in Int,
             how = "strtol" => -(Long \div 2) < min /\ max < (Long \div 2) - 1
      PROVE  Fits(Integer(how, min, max))
  BY <1>1 DEF Fits, Integer
<1>2. ASSUME NEW how, NEW min, NEW max, NEW least, NEW most
      PROVE  /\ Duration(Integer(how, min, max), least, most) = Integer(how, least, most)
             /\ Integer(how, min, max).reads = how
  <2> DEFINE r == Integer(how, min, max)
             s == Duration(r, least, most)
  <2>1. DOMAIN r = {"class", "reads", "min", "max"} /\ r.class = "integer" /\ r.reads = how
    BY DEF Integer
  <2> HIDE DEF r
  <2>2. /\ DOMAIN s = {"class", "reads", "min", "max"}
        /\ s.class = "integer" /\ s.reads = how /\ s.min = least /\ s.max = most
    BY <2>1 DEF Duration
  <2>3. s = [x \in {"class", "reads", "min", "max"} |-> s[x]]
    BY <2>1 DEF Duration
  <2> HIDE DEF s
  <2>4. s = [class |-> "integer", reads |-> how, min |-> least, max |-> most]
    BY <2>2, <2>3
  <2> QED
    BY <2>1, <2>4 DEF r, s, Integer
<1>3. /\ 2 * (Long \div 2) >= Long - 1 /\ Long \div 2 \in Int /\ 4 * Byte <= Long /\ Byte \in Nat /\ 1 < Byte
      /\ Byte \div 2 \in Int /\ 2 * (Byte \div 2) <= Byte /\ Short \in Nat /\ Long \in Nat
  BY Widths
<1>4. -(Long \div 2) < -(Byte \div 2) /\ (Byte \div 2) - 1 < (Long \div 2) - 1
  BY <1>3
<1>5. -(Long \div 2) < 0 /\ Byte - 1 < (Long \div 2) - 1
  BY <1>3
<1>6. Fits(int8_t)
  BY <1>1, <1>3, <1>4 DEF int8_t
<1>7. Fits(uint8_t)
  BY <1>1, <1>3, <1>5 DEF uint8_t
<1>8. Fits(uint16_t) /\ Fits(uint32_t)
  BY <1>1, <1>3 DEF uint16_t, uint32_t
<1>9. ASSUME NEW type \in {int8_t, uint8_t, uint16_t, uint32_t}, NEW min \in Int, NEW max \in Int,
             type.reads = "strtoul"
      PROVE  Fits(Duration(type, min, max))
  <2>1. PICK how \in {"strtol", "strtoul"} : \E least, most : type = Integer(how, least, most)
    BY DEF int8_t, uint8_t, uint16_t, uint32_t
  <2>2. Duration(type, min, max) = Integer("strtoul", min, max)
    BY <1>2, <1>9, <2>1
  <2> QED
    BY <1>1, <2>2
<1>10. Fits(MacAddress_t) /\ Fits(ConnectionParams_t)
  BY DEF MacAddress_t, ConnectionParams_t, Numbers, Fits
<1>11. Fits(RawData_t) /\ Fits(UUID) /\ Fits(SecurityManagerPasskey_t)
  BY DEF RawData_t, UUID, SecurityManagerPasskey_t, Fits
<1> QED
  BY <1>6, <1>7, <1>8, <1>9, <1>10, <1>11

-----------------------------------------------------------------------------
(* What is converted is what was written                                   *)

LEMMA FirstFound ==
  ASSUME NEW text, IsText(text), NEW i \in 1 .. Len(text.found)
  PROVE  text.found[i] \in Int
BY ElementOfSeq DEF IsText

LEMMA IntegerConverted ==
  ASSUME NEW type, NEW text, IsText(text), NEW v \in integerFromString(type, text),
         type.class = "integer", Fits(type)
  PROVE  text.found # <<>> /\ IsNumber(v, text.found[1], type)
<1> DEFINE n == text.found[1]
<1>1. text.found # <<>> /\ v = reads(type, n) /\ type.min <= v /\ v <= type.max
  BY DEF integerFromString, inRange
<1>2. n \in Int
  <2>1. text.found \in Seq(Int)
    BY DEF IsText
  <2>2. Len(text.found) \in Nat /\ Len(text.found) # 0
    BY <1>1, <2>1, LenProperties
  <2> QED
    BY <2>2, FirstFound
<1>3. /\ type.reads \in {"strtol", "strtoul"} /\ type.min \in Int /\ type.max \in Int
      /\ type.reads = "strtol" => -(Long \div 2) < type.min /\ type.max < (Long \div 2) - 1
  BY DEF Fits
<1>4. Long \in Nat /\ Long > 0 /\ Long \div 2 \in Int
  BY Widths
<1> HIDE DEF n
<1>5. CASE type.reads = "strtol"
  <2>1. v = strtol(n)
    BY <1>1, <1>5 DEF reads
  <2>2. v = n
    BY <1>1, <1>2, <1>3, <1>4, <1>5, <2>1 DEF strtol
  <2> QED
    BY <1>1, <2>2 DEF IsNumber, n
<1>6. CASE type.reads = "strtoul"
  <2>1. v = strtoul(n)
    BY <1>1, <1>6 DEF reads
  <2>2. IsLong(n) => (v - n) % Long = 0
    BY <1>2, <1>4, <2>1, LowBits DEF strtoul, IsLong
  <2> QED
    BY <1>1, <1>6, <2>2 DEF IsNumber, Keeps, n
<1> QED
  BY <1>3, <1>5, <1>6

LEMMA LowBitsKept ==
  ASSUME NEW n \in Int, NEW size \in {Byte, Short}
  PROVE  /\ strtoul(n) % size \in 0 .. size - 1 /\ Keeps(strtoul(n) % size, n, size)
         /\ n % size \in 0 .. size - 1 /\ Keeps(n % size, n, size)
<1>1. size \in Nat /\ size > 0 /\ Long \in Nat /\ Long > 0 /\ Long % size = 0
  BY Widths
<1>2. n % size \in 0 .. size - 1 /\ ((n % size) - n) % size = 0
  BY <1>1, LowBits
<1>3. (n % Long) % size \in 0 .. size - 1 /\ (((n % Long) % size) - n) % size = 0
  BY <1>1, LowBitsOfLowBits
<1>4. CASE IsLong(n)
  <2>1. strtoul(n) = n % Long
    BY <1>4 DEF strtoul, IsLong
  <2> QED
    BY <1>2, <1>3, <2>1 DEF Keeps
<1>5. CASE ~IsLong(n)
  <2>1. strtoul(n) = Long - 1
    BY <1>5 DEF strtoul, IsLong
  <2>2. strtoul(n) % size \in 0 .. size - 1
    BY <1>1, <2>1, LowBits
  <2> QED
    BY <1>2, <1>5, <2>2 DEF Keeps
<1> QED
  BY <1>4, <1>5

(* A row of numbers of which each is what is kept of the number that was found. *)
LEMMA RowConverted ==
  ASSUME NEW text, IsText(text), NEW size \in {Byte, Short}, NEW count \in Nat,
         count <= Len(text.found), NEW values, DOMAIN values = 1 .. count, Len(values) = count,
         \/ \A i \in 1 .. count : values[i] = strtoul(text.found[i]) % size
         \/ \A i \in 1 .. count : values[i] = text.found[i] % size
  PROVE  AreNumbers(values, text.found, count, size)
<1>1. Len(text.found) \in Nat
  BY LenProperties DEF IsText
<1>2. ASSUME NEW i \in 1 .. count
      PROVE  values[i] \in 0 .. size - 1 /\ Keeps(values[i], text.found[i], size)
  <2>1. text.found[i] \in Int
    BY <1>1, FirstFound
  <2> QED
    BY <2>1, LowBitsKept
<1> QED
  BY <1>2 DEF AreNumbers

LEMMA Converted ==
  ASSUME NEW type, Fits(type), NEW text, IsText(text), NEW v \in fromString(type, text)
  PROVE  Denotes(text, v, type)
<1>1. CASE type.class = "integer"
  BY <1>1, IntegerConverted DEF fromString, Denotes
<1>2. CASE type.class = "named"
  <2>1. v \in valueOf(type.rows, text.word)
    BY <1>2 DEF fromString
  <2>2. PICK i \in DOMAIN type.rows : type.rows[i].name = text.word /\ type.rows[i].value = v
    BY <2>1 DEF valueOf, First
  <2>3. type.rows[i] = Row(type.rows[i].value, type.rows[i].name)
    BY <1>2 DEF Fits
  <2> QED
    BY <1>2, <2>2, <2>3 DEF Denotes
<1>3. CASE type.class = "numbers"
  <2>1. type.count \in Nat /\ type.size \in {Byte, Short}
    BY <1>3 DEF Fits
  <2>2. v \in numbersFromString(type, text)
    BY <1>3 DEF fromString
  <2>3. /\ ~(Len(text.found) < type.count)
        /\ v = [i \in 1 .. type.count |-> strtoul(text.found[i]) % type.size]
    BY <2>2 DEF numbersFromString
  <2>4. DOMAIN v = 1 .. type.count /\ Len(v) = type.count
    BY <2>1, <2>3
  <2>5. Len(text.found) \in Nat
    BY LenProperties DEF IsText
  <2>6. AreNumbers(v, text.found, type.count, type.size)
    <3>1. \A i \in 1 .. type.count : v[i] = strtoul(text.found[i]) % type.size
      BY <2>3
    <3>2. type.count <= Len(text.found)
      BY <2>1, <2>3, <2>5
    <3> QED
      BY <2>1, <2>4, <3>1, <3>2, RowConverted, Zenon
  <2> QED
    BY <1>3, <2>6 DEF Denotes
<1>4. CASE type.class = "raw data"
  <2>1. v \in hexStringToRawData(text)
    BY <1>4 DEF fromString
  <2>2. text.found # <<>> /\ v = [i \in DOMAIN text.found |-> text.found[i] % Byte]
    BY <2>1 DEF hexStringToRawData
  <2>3. Len(text.found) \in Nat /\ DOMAIN text.found = 1 .. Len(text.found)
    BY LenProperties DEF IsText
  <2>4. DOMAIN v = 1 .. Len(text.found) /\ Len(v) = Len(text.found)
    BY <2>2, <2>3
  <2>5. \A i \in 1 .. Len(text.found) : v[i] = text.found[i] % Byte
    BY <2>2, <2>3
  <2>6. Len(text.found) <= Len(text.found) /\ Byte \in {Byte, Short}
    BY <2>3
  <2>7. AreNumbers(v, text.found, Len(text.found), Byte)
    BY <2>3, <2>4, <2>5, <2>6, RowConverted, Zenon
  <2> QED
    BY <1>4, <2>2, <2>7 DEF Denotes
<1>5. CASE type.class = "uuid"
  <2>1. v \in uuidFromString(text)
    BY <1>5 DEF fromString
  <2>2. CASE text.word = "36 characters"
    <3>1. v \in longUUIDfromString(text)
      BY <2>1, <2>2 DEF uuidFromString
    <3>2. ~(Len(text.found) < 16) /\ v = [i \in 1 .. 16 |-> text.found[i] % Byte]
      BY <3>1 DEF longUUIDfromString
    <3>3. DOMAIN v = 1 .. 16 /\ Len(v) = 16
      BY <3>2
    <3>4. Len(text.found) \in Nat
      BY LenProperties DEF IsText
    <3>5. 16 \in Nat /\ 16 <= Len(text.found) /\ \A i \in 1 .. 16 : v[i] = text.found[i] % Byte
      BY <3>2, <3>4
    <3>6. AreNumbers(v, text.found, 16, Byte)
      BY <3>3, <3>5, RowConverted, Zenon
    <3> QED
      BY <1>5, <2>2, <3>6 DEF Denotes
  <2>3. CASE text.word # "36 characters"
    <3>1. v \in integerFromString(uint16_t, text)
      BY <2>1, <2>3 DEF uuidFromString
    <3>2. Fits(uint16_t) /\ uint16_t.class = "integer"
      BY TypesFit DEF uint16_t, Integer
    <3>3. text.found # <<>> /\ IsNumber(v, text.found[1], uint16_t)
      BY <3>1, <3>2, IntegerConverted
    <3> QED
      BY <1>5, <2>3, <3>3 DEF Denotes
  <2> QED
    BY <2>2, <2>3
<1>6. CASE type.class = "passkey"
  <2>1. v \in passkeyFromString(text)
    BY <1>6 DEF fromString
  <2>2. v = text.found /\ text.word = "6 characters" /\ ~(Len(text.found) < 6)
    BY <2>1 DEF passkeyFromString
  <2>3. Len(text.found) \in Nat /\ Len(text.found) <= 6
    BY <2>2, LenProperties DEF IsText
  <2> QED
    <3>1. Len(v) = 6
      <4>1. ASSUME NEW n \in Nat, n <= 6, ~(n < 6) PROVE n = 6
        BY <4>1
      <4>2. Len(text.found) = 6
        BY <2>2, <2>3, <4>1
      <4> QED
        BY <2>2, <4>2, Zenon
    <3>2. Denotes(text, v, type) <=> v = text.found /\ Len(v) = 6
      BY <1>6 DEF Denotes
    <3> QED
      BY <2>2, <3>1, <3>2
<1> QED
  BY <1>1, <1>2, <1>3, <1>4, <1>5, <1>6 DEF Fits

(* The values the handler is called with, for a line of Answered.          *)
LEMMA CalledWith ==
  ASSUME EntriesAreTyped, EntriesFit, NEW v \in {1, 2}, NEW l \in Answered, Outcome(l, v).is = "called"
  PROVE  LET entry == commands[v][l.suite][l.name] IN
         /\ l.suite \in DOMAIN commands[v] /\ l.name \in DOMAIN commands[v][l.suite]
         /\ entry.least <= Len(l.words) /\ Len(l.words) <= entry.most
         /\ \A i \in DOMAIN entry.types :
              Denotes(l.words[i], Outcome(l, v).values[i], entry.types[i])
<1> DEFINE entry == commands[v][l.suite][l.name]
           types == entry.types
           converted == [i \in DOMAIN types |-> fromString(types[i], l.words[i])]
           values == [i \in DOMAIN types |-> CHOOSE c \in converted[i] : TRUE]
           fails == \E i \in DOMAIN types : Fails(converted, i)
<1>1. l.suite \in DOMAIN commands[v]
  BY LinesAssumption DEF Answered
<1>2. /\ l.name \in DOMAIN commands[v][l.suite]
      /\ ~(Len(l.words) < entry.least) /\ ~(Len(l.words) > entry.most)
      /\ Outcome(l, v) = generated_handler(types, l.words)
  BY DEF Outcome
<1>3. /\ entry.least \in Nat /\ entry.most \in Nat /\ Len(types) <= entry.least
      /\ \A i \in 1 .. Len(types) : Fits(types[i])
  BY <1>1, <1>2, Zenon DEF EntriesFit
<1>4. Len(types) \in Nat /\ DOMAIN types = 1 .. Len(types)
  BY <1>1, <1>2, Zenon DEF EntriesAreTyped
<1>5. Len(l.words) \in Nat /\ \A i \in 1 .. Len(l.words) : IsText(l.words[i])
  BY LinesAssumption DEF Answered
<1>6. ~fails /\ Outcome(l, v).values = values
  <2>1. generated_handler(types, l.words) =
          IF fails THEN BadArgument(FirstFailure(converted)) ELSE Called(values)
    BY DEF generated_handler
  <2>2. BadArgument(FirstFailure(converted)).is = "bad argument" /\ Called(values).values = values
    BY DEF BadArgument, Called
  <2> HIDE DEF fails, values, converted, types
  <2> QED
    BY <1>2, <2>1, <2>2
<1>7. ASSUME NEW i \in DOMAIN types
      PROVE  Denotes(l.words[i], values[i], types[i])
  <2>1. converted[i] = fromString(types[i], l.words[i]) /\ values[i] = CHOOSE c \in converted[i] : TRUE
    OBVIOUS
  <2>2. converted[i] # {}
    BY <1>6, <1>7 DEF Fails
  <2> HIDE DEF values, converted, types, entry
  <2>3. values[i] \in fromString(types[i], l.words[i])
    BY <2>1, <2>2
  <2>4. i \in 1 .. Len(types) /\ i \in 1 .. Len(l.words)
    BY <1>2, <1>3, <1>4, <1>5, <1>7
  <2>5. Fits(types[i]) /\ IsText(l.words[i])
    BY <1>3, <1>5, <2>4
  <2> QED
    BY <2>3, <2>5, Converted
<1>8. entry.least <= Len(l.words) /\ Len(l.words) <= entry.most
  <2> HIDE DEF entry
  <2> QED
    BY <1>2, <1>3, <1>5
<1> HIDE DEF values
<1> QED
  BY <1>1, <1>2, <1>6, <1>7, <1>8

(* useVersion changes the version, but not its own entry.                  *)
LEMMA EntryStays ==
  ASSUME EntriesFit, VersionOK, NEW l \in Answered, Invoke(l), Outcome(l, version).is = "called"
  PROVE  Entry' = commands[version][l.suite][l.name]
<1> DEFINE form == Form(l, version)
<1>1. line' = l /\ CallHandler(form, Outcome(l, version).values)
  BY DEF Invoke
<1>2. CASE form # "useVersion"
  BY <1>1, <1>2 DEF CallHandler, Entry
<1>3. CASE form = "useVersion"
  <2>1. l.suite \in DOMAIN commands[version] /\ l.name \in DOMAIN commands[version][l.suite]
    <3>1. l.suite \in DOMAIN commands[version]
      BY LinesAssumption DEF Answered, VersionOK
    <3>2. l.name \in DOMAIN commands[version][l.suite]
      BY DEF Outcome
    <3> QED
      BY <3>1, <3>2
  <2>2. commands[version][l.suite][l.name].form = "useVersion"
    BY <1>3, <2>1 DEF Form
  <2>3. version' \in {1, 2}
    BY VersionStep DEF InvocationNext, VersionOK
  <2>4. commands[version'][l.suite][l.name] = commands[version][l.suite][l.name]
    BY <2>1, <2>2, <2>3, Zenon DEF EntriesFit, VersionOK
  <2> QED
    BY <1>1, <2>4 DEF Entry
<1> QED
  BY <1>2, <1>3

(* Whatever the widths and the texts: if the tables give a type that the conversions know
   for each argument then the handler is called with as many values as it takes, each
   denoted by its text and within the limits of its type (Serializer.cpp:36). *)
THEOREM HandlerGetsIt ==
  ASSUME EntriesAreTyped, EntriesFit PROVE InvocationSpec => []HandlerGetsWhatWasWritten
<1>1. InvocationInit => HandlerGetsWhatWasWritten
  BY DEF InvocationInit, HandlerGetsWhatWasWritten
<1>2. VersionOK /\ HandlerGetsWhatWasWritten /\ [InvocationNext]_allVars => HandlerGetsWhatWasWritten'
  <2> SUFFICES ASSUME VersionOK, HandlerGetsWhatWasWritten, [InvocationNext]_allVars
               PROVE  HandlerGetsWhatWasWritten'
    OBVIOUS
  <2>1. ASSUME NEW l \in Answered, Invoke(l)
        PROVE  HandlerGetsWhatWasWritten'
    <3>1. line' = l /\ outcome' = Outcome(l, version)
      BY <2>1 DEF Invoke
    <3>2. CASE Outcome(l, version).is # "called"
      BY <3>1, <3>2 DEF HandlerGetsWhatWasWritten
    <3>3. CASE Outcome(l, version).is = "called"
      <4> DEFINE entry == commands[version][l.suite][l.name]
      <4>1. Entry' = entry
        BY <2>1, <3>3, EntryStays
      <4>2. /\ entry.least <= Len(l.words) /\ Len(l.words) <= entry.most
            /\ \A i \in DOMAIN entry.types :
                 Denotes(l.words[i], Outcome(l, version).values[i], entry.types[i])
        BY <3>3, CalledWith, EntriesAreTyped, EntriesFit DEF VersionOK
      <4> HIDE DEF entry
      <4> QED
        BY <3>1, <4>1, <4>2 DEF HandlerGetsWhatWasWritten
    <3> QED
      BY <3>2, <3>3
  <2>2. CASE Respond \/ Destroy \/ PrintEvent
    <3>1. line' = NoLine
      BY <2>2 DEF Respond, Destroy, PrintEvent, Looked
    <3> QED
      BY <3>1 DEF HandlerGetsWhatWasWritten
  <2>3. CASE UNCHANGED allVars
    BY <2>3 DEF allVars, invocationVars, HandlerGetsWhatWasWritten, Entry
  <2> QED
    BY <2>1, <2>2, <2>3 DEF InvocationNext
<1> QED
  BY <1>1, <1>2, VersionCorrect, PTL DEF InvocationSpec
=============================================================================
