------------------------------ MODULE JsonReader ------------------------------
(***************************************************************************)
(* The host that reads a response: what makes a sequence of tokens a JSON  *)
(* document.  The text read so far is kept as                              *)
(*   open     the containers that are open, the innermost last             *)
(*   last     what was read last                                           *)
(*   ok       whether a document may begin like this                       *)
(*   members  the keys of the response itself, in the order they were read  *)
(*   told     the status codes that were read                              *)
(***************************************************************************)
EXTENDS Integers, Sequences

CONSTANTS
  Key,          \* the keys of the response itself
  StatusCode    \* the values of its status

Text ==
  [open : Seq({"object", "array"}), last : {"start", "open", "comma", "key", "value"},
   ok : BOOLEAN, members : Seq(Key), told : Seq(StatusCode)]

EmptyText == [open |-> <<>>, last |-> "start", ok |-> TRUE, members |-> <<>>, told |-> <<>>]

Innermost(text) == IF text.open = <<>> THEN "document" ELSE text.open[Len(text.open)]

(* "member" is a key, "value" a scalar, of the result's own members.       *)
Keys == Key \cup {"member"}
Scalars == StatusCode \cup {"value"}

Kind(token) == IF token \in Keys THEN "key" ELSE IF token \in Scalars THEN "value" ELSE token

ExpectsValue(text) ==
  \/ Innermost(text) = "document" /\ text.last = "start"
  \/ Innermost(text) = "object" /\ text.last = "key"
  \/ Innermost(text) = "array" /\ text.last \in {"open", "comma"}

Follows(text, kind) ==
  \/ kind \in {"{", "[", "value"} /\ ExpectsValue(text)
  \/ kind = "key" /\ Innermost(text) = "object" /\ text.last \in {"open", "comma"}
  \/ kind = "," /\ Innermost(text) # "document" /\ text.last = "value"
  \/ kind = "}" /\ Innermost(text) = "object" /\ text.last \in {"open", "value"}
  \/ kind = "]" /\ Innermost(text) = "array" /\ text.last \in {"open", "value"}

Container == [bracket \in {"{", "["} |-> IF bracket = "{" THEN "object" ELSE "array"]

Opened(text, kind) ==
  IF kind \in {"{", "["} THEN Append(text.open, Container[kind])
  ELSE IF kind \in {"}", "]"} /\ text.open # <<>> THEN SubSeq(text.open, 1, Len(text.open) - 1)
  ELSE text.open

Last(kind) ==
  IF kind \in {"{", "["} THEN "open"
  ELSE IF kind = "," THEN "comma"
  ELSE IF kind = "key" THEN "key"
  ELSE "value"

(* Nothing more is made of a text once it is no document.                  *)
Read(text, token) ==
  [open |-> IF text.ok THEN Opened(text, Kind(token)) ELSE text.open,
   last |-> IF text.ok THEN Last(Kind(token)) ELSE text.last,
   ok |-> text.ok /\ Follows(text, Kind(token)),
   members |-> IF token \in Key THEN Append(text.members, token) ELSE text.members,
   told |-> IF token \in StatusCode THEN Append(text.told, token) ELSE text.told]

Complete(text) == text.ok /\ text.open = <<>> /\ text.last = "value"
=============================================================================
