------------------------------- MODULE Arguments -------------------------------
(***************************************************************************)
(* fromString(): the conversion of the text of an argument to a value of   *)
(* the type that the handler declares.  A text is                          *)
(*   word   the text, where it is a name, or what is to be told of its     *)
(*          shape: "odd" and "broken" hexadecimal data, one of             *)
(*          "36 characters" or of "6 characters"; "number" otherwise       *)
(*   found  the numbers that the conversion finds in it, up to where it    *)
(*          stops: none, if the text does not begin with one               *)
(***************************************************************************)
EXTENDS Integers, Sequences, Names

CONSTANTS
  Byte,   \* the values of a uint8_t
  Short,  \* of a uint16_t
  Long    \* of a long

ASSUME WidthAssumption ==
  /\ Byte \in Nat /\ Short \in Nat /\ Long \in Nat
  /\ 1 < Byte /\ Byte < Short /\ Short < Long
  /\ Byte % 2 = 0 /\ Short % Byte = 0 /\ Long % Short = 0

-----------------------------------------------------------------------------
(* The types                                                               *)

Integer(reads, min, max) == [class |-> "integer", reads |-> reads, min |-> min, max |-> max]
int8_t == Integer("strtol", -(Byte \div 2), Byte \div 2 - 1)
uint8_t == Integer("strtol", 0, Byte - 1)
uint16_t == Integer("strtoul", 0, Short - 1)
uint32_t == Integer("strtoul", 0, Long - 1)

(* A ble::Duration is an integer with narrower limits than its layout: MIN and MAX of
   the types of the BLE stack.                                             *)
Duration(layout, least, most) == [layout EXCEPT !.min = least, !.max = most]
adv_duration_t == Duration(uint16_t, 0, 65535)
adv_interval_t == Duration(uint32_t, 32, 16777215)
periodic_interval_t == Duration(uint16_t, 6, 65535)
scan_duration_t == Duration(uint16_t, 0, 65535)
scan_period_t == Duration(uint16_t, 0, 65535)
scan_interval_t == Duration(uint16_t, 4, 65535)
scan_window_t == Duration(uint16_t, 4, 65535)
sync_timeout_t == Duration(uint16_t, 10, 16384)
conn_interval_t == Duration(uint16_t, 6, 3200)
supervision_timeout_t == Duration(uint16_t, 10, 3200)

Named(rows) == [class |-> "named", rows |-> rows]

(* Numbers between separators, of which the low bits are kept.  In the order they
   are written: a MAC address is kept from its last byte on.               *)
Numbers(count, size) == [class |-> "numbers", count |-> count, size |-> size]
MacAddress_t == Numbers(6, Byte)
ConnectionParams_t == Numbers(4, Short)

RawData_t == [class |-> "raw data"]
UUID == [class |-> "uuid"]
SecurityManagerPasskey_t == [class |-> "passkey"]

-----------------------------------------------------------------------------
(* The C library                                                           *)

strtol(n) ==
  IF n < -(Long \div 2) THEN -(Long \div 2)
  ELSE IF n >= Long \div 2 THEN Long \div 2 - 1 ELSE n

(* Negative numbers are negated as unsigned ones.                          *)
strtoul(n) == IF n \in -(Long - 1) .. Long - 1 THEN n % Long ELSE Long - 1

-----------------------------------------------------------------------------
(* The conversions: the value, or nothing.                                 *)

inRange_Unchecked(n, min, max) == TRUE  \* mutant: the limits are not checked
inRange(n, min, max) == min <= n /\ n <= max

reads(type, n) == IF type.reads = "strtol" THEN strtol(n) ELSE strtoul(n)

integerFromString(type, text) ==
  IF text.found = <<>> THEN {}
  ELSE {n \in {reads(type, text.found[1])} : inRange(n, type.min, type.max)}

numbersFromString(type, text) ==
  IF Len(text.found) < type.count THEN {}
  ELSE {[i \in 1 .. type.count |-> strtoul(text.found[i]) % type.size]}

hexStringToRawData(text) ==
  IF text.word \in {"odd", "broken"} \/ text.found = <<>> THEN {}
  ELSE {[i \in DOMAIN text.found |-> text.found[i] % Byte]}

longUUIDfromString(text) ==
  IF Len(text.found) < 16 THEN {} ELSE {[i \in 1 .. 16 |-> text.found[i] % Byte]}

uuidFromString(text) ==
  IF text.word = "36 characters" THEN longUUIDfromString(text)
  ELSE integerFromString(uint16_t, text)

passkeyFromString(text) ==
  IF text.word # "6 characters" \/ Len(text.found) < 6 THEN {} ELSE {text.found}

fromString(type, text) ==
  CASE type.class = "integer" -> integerFromString(type, text)
    [] type.class = "named" -> valueOf(type.rows, text.word)
    [] type.class = "numbers" -> numbersFromString(type, text)
    [] type.class = "raw data" -> hexStringToRawData(text)
    [] type.class = "uuid" -> uuidFromString(text)
    [] type.class = "passkey" -> passkeyFromString(text)

-----------------------------------------------------------------------------
(* What the text denotes, without the detours of the conversions: a number, a name,
   a row of numbers.  What is read by strtoul() may be taken modulo Long, or for the
   largest if it is beyond that, and what is cast keeps its low bits.      *)

IsLong(n) == n \in -(Long - 1) .. Long - 1
Keeps(value, n, size) == IsLong(n) => (value - n) % size = 0

IsNumber(value, n, type) ==
  /\ type.min <= value /\ value <= type.max
  /\ \/ value = n
     \/ type.reads = "strtoul" /\ Keeps(value, n, Long)

AreNumbers(values, numbers, count, size) ==
  /\ Len(values) = count /\ Len(numbers) >= count
  /\ \A i \in 1 .. count : values[i] \in 0 .. size - 1 /\ Keeps(values[i], numbers[i], size)

Denotes(text, value, type) ==
  CASE type.class = "integer" -> text.found # <<>> /\ IsNumber(value, text.found[1], type)
    [] type.class = "named" -> \E i \in DOMAIN type.rows : type.rows[i] = Row(value, text.word)
    [] type.class = "numbers" -> AreNumbers(value, text.found, type.count, type.size)
    [] type.class = "raw data" ->
         text.found # <<>> /\ AreNumbers(value, text.found, Len(text.found), Byte)
    [] type.class = "uuid" ->
         IF text.word = "36 characters" THEN AreNumbers(value, text.found, 16, Byte)
         ELSE text.found # <<>> /\ IsNumber(value, text.found[1], uint16_t)
    [] type.class = "passkey" -> value = text.found /\ Len(value) = 6

-----------------------------------------------------------------------------
(* What the conversions take of a type: a number that strtol() cuts off is beyond its
   limits, and a row gives a name to a value.                              *)
Fits(type) ==
  CASE type.class = "integer" ->
         /\ type.reads \in {"strtol", "strtoul"} /\ type.min \in Int /\ type.max \in Int
         /\ type.reads = "strtol" => -(Long \div 2) < type.min /\ type.max < (Long \div 2) - 1
    [] type.class = "named" ->
         \A i \in DOMAIN type.rows : type.rows[i] = Row(type.rows[i].value, type.rows[i].name)
    [] type.class = "numbers" -> type.count \in Nat /\ type.size \in {Byte, Short}
    [] OTHER -> type.class \in {"raw data", "uuid", "passkey"}

(* And of a text: six characters are six digits at most.                   *)
IsText(text) ==
  text.found \in Seq(Int) /\ (text.word = "6 characters" => Len(text.found) <= 6)
=============================================================================
