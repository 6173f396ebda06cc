------------------------------ MODULE MCInvocation ------------------------------
(* Instances of Invocation: the lines of the commands that write one document. *)
EXTENDS Invocation

ProperNames == DOMAIN ProperResponses

Text(word, found) == [word |-> word, found |-> found]
Numeral(n) == Text("number", <<n>>)
Name == Text("a name", <<>>)
Repeated(n, count) == [i \in 1 .. count |-> n]

(* Of each type, a text that denotes a value, and others at its limits.    *)
Good(type) ==
  CASE type.class = "integer" -> Numeral(type.max)
    [] type.class = "named" -> Text(type.rows[1].name, <<>>)
    [] type.class = "numbers" -> Text("numbers", Repeated(type.size - 1, type.count))
    [] type.class = "raw data" -> Text("pairs", <<0, Byte - 1>>)
    [] type.class = "uuid" -> Numeral(Short - 1)
    [] type.class = "passkey" -> Text("6 characters", <<0, 0, 0, 0, 0, 9>>)

Numerals(type) ==
  {Numeral(n) : n \in {type.min, type.max + 1, type.min - 1, -1, 1 - Long, -Long, Long,
                       Long + 1}}

Others(type) ==
  CASE type.class = "integer" -> Numerals(type)
    [] type.class = "named" -> {Text(type.rows[i].name, <<>>) : i \in DOMAIN type.rows}
    [] type.class = "numbers" ->
         {Text("numbers", Repeated(n, type.count)) : n \in {0, type.size, -1, Long}} \cup
         {Text("numbers", Repeated(1, type.count - 1)), Text("numbers", Repeated(1, type.count + 1))}
    [] type.class = "raw data" ->
         {Text("pairs", <<-15>>), Text("odd", <<1>>), Text("broken", <<1, 2>>), Text("pairs", <<>>)}
    [] type.class = "uuid" ->
         Numerals(uint16_t) \cup
         {Text("36 characters", Repeated(n, 16)) : n \in {-15, Byte - 1}} \cup
         {Text("36 characters", Repeated(1, n)) : n \in {1, 15}}
    [] type.class = "passkey" ->
         {Text("6 characters", <<1, 2, 3>>), Text("number", <<1, 2, 3, 4, 5, 6>>)}

Words(types) == [i \in DOMAIN types |-> Good(types[i])]

(* The arguments with what is not the name of anything, one or two that follow each
   other; with another text for the first argument of each type; one word less and
   one more than there may be.                                             *)
WordsOf(entry) ==
  LET types == entry.types
      raw == [i \in 1 .. entry.most |-> Name]
      words == IF types = <<>> THEN raw ELSE Words(types)
      firsts == {i \in DOMAIN types : \A j \in 1 .. i - 1 : types[j] # types[i]} IN
  {words, SubSeq(words, 1, entry.least), SubSeq(words, 1, entry.least - 1), Append(words, Name)} \cup
  {[words EXCEPT ![i] = Name] : i \in DOMAIN types} \cup
  {[words EXCEPT ![i] = Name, ![i + 1] = Name] : i \in 1 .. Len(types) - 1} \cup
  UNION {{[words EXCEPT ![i] = text] : text \in Others(types[i])} : i \in firsts}

ProperLines ==
  UNION {UNION {UNION {
    {[suite |-> suite, name |-> name, words |-> words] :
       words \in WordsOf(commands[v][suite][name])} :
    name \in {n \in DOMAIN commands[v][suite] : commands[v][suite][n].form \in ProperNames}} :
    suite \in DOMAIN commands[v]} : v \in {1, 2}} \cup
  {[suite |-> "gap", name |-> "getCentralPrivacyConfiguration", words |-> <<>>]} \cup
  {[suite |-> "gap", name |-> "useVersion", words |-> <<Numeral(n)>>] : n \in 0 .. 3}

ASSUME EveryCommandTellsAssumption == EveryCommandTells
ASSUME EveryValueIsCommittedAssumption == EveryValueIsCommitted
ASSUME EveryRuleIsKeptAssumption == EveryRuleIsKept
ASSUME EventsKeepRulesAssumption == EventsKeepRules
ASSUME EntriesAreTypedAssumption == EntriesAreTyped
ASSUME EntriesFitAssumption == EntriesFit
ASSUME RoundTripAssumption == RoundTrip
=============================================================================
