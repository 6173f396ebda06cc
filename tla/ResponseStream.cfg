\* Lines of the commands that write one document, with up to three callbacks that
\* report; bytes and shorts are as wide as they are, long is scaled.
CONSTANTS
  Command <- ProperNames
  Writes <- ProperResponses
  None = none
  MaxReports = 3
  Byte = 256
  Short = 65536
  Long = 67108864
  Lines <- ProperLines
  NoLine = noLine
SPECIFICATION InvocationSpec
INVARIANTS
  TypeOK
  WellFormed
  StatusToldOnce
  BodyMatchesStatus
  CommaIsDue
  HandlerGetsWhatWasWritten
  RefusalsAreExact
  HandlerIsAlive
  EventLinesAreDocuments
