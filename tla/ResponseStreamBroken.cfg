\* The commands that write to the result before it is properly formed.
CONSTANTS
  Command <- OtherNames
  Writes <- OtherResponses
  None = none
  MaxReports = 2
SPECIFICATION Spec
INVARIANT WellFormed
