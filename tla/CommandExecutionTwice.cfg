CONSTANTS
  Procedure <- EagerNames
  Traits <- EagerProcedures
  None = none
  QueueCapacity = 3
SPECIFICATION Spec
INVARIANT DeletedOnce
