\* Every procedure of the program; room for the timeout and three events, so that
\* it can be third in the queue and the queue can be full.
CONSTANTS
  Procedure <- AllNames
  Traits <- AllProcedures
  None = none
  QueueCapacity = 4
SPECIFICATION Spec
INVARIANTS
  TypeOK
  OneCommandAtATime
  TimeoutIsOwned
PROPERTY KeepsPromise
