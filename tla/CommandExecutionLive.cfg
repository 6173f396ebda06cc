\* The procedures that keep the contract of AsyncProcedure.
CONSTANTS
  Procedure <- SoundNames
  Traits <- SoundProcedures
  None = none
  QueueCapacity = 4
SPECIFICATION FairSpec
INVARIANT NothingUndefined
PROPERTY CommandEnds
