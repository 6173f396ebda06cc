\* Three events at once, so one has a neighbour on each side; two clock instants
\* in a millisecond, so that times are rounded; an interrupt as late as a
\* millisecond.  Without the symmetry that liveness rules out.
CONSTANTS
  Handle = {h1, h2, h3}
  Delay = {0, 1, 2}
  Resolution = 2
  Latency = 2
SPECIFICATION FairSpec
INVARIANTS
  TypeOK
  Ordered
  ClocksFollowQueue
  TickerTracksFirst
  LessThanOneMsEarly
PROPERTIES
  WaitsAreKept
  ImplementsEventService
  ReadyRuns
  WaitingEnds
