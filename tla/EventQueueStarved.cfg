\* One event that waits and one that is posted and cancelled again and again;
\* two clock instants in a millisecond, so that cancel() has a fraction to lose.
CONSTANTS
  Handle = {h1, h2}
  Delay = {0, 1}
  Resolution = 2
  Latency = 1
SPECIFICATION FairSpec
PROPERTIES
  PostedWillBeExecuted
