\* Three chunks fill the buffer, an interrupt can span a chunk, and the queue can
\* be full of other events.
CONSTANTS
  BufferLength = 5
  ChunkLength = 2
  QueueCapacity = 2
  Burst = 3
  Wrap = 9
SPECIFICATION FairSpec
INVARIANTS
  TypeOK
  SanityCheck
  ConsumerMatchesBytes
  StreamIntact
PROPERTY BytesAreFed
