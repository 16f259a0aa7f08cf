SPECIFICATION FairSpec
CONSTANTS
  Requests = {"s", "u", "v"}
  Streaming = {"s"}
  Slots = 1
  QueueLimit = 1
  Limit = 1
  MaxRequeues = 1
  MaxChunks = 2
INVARIANTS
  NoUnheardWork
  EndedStreamIsWhole
PROPERTIES
  AbandonedIsCanceled
  GoneIsAnswered
CHECK_DEADLOCK FALSE
