\* Two transfers of up to two chunks: every interleaving of clients, worker,
\* monitor scan and destructor; no symmetry, it is unsound for liveness.
SPECIFICATION FairSpec
CONSTANTS
  Items = {i1, i2}
  MaxChunks = 2
  None = None
INVARIANTS
  FailedHasReason
  IdleAnswerIsTrue
PROPERTIES
  ImplementsQueue
  EveryTransferEnds
  JoinEndsUnlessWakeupLost
  CancelTakesEffect
\* The engine is destroyed in the end: nothing happens after that.
CHECK_DEADLOCK FALSE
