\* A cut download, no bulk failure.
SPECIFICATION Spec
CONSTANTS
  Nobody = Nobody
  Offered = {"read", "get"}
  Cuttable = {"get"}
  MaxCalls = 3
  MaxFaults = 0
  MaxRetries = 0
INVARIANTS
  AnswerIsMine
\* No more calls are made.
CHECK_DEADLOCK FALSE
