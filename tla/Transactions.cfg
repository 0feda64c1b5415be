\* Two calls of any kind, one failure or end of the process, one cut transfer,
\* one more attempt to connect.
SPECIFICATION FairSpec
CONSTANTS
  Nobody = Nobody
  Offered <- All
  Cuttable = {"get", "send"}
  MaxCalls = 2
  MaxFaults = 1
  MaxRetries = 1
INVARIANTS
  OperationsStayInStep
  SuccessIsReal
  CutUploadHeals
  RestartHeals
PROPERTIES
  PairUnbroken
  CallsEnd
\* The session is closed in the end, or no more calls are made.
CHECK_DEADLOCK FALSE
