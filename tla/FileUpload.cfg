\* Every file size from empty to more than two chunks, at both speeds.
SPECIFICATION FairSpec
CONSTANTS
  HDR = 1
  MaxPkts <- PacketSizes
  SuperSpeed = 4
  ChunkHS = 4
  ChunkSS = 8
  MaxLen = 16
  MaxSize = 20
INVARIANTS
  EndIsSeen
  Complete
PROPERTIES
  NothingAfterEnd
  Terminates
\* The data phase is over: the function has returned or thrown.
CHECK_DEADLOCK FALSE
