\* Every payload that fits the 32-bit length, every device answer.
SPECIFICATION Spec
CONSTANTS
  HDR = 2
  MaxPkt = 4
  Chunk = 8
  SmallChunk = 4
  MaxLen = 23
  Sizes <- Small
INVARIANTS
  OkIsWhole
  OkLeavesPipeEmpty
  UnalignedArrives
\* The call has returned or thrown.
CHECK_DEADLOCK FALSE
