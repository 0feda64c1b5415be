\* Do files beyond the 32-bit length arrive?
SPECIFICATION Spec
CONSTANTS
  HDR = 2
  MaxPkt = 4
  Chunk = 8
  SmallChunk = 4
  MaxLen = 23
  Sizes <- Large
INVARIANTS
  LargeArrives
\* The call has returned or thrown.
CHECK_DEADLOCK FALSE
