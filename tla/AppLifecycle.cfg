\* Reconnect pressed once and one stall, at any moment; no symmetry, for liveness.
SPECIFICATION FairSpec
CONSTANTS
  g1 = g1
  g2 = g2
  g3 = g3
  Gens <- Three
  Null = Null
  MaxClicks = 1
  MaxStalls = 1
INVARIANTS
  ObjectsTogether
  EntriesOfSession
  ReleasedUnlessStalled
  SafeWithoutReconnect
PROPERTIES
  ReplugFound
  UnplugNoticed
  CallsReturn
\* A step on a null or destroyed object ends the program.
CHECK_DEADLOCK FALSE
