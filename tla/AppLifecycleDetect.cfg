\* One press of Reconnect is enough to lose the device.
SPECIFICATION FairSpec
CONSTANTS
  g1 = g1
  g2 = g2
  g3 = g3
  Gens <- Three
  Null = Null
  MaxClicks = 1
  MaxStalls = 0
PROPERTIES
  AutoDetect
\* A step on a null or destroyed object ends the program.
CHECK_DEADLOCK FALSE
