\* Two devices of any kind, one bulk error on a plugged device.
SPECIFICATION FairSpec
CONSTANTS
  Devices = {d1, d2}
  Kinds <- AllKinds
  SwitchIds = {"switch"}
  Null = Null
  MaxFaults = 1
INVARIANTS
  FoundIsOpened
  EndpointsOfClaimed
PROPERTIES
  UsableIsConnected
