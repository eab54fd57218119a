SPECIFICATION Spec
CONSTANTS
  MaxPackets = 5
  PacketBytes = 3
  PortRoom = 7
  Limit = 5
  None = None
INVARIANTS
  TextIsPackets
  FailsOnlyAtFirst
PROPERTIES
  TextAppears
CHECK_DEADLOCK FALSE
