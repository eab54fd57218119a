SPECIFICATION Spec
CONSTANTS
  a = a
  b = b
  c = c
  Node <- ThreeNodes
  Broadcast = Broadcast
  IdRange = 4
  Retries = 1
  MaxSent <- SomeEach
INVARIANTS
  SuccessMeansReceived
PROPERTIES
  DeliversAsPromised
  SendEnds
CHECK_DEADLOCK FALSE
