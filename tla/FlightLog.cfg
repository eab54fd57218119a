SPECIFICATION Spec
CONSTANTS
  BatchSize = 2
  MaxLate = 2
  MaxFlights = 3
  MaxPackets = 6
  Capacity = 20
  Showing = {1, 4}
INVARIANTS
  OneFlightPerFile
  PacketsReadWhole
  KeptIsRead
CHECK_DEADLOCK FALSE
