SPECIFICATION Spec
CONSTANTS
  PacketSize = 7
  RingSize = 22
  Telemetry <- MCTelemetry
  Noise <- MCNoise
  NoiseLimit = 6
INVARIANTS
  TypeOK
  NeverPopsEmpty
  InStep
PROPERTIES
  RelaysAsPromised
  SecondFreesFirst
