SPECIFICATION Spec
CONSTANTS
  PacketSize = 7
  RingSize = 22
  Telemetry <- MCTelemetry
  Noise <- MCForeign
  NoiseLimit = 6
INVARIANT NeverPopsEmpty
