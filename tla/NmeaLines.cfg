SPECIFICATION Spec
CONSTANTS
  MAXLINELENGTH = 16
  RxRoom = 2
  MaxLost = 2
  Latitudes <- MCLatitudes
INVARIANTS
  TypeOK
PROPERTIES
  LineIsWhatCame
  OneLossIsSafe
  Recovers
