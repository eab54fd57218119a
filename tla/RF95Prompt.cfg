SPECIFICATION FairSpec
CONSTANTS
  Frames <- MCFrames
  Packets = {p1, p2}
  BufSize = 8
  Space = 255
  CadTimeouts = {0, 1}
  Prompt = TRUE
  None = None
INVARIANTS
  TypeOK
  ValidIsForUs
  ModeIsChipMode
PROPERTIES
  AirUndisturbed
  DeliversAsPromised
  SendReturns
  EachCollected
