SPECIFICATION Spec
CONSTANTS
  Slots = 3
  SweepFrom = 1
  SweepTo = 3
  LoopDelay = 1
  PollDelay = 1
  SendDelay = 2
  SweepDelay = 2
  SliceMs = 1
  WriteMs = 1
  RavenA = {"R1A"}
  RavenB = {"R0B"}
  StampCount = 3
  Stamps <- MCStamps
  NextStamp <- MCNextStamp
  FirstStamp = 0
  Blank = Blank
  Ring <- StartOrder
INVARIANT DeployedMoved
