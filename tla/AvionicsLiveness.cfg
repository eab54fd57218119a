SPECIFICATION FairSpec
CONSTANTS
  Slots = 3
  SweepFrom = 1
  SweepTo = 3
  LoopDelay = 1
  PollDelay = 1
  SendDelay = 2
  SweepDelay = 1
  SliceMs = 1
  WriteMs = 1
  RavenA = {}
  RavenB = {"R0B"}
  StampCount = 2
  Stamps <- MCStamps
  NextStamp <- MCNextStamp
  FirstStamp = 0
  Blank = Blank
  Ring <- ReverseOrder
PROPERTIES
  SignalServed
  SweepCompletes
  KeepsBuilding
  DownlinkHeals
  RecordsForever
