\* Calls that break off at any point, an EC of any speed, buffers of any size.
SPECIFICATION FairSpec
CONSTANTS
  c0 = c0
  c1 = c1
  c2 = c2
  c3 = c3
  Command = {c0, c1, c2, c3}
  NoCommand = NoCommand
  RespLen <- MCRespLen
  InSizes <- MCInSizes
  MaxPacket = 2
  Depth = 2
INVARIANTS
  TypeOK
  StaysInStep
PROPERTIES
  KeepsPromise
  CallReturns
