\* Every kind of EC.
SPECIFICATION FairSpec
CONSTANTS
  c1 = c1
  c2 = c2
  c3 = c3
  Command = {c1, c2, c3}
  NoCommand = NoCommand
  RespLen <- MCRespLen
  InSizes <- MCInSizes
  Oversize = {c3}
  Ecs <- MCEcs
INVARIANTS
  TypeOK
PROPERTIES
  KeepsPromise
  CallReturns
