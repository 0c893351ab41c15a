\* The EC is slow, refuses or goes silent; transfers, pins and processes fail.
SPECIFICATION FairSpec
CONSTANTS
  c1 = c1
  c2 = c2
  Command = {c1, c2}
  NoCommand = NoCommand
  RespLen <- MCRespLen
  InSizes <- MCInSizes
  RESP_TIMEOUT = 2
INVARIANTS
  TypeOK
  EcWasListening
PROPERTIES
  KeepsPromise
  ReturnsUnlessStarved
