\* Calls of two processes over /dev, or in turn over I2C.
SPECIFICATION Spec
CONSTANTS
  p1 = p1
  p2 = p2
  quick = quick
  slow = slow
  slow1 = slow1
  Proc = {p1, p2}
  Command = {quick, slow, slow1}
  NoCommand = NoCommand
  RespLen <- MCRespLen
  InSizes = {0, 1, 2, 3}
  Slow = {slow, slow1}
  Version0 = {quick, slow}
  ec_max_insize = 2
PROPERTIES
  KeepsPromise
