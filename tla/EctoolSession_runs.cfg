\* Every way to name an interface; with none, a working /dev node.
SPECIFICATION FairSpec
CONSTANTS
  p1 = p1
  p2 = p2
  p3 = p3
  Proc = {p1, p2}
  NoProc = NoProc
  SLEEP_INTERVAL_MS = 2
  Timeouts <- MCTimeouts
  MaxSignals = 0
  DirStates <- MCSameDir
  Options <- MCNamed
  DevWorks <- MCDefault
INVARIANTS
  TypeOK
  RawBusExclusive
PROPERTIES
  MainGoesOn
