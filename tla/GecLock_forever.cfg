\* Two callers, one of which asks to try forever.
SPECIFICATION FairLockSpec
CONSTANTS
  p1 = p1
  p2 = p2
  p3 = p3
  Proc = {p1, p2}
  NoProc = NoProc
  SLEEP_INTERVAL_MS = 2
  Timeouts <- MCNegative
  MaxSignals = 1
  DirStates <- MCSameDir
PROPERTIES
  NegativeTriesForever
