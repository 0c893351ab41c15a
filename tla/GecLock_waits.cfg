\* Two callers, every kind of timeout, nanosleep() interrupted once per call.
SPECIFICATION FairLockSpec
CONSTANTS
  p1 = p1
  p2 = p2
  p3 = p3
  Proc = {p1, p2}
  NoProc = NoProc
  SLEEP_INTERVAL_MS = 2
  Timeouts <- MCTimeouts
  MaxSignals = 1
  DirStates <- MCSameDir
INVARIANTS
  LockTypeOK
  HeldMatchesFlock
  MutualExclusion
  WaitBounded
  NoEarlyTimeout
PROPERTIES
  AcquireReturns
  PidWrittenByOwner
