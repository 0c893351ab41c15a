\* Every command over every transport, loops of up to two rounds.
SPECIFICATION Spec
CONSTANTS
  MaxRounds = 2
  Commands <- AllCommands
  Transports <- AllTransports
INVARIANTS
  SuccessIsReal
  AskedIsDoneOrRefused
  InputCheckedFirst
  SpeaksKnownVersions
  ParamsReadAsShown
  NoChangeOnFailedRead
  SuccessEndsWithZero
CHECK_DEADLOCK FALSE
