\* Which handlers call a hook their transport never installed?
SPECIFICATION Spec
CONSTANTS
  MaxRounds = 1
  Commands <- AllCommands
  Transports <- AllTransports
INVARIANT NoNullHook
CHECK_DEADLOCK FALSE
