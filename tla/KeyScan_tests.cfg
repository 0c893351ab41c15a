\* Every file of tests, against an EC any command of which may fail.
SPECIFICATION Spec
CONSTANTS
  KEYSCAN_MAX_TESTS = 2
  Scans = {"a", "b"}
  Texts <- AllTexts
  MaxLines = 8
INVARIANTS
  TypeOK
  SuccessIsWhole
CHECK_DEADLOCK FALSE
