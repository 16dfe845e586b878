SPECIFICATION Spec
CONSTANTS
  Width = 8
  ExpBits = 4
  FracBits = 3
  TEST_RANGE = 9
  MAX_TEST_VALS = 117
  timeout_limit = 10
  ArgVals = {0, 5}
  Randoms <- MCRandoms
  NoArg = NoArg
INVARIANTS TypeOK ErrorsAreTimeouts CornersTried
CHECK_DEADLOCK FALSE
