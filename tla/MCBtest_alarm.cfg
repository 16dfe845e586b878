SPECIFICATION Spec
CONSTANTS
  Width = 8
  ExpBits = 4
  FracBits = 3
  TEST_RANGE = 9
  MAX_TEST_VALS = 117
  timeout_limit = 10
  ArgVals = {}
  Randoms <- MCRandoms
  NoArg = NoArg
INVARIANT TimeoutEndsItsTest
CHECK_DEADLOCK FALSE
