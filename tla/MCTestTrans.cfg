SPECIFICATION Spec
CONSTANTS
  setBits = 5
  linePerSet = 1
  offsetBits = 5
  IntBits = 30
  INVALID = 538249490
  Junk = Junk
  ArrayCells = 65536
  MAXN = 256
  INT_MAX = 2147483647
  None = None
  Old = Old
  Shapes <- MCShapes
INVARIANTS TypeOK StaysInside CorrectWhenSupported FullMarks VerdictsAccounted
