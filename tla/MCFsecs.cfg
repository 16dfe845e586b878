SPECIFICATION FairSpec
CONSTANTS
  WordBits = 2
  LoopCost = 2
  TickCosts = {5, 9}
  NEVENT = 1
  THRESHOLD = 3
  RECORDTHRESH = 5
  MaxTicks = 1
  Costs = {3}
  Ks = {2}
  MaxSamples = {3}
  EpsNum = 1
  EpsDen = 2
  CacheBytes = {8, 16}
  CacheBlocks = {8}
  sizeof_int = 4
  Methods = {"FCYC", "ITIMER", "GETTOD"}
  FsecsK = 2
  FsecsSamples = 3
  Runs = 3
  USEC = 4
  MAX_ETIME = 3
INVARIANTS TypeOK MeasuresElapsed KeepsTheSmallest ReturnsAgreedMinimum
  CompensationTakesEveryTick ClearStaysInBuffer
PROPERTY MeasurementEnds
CHECK_DEADLOCK FALSE
