SPECIFICATION MCFairSpec
CONSTANTS
  ENGINES = 2
  Process = {0, 1, 2}
  CellJobs <- MCCellJobs
  Sizes = {6}
  BLOCK_LIMIT = 32
  STREAM_LIMIT = 16
  SCALE = 200
  FINE = 4
  AnA <- MCA
  AnB <- MCB
INVARIANT SamplesAreOperands
CHECK_DEADLOCK FALSE
