SPECIFICATION MCFairSpec
CONSTANTS
  ENGINES = 2
  Process = {0, 1, 2}
  CellJobs <- MCCellJobs
  Sizes = {4, 12, 24}
  BLOCK_LIMIT = 3
  STREAM_LIMIT = 8
  SCALE = 200
  FINE = 4
  AnA <- MCA
  AnB <- MCB
INVARIANTS ProductComplete NeverWithoutContext Released Grounded NothingLeaked EveryWayPasses
PROPERTY CellEndsToo
CHECK_DEADLOCK FALSE
