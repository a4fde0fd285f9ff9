CONSTANTS
  R = 2
  S = 1
  K = 4
  STEPS = 9
  ACCS = 4
  APB = 1
  CROSS = 4
  LINK = 32
  TAP = TRUE
  SLACK = 4
  Blocks <- MCBlocks
SPECIFICATION FairSpec
CHECK_DEADLOCK FALSE
PROPERTY EveryOutputDrains
