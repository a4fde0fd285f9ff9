CONSTANTS
  R = 3
  S = 1
  K = 2
  STEPS = 2
  ACCS = 1
  APB = 1
  CROSS = 1
  LINK = 4
  TAP = TRUE
  SLACK = 6
  Blocks <- MCBlocks
SPECIFICATION Spec
CHECK_DEADLOCK FALSE
INVARIANT MidAbsorbs
