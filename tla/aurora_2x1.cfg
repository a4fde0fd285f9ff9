CONSTANTS
  R = 2
  S = 1
  K = 1
  STEPS = 2
  ACCS = 2
  APB = 2
  CROSS = 1
  LINK = 8
  TAP = TRUE
  SLACK = 14
  Blocks <- MCBlocks
SPECIFICATION Spec
CHECK_DEADLOCK FALSE
INVARIANTS
  TailResult
  LinksHold
