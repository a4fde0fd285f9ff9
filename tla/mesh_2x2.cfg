CONSTANTS
  R = 2
  S = 2
  K = 1
  STEPS = 3
  ACCS = 2
  APB = 1
  CROSS = 1
  LINK = 1
  TAP = FALSE
  Blocks <- MCBlocks
SPECIFICATION Spec
INVARIANTS
  TypeOK
  SelfLocation
  Framing
  RowMajorResult
  CleanHandover
