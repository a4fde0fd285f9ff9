SPECIFICATION MCSpec
CONSTANTS
  Data = {d1, d2}
  DEPTH = 7
  ADDRS = 8
  SliceData = {d1, d2, d3}
INVARIANTS
  IInv
  ShowsOldest
  SliceInv
PROPERTIES
  IsQueue
  SliceIsQueue
  Steady
