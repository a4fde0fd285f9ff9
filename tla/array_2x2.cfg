SPECIFICATION FairSpec
CONSTANTS
  PE = 2
  R = 2
  S = 2
  K = 4
  PATH = 4
INVARIANTS
  IInv
  ExactDotProduct
  NothingInFlight
PROPERTIES
  ImplementsProduct
  CompletesProduct
