SPECIFICATION FairSpec
INVARIANTS
  SelfLocation
  Framing
PROPERTY Progress
