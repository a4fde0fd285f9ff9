SPECIFICATION FairSpec
CONSTANTS
  PE = 2
  R = 2
  S = 1
  K = 2
  OPW = 4
  AMAX = 7
  Jobs <- MCJobs
  MAX_ATTEMPTS = 1
INVARIANTS ResultIsProduct RegionsApart ReadsWhatWasWritten
PROPERTY CellEnds
CHECK_DEADLOCK FALSE
