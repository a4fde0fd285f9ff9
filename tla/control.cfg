SPECIFICATION Spec
CONSTANTS
  COMPUTE_DEPTH = 2
  STORE_DEPTH = 3
INVARIANTS TypeOK RunsAsAsked IdleIsIdle DoneReported DoneIsThisRun NoEventLost
