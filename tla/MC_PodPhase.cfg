\* getPhase over every pod with at most one init container and two
\* ordinary containers
CONSTANTS
  MaxInit = 1
  MaxCtrs = 2
SPECIFICATION Spec
INVARIANTS
  SucceededOnlyWhenAllExitedZero
  FailedOnlyWhenNeverRestarted
