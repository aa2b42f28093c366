SPECIFICATION FairSpec
CONSTANT
  InitFile <- TutlinInit
INVARIANTS RunsItsOwnLine OutputReturns SoleSessionHearsItself
PROPERTY LinesAreRun
CHECK_DEADLOCK FALSE
