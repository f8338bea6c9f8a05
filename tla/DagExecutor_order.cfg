SPECIFICATION FairSpec
CONSTANTS
  NumTasks = 4
  Strategies = {"stop", "stop_dependents", "continue"}
  MaxDepth = 2
  MaxParallel = 2
  MaxFailures = 3
  MaxRounds = 5
  MaxAsks = 2
CHECK_DEADLOCK FALSE
INVARIANTS
  TypeOK
  RanInOrder
  NothingLeft
PROPERTIES
  DecidedOnce
  CancelledForCause
  DagFinishes
