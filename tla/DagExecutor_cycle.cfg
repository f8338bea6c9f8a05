SPECIFICATION Spec
CONSTANTS
  NumTasks = 3
  Strategies = {"stop_dependents"}
  MaxDepth = 2
  MaxParallel = 2
  MaxFailures = 2
  MaxRounds = 4
  MaxAsks = 0
CHECK_DEADLOCK FALSE
INVARIANTS
  CyclesAreCleared
