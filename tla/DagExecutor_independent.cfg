SPECIFICATION Spec
CONSTANTS
  NumTasks = 4
  Strategies = {"stop_dependents"}
  MaxDepth = 2
  MaxParallel = 1
  MaxFailures = 2
  MaxRounds = 5
  MaxAsks = 0
CHECK_DEADLOCK FALSE
INVARIANTS
  IndependentGoesOn
