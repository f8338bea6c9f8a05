SPECIFICATION Spec
CONSTANTS
  Loops = {"zero_report"}
  MaxRounds = 8
INVARIANTS IterativeFollows
CHECK_DEADLOCK FALSE
