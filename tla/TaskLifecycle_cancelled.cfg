SPECIFICATION Spec
CONSTANTS
  Repliers = {h1}
  Cancellers = {c1}
  MaxRunners = 2
  MaxMishaps = 0
CHECK_DEADLOCK FALSE
INVARIANT CancelledEventIsTrue
