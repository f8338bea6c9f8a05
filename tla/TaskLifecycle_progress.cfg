SPECIFICATION FairSpec
CONSTANTS
  Repliers = {h1}
  Cancellers = {c1}
  MaxRunners = 3
  MaxMishaps = 1
CHECK_DEADLOCK FALSE
INVARIANTS
  TypeOK
PROPERTIES
  SettledIsFinal
  ImplementsContract
  TaskSettles
  CancelReturns
