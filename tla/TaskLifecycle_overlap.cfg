SPECIFICATION SmallSpec
CONSTANTS
  Repliers = {h1, h2}
  Cancellers = {c1}
  MaxRunners = 5
  MaxMishaps = 2
SYMMETRY Symmetry
CHECK_DEADLOCK FALSE
INVARIANTS
  StatusIsExplained
  NoOrphan
