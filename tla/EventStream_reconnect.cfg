SPECIFICATION Spec
CONSTANTS
  Publishers = {p1, p2}
  MaxSeq = 2
  MaxDrops = 1
  MaxFailures = 0
INVARIANT ReconnectCatchesUp
