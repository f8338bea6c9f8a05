SPECIFICATION FairSpec
CONSTANTS
  Publishers = {p1, p2}
  MaxSeq = 3
  MaxDrops = 2
  MaxFailures = 1
INVARIANTS
  TypeOK
  OrderedOnce
  OnlyLateEventsAreMissed
  NoGap
PROPERTIES
  StreamEnds
  Delivered
