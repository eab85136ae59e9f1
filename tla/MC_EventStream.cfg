SPECIFICATION FairSpec
CONSTANTS
  w1 = w1
  w2 = w2
  p1 = p1
  p2 = p2
  Workers = {w1, w2}
  Fragile = {w2}
  Parts = {p1, p2}
  BatchSize = 2
  MaxLen = 2
  MaxEvents = 3
  MaxFaults = 2
INVARIANTS EventsAccountedFor AckedUpdateWasIndexed IndexFollowsStream
PROPERTIES AckedUnlessDisturbed
CHECK_DEADLOCK FALSE
