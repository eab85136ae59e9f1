SPECIFICATION FairSpec
CONSTANTS
  w1 = w1
  w2 = w2
  p1 = p1
  p2 = p2
  Workers = {w1}
  Fragile = {}
  Parts = {p1, p2}
  BatchSize = 2
  MaxLen = 2
  MaxEvents = 3
  MaxFaults = 1
PROPERTIES Retried
CHECK_DEADLOCK FALSE
