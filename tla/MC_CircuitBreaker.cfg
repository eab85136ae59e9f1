SPECIFICATION FairSpec
CONSTANTS
  g1 = g1
  g2 = g2
  s1 = s1
  r1 = r1
  Guarded = {g1, g2}
  Senders = {s1}
  Retriers = {r1}
  Threshold = 2
  HalfOpenMax = 1
  MaxRetries = 1
  CountCap = 3
  Cancellable = {s1, r1}
INVARIANTS CountMatchesState
PROPERTIES RecoversWhenHealthy
