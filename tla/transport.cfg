SPECIFICATION Spec
CONSTANTS
  s1 = s1
  s2 = s2
  Senders <- MCOneSender
  SpoolCap = 2
  BatchSize = 2
  Outlasts = FALSE
  MaxBatches = 3
  MaxResults = 1
  MaxStale = 2
  MaxOutages = 2
  MaxFaults = 1
INVARIANTS
  NeverWedged
  LossBoundedByEvictions
  ReplayInOrder
  ResultInOnePlace
  ResultsKept
CHECK_DEADLOCK FALSE
