SPECIFICATION Spec
CONSTANTS
  s1 = s1
  s2 = s2
  Senders <- MCSenders
  SpoolCap = 1
  BatchSize = 1
  Outlasts = TRUE
  MaxBatches = 2
  MaxResults = 0
  MaxStale = 2
  MaxOutages = 2
  MaxFaults = 0
PROPERTIES
  EventuallyOnline
  SendReturns
CHECK_DEADLOCK FALSE
