SPECIFICATION Spec
CONSTANTS
  r1 = r1
  w1 = w1
  w2 = w2
  e1 = e1
  e2 = e2
  e3 = e3
  Replicas <- MCReplicas
  Workers <- MCWorkers
  Home <- MCHome
  Events <- MCEvents
  Malformed <- MCMalformed
  Findings <- MCFindings
  Titles <- MCTitles
  Idle = Idle
  MaxDeliver = 2
  MaxAckPending = 2
  MapCap = 0
  MaxFaults = 1
  MaxWaits = 2
INVARIANTS
  OncePerWindow
  Accounted
PROPERTY
  EventuallySettled
CHECK_DEADLOCK FALSE
