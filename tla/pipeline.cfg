SPECIFICATION Spec
CONSTANTS
  w1 = w1
  w2 = w2
  e1 = e1
  e2 = e2
  A = A
  B = B
  Workers <- MCWorkers
  Events <- MCEvents
  Findings <- MCFindings
  Rules = 2
  MinEvents <- MCMin
  Scope <- MCScope
  Idle = Idle
  MaxDeliver = 3
  MaxFaults = 1
  MaxEdits = 2
SYMMETRY MCSymmetry
INVARIANTS
  ThresholdRaises
  EvidenceHolds
CHECK_DEADLOCK FALSE
